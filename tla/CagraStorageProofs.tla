-------------------------- MODULE CagraStorageProofs --------------------------
(***************************************************************************)
(* Proofs about CagraStorage, for every set of threads and vectors, every  *)
(* rounding, storage and mode, and every number of rows and calls.         *)
(***************************************************************************)
EXTENDS CagraStorage, SequenceTheorems, TLAPS

\* What the theorems assume of the callers, each as much as it needs: nobody acts
\* between another call's test for a dataset and its lock, and vectors are only
\* attached to an index that has none;
Orderly == "overlap" \notin Habits /\ "attach_live" \notin Habits

\* nobody saves while a mutation is under way;
SavesAtRest == "save_busy" \notin Habits

\* no update names an id twice;
NamesIdsOnce == "repeat" \notin Habits

\* the vectors attached are those of the rows.
AttachesItsOwn == "attach_other" \notin Habits

-----------------------------------------------------------------------------
(* The inductive invariant.                                                *)

Store == [x : Rows, x16 : Rows, mirror : Rows, mirrorOk : BOOLEAN]

\* cagra_storage of any record of vectors.
RowsOf(d) == IF d.x # <<>> THEN d.x ELSE d.x16

\* What a row of d holds once v was written into it.
As(d, v) == IF d.x # <<>> THEN v ELSE Half[v]

\* d keeps m rows in one of its two forms, the fp16 rows are rounded, and a mirror
\* in use is theirs.
Holds(d, m) ==
  /\ d \in Store
  /\ d.x = <<>> \/ d.x16 = <<>>
  /\ d.x # <<>> \/ d.x16 # <<>>
  /\ Len(RowsOf(d)) = m
  /\ \A i \in 1 .. Len(d.x16) : Half[d.x16[i]] = d.x16[i]
  /\ d.mirrorOk => /\ d.x16 # <<>> /\ d.mirror = d.x16
                   /\ \A i \in 1 .. Len(d.mirror) : d.mirror[i] \in Bytes

\* The index has all its vectors, or none.
VectorsInv == (hasDataset => Holds(ds, n)) /\ (~hasDataset => ds = NoRows)

\* As many ids as vectors.
Arguments(c) ==
  /\ c.vecs \in Seq(Vec)
  /\ c.op = "update" /\ NamesIdsOnce =>
       \A i, j \in 1 .. Len(c.vecs) : c.slots[i] = c.slots[j] => i = j

\* A call that passed its test still finds what it tested for.
FindsItsTest(c) ==
  c.op # "none" =>
    /\ hasDataset
    /\ c.op \in {"update", "insert"} => Arguments(c)
    /\ c.op = "update" => DOMAIN c.slots = 1 .. Len(c.vecs)
    /\ c.op = "calibrate" => c.rows \in 1 .. n

PendingInv ==
  /\ pending = [t \in Threads |-> pending[t]]
  /\ \A t \in Threads : FindsItsTest(pending[t])

\* The call that holds `writer` has a dataset, room for its rows, and rows of its own
\* that exist; claimed rows and tombstones were there when it began.
HolderInv ==
  /\ phase # "idle" /\ hasDataset
  /\ call.op \in {"update", "insert"} /\ Arguments(call)
  /\ originalN \in 1 .. n /\ dead \subseteq 1 .. originalN
  /\ base + Len(chunk) <= Len(call.vecs)
  /\ call.op = "update" => \A i \in 1 .. Len(call.vecs) : call.slots[i] \in 1 .. n
  /\ call.op = "insert" => n + (Len(call.vecs) - base - Len(chunk)) <= MaxRows
  /\ \A k \in 1 .. Len(chunk) : chunk[k].kind = "claim" => chunk[k].slot \in 1 .. originalN
  /\ phase # "undo" /\ phase # "tail" => undone = 0
  /\ phase = "tail" => undone = Len(chunk)
  /\ phase = "encode" => chunk = <<>>

CallInv ==
  /\ writer = NoOne => /\ call.op = "none" /\ phase = "idle" /\ base = 0 /\ done = {}
                       /\ chunk = <<>> /\ undone = 0 /\ originalN = 0
  /\ writer # NoOne => HolderInv

\* A file holds a whole index, in one form.
FileInv ==
  file.saved =>
    /\ file.n \in 1 .. MaxRows /\ file.codes \in Rows /\ file.dead \subseteq 1 .. file.n
    /\ file.rows \in Rows /\ file.f16 \in BOOLEAN
    /\ file.rows # <<>> =>
         /\ Len(file.rows) = file.n
         /\ file.f16 => \A i \in 1 .. Len(file.rows) : Half[file.rows[i]] = file.rows[i]

ShapeInv ==
  /\ TypeOK
  /\ NoStrayAccess
  /\ VectorsInv
  /\ PendingInv
  /\ CallInv
  /\ FileInv

\* The vector that the row of an entry of the chunk holds: the new one, or the old one
\* after it was written back.
HeldBy(k) == IF k \in Standing THEN chunk[k].vec ELSE want[chunk[k].slot]

\* Rows of the chunk are told apart, those it has yet to name included; all others are
\* rows of `want`; the appended ones are the rows `want` does not have.
ChunkInv ==
  /\ want \in Rows /\ Len(want) <= n /\ originalN <= Len(want)
  /\ \A i \in 1 .. n : i > Len(want) => \E k \in 1 .. Len(chunk) : chunk[k].slot = i
  /\ \A k \in 1 .. Len(chunk) : chunk[k].kind = "append" <=> chunk[k].slot > Len(want)
  /\ \A j, k \in 1 .. Len(chunk) : chunk[j].slot = chunk[k].slot => j = k
  /\ \A k \in 1 .. Len(chunk) :
       /\ call.op = "update" => chunk[k].kind = "update" /\ chunk[k].slot = call.slots[base + k]
       /\ call.op = "insert" /\ phase = "write" => chunk[k].slot \notin dead

\* Every row holds the vector of the last chunk that stands, but the rows of the chunk,
\* which hold their new vectors until they are written back, and whose old ones the
\* chunk has kept.
RowsKept ==
  /\ \A i \in 1 .. Len(want) :
       hasDataset /\ (\A k \in 1 .. Len(chunk) : chunk[k].slot # i) => Stored[i] = As(ds, want[i])
  /\ \A k \in 1 .. Len(chunk) :
       /\ Stored[chunk[k].slot] = As(ds, HeldBy(k))
       /\ chunk[k].kind # "append" => chunk[k].prev = As(ds, want[chunk[k].slot])

\* So do the rows of the file.
FileKept ==
  file.saved =>
    /\ file.want \in Rows /\ Len(file.want) = file.n
    /\ \A i \in 1 .. Len(file.rows) :
         file.rows[i] = IF file.f16 THEN Half[file.want[i]] ELSE file.want[i]

KeepInv == ChunkInv /\ RowsKept /\ FileKept

\* `codes` were made of the vectors `rows`, but for the rows in `out`.
Encode(cs, rows, out) ==
  cs # <<>> => \A i \in 1 .. Len(rows) :
                 i \notin out => i <= Len(cs) /\ Half[cs[i]] = Half[rows[i]]

CodesInv ==
  /\ Encode(codes, want, unencoded \cup done)
  /\ file.saved => Encode(file.codes, file.want, file.unencoded)

-----------------------------------------------------------------------------
(* Facts about the operators.                                              *)

\* The rows of an index are short sequences of vectors.
LEMMA RowsAreSeqs ==
  ASSUME NEW r
  PROVE  r \in Rows <=> r \in Seq(Vec) /\ Len(r) <= MaxRows
<1>0. MaxRows \in Nat
  BY CagraStorageAssumption
<1>1. ASSUME r \in Rows PROVE r \in Seq(Vec) /\ Len(r) <= MaxRows
  <2>1. PICK m \in 0 .. MaxRows : r \in [1 .. m -> Vec]
    BY <1>1, Zenon DEF Rows
  <2>2. m \in Nat
    BY <1>0, <2>1
  <2>3. r \in Seq(Vec)
    BY <2>1, <2>2, SMT
  <2> QED
    BY <1>0, <2>1, <2>2, <2>3, SMT
<1>2. ASSUME r \in Seq(Vec), Len(r) <= MaxRows PROVE r \in Rows
  <2>1. Len(r) \in 0 .. MaxRows /\ r \in [1 .. Len(r) -> Vec]
    BY <1>0, <1>2, LenProperties
  <2> QED
    BY <2>1, Zenon DEF Rows
<1> QED
  BY <1>1, <1>2

\* Rounding.
LEMMA HalfFacts ==
  ASSUME NEW v \in Vec
  PROVE  Half[v] \in Vec /\ Half[Half[v]] = Half[v]
BY CagraStorageAssumption

\* Rows that were rounded are rows, as many.
LEMMA RoundedRows ==
  ASSUME NEW r \in Rows
  PROVE  /\ Rounded(r) \in Rows /\ Len(Rounded(r)) = Len(r)
         /\ \A i \in 1 .. Len(r) : Rounded(r)[i] = Half[r[i]]
         /\ Rounded(r) = <<>> <=> r = <<>>
<1>1. r \in Seq(Vec) /\ Len(r) <= MaxRows /\ Len(r) \in Nat /\ DOMAIN r = 1 .. Len(r)
  BY RowsAreSeqs, LenProperties
<1>2. \A i \in 1 .. Len(r) : Half[r[i]] \in Vec
  BY <1>1, HalfFacts, ElementOfSeq
<1>3. Rounded(r) = [i \in 1 .. Len(r) |-> Half[r[i]]]
  BY <1>1 DEF Rounded
<1>4. Rounded(r) \in [1 .. Len(r) -> Vec]
  BY <1>2, <1>3, Zenon
<1>5. Rounded(r) \in Seq(Vec) /\ Len(Rounded(r)) = Len(r)
  BY <1>1, <1>4, SMT
<1>6. Rounded(r) = <<>> <=> r = <<>>
  BY <1>1, <1>5, EmptySeq
<1>7. Rounded(r) \in Rows
  BY <1>1, <1>5, RowsAreSeqs
<1>8. \A i \in 1 .. Len(r) : Rounded(r)[i] = Half[r[i]]
  BY <1>3
<1> QED
  BY <1>5, <1>6, <1>7, <1>8

LEMMA EmptyRows == <<>> \in Rows /\ NoRows \in Store
<1>1. <<>> \in Rows
  <2>1. <<>> \in Seq(Vec) /\ Len(<<>>) = 0
    BY EmptySeq
  <2>2. 0 <= MaxRows
    BY CagraStorageAssumption
  <2> QED
    BY <2>1, <2>2, RowsAreSeqs
<1> QED
  BY <1>1 DEF NoRows, Store

\* cagra_build_mirror8 over fp16 rows that were rounded.
LEMMA MirroredHolds ==
  ASSUME NEW d \in Store, NEW r \in Rows, r # <<>>, d.x = <<>>, d.x16 = r,
         \A i \in 1 .. Len(r) : Half[r[i]] = r[i]
  PROVE  /\ Holds(Mirrored(d), Len(r))
         /\ Mirrored(d).x = <<>> /\ Mirrored(d).x16 = r
<1> DEFINE fits == \A i \in 1 .. Len(r) : r[i] \in Bytes
           e == [d EXCEPT !.mirror = IF fits THEN r ELSE <<>>, !.mirrorOk = fits]
<1>0. DOMAIN r = 1 .. Len(r)
  BY RowsAreSeqs, LenProperties
<1>1. Mirrored(d) = e
  BY <1>0 DEF Mirrored
<1>2. fits \in BOOLEAN
  OBVIOUS
<1>3. /\ e \in Store /\ e.x = <<>> /\ e.x16 = r
      /\ e.mirror = (IF fits THEN r ELSE <<>>)
      /\ e.mirrorOk <=> fits
  <2> HIDE DEF fits
  <2> QED
    BY <1>2, EmptyRows DEF Store
<1>4. e.mirrorOk => e.mirror = r /\ fits
  BY <1>3
<1> HIDE DEF e
<1>5. Holds(e, Len(r))
  BY <1>3, <1>4 DEF Holds, RowsOf
<1> QED
  BY <1>1, <1>3, <1>5

\* cagra_convert_to_f16.
LEMMA ConvertedHolds ==
  ASSUME NEW d \in Store, d.x # <<>>
  PROVE  /\ Holds(Converted(d), Len(d.x))
         /\ Converted(d).x = <<>> /\ Converted(d).x16 = Rounded(d.x)
<1> DEFINE r == Rounded(d.x)
           e == [d EXCEPT !.x16 = r, !.x = <<>>]
<1>1. d.x \in Rows
  BY DEF Store
<1>2. r \in Rows /\ Len(r) = Len(d.x) /\ r # <<>>
      /\ \A i \in 1 .. Len(d.x) : r[i] = Half[d.x[i]]
  BY <1>1, RoundedRows
<1>3. \A i \in 1 .. Len(r) : d.x[i] \in Vec
  BY <1>1, <1>2, RowsAreSeqs, ElementOfSeq
<1>4. \A i \in 1 .. Len(r) : Half[r[i]] = r[i]
  BY <1>2, <1>3, HalfFacts
<1>5. Converted(d) = Mirrored(e)
  BY DEF Converted
<1> HIDE DEF r
<1>6. e \in Store /\ e.x = <<>> /\ e.x16 = r
  BY <1>2, EmptyRows DEF Store
<1> HIDE DEF e
<1>7. Holds(Mirrored(e), Len(r)) /\ Mirrored(e).x = <<>> /\ Mirrored(e).x16 = r
  BY <1>2, <1>4, <1>6, MirroredHolds
<1> QED
  BY <1>2, <1>5, <1>7 DEF r

\* cagra_finalize_storage over freshly read fp32 rows.
LEMMA FinalizedHolds ==
  ASSUME NEW r \in Rows, r # <<>>, NEW lossy \in BOOLEAN
  PROVE  LET d == [NoRows EXCEPT !.x = r]
             f == Finalized(d, lossy)
         IN /\ d \in Store /\ Holds(d, Len(r)) /\ d.x = r
            /\ Holds(Converted(d), Len(r))
            /\ Converted(d).x = <<>> /\ Converted(d).x16 = Rounded(r)
            /\ Holds(f, Len(r))
            /\ f = d \/ f = Converted(d)
            /\ F16Mode # "force" /\ ~lossy /\ f # d => Lossless(d)
<1> DEFINE d == [NoRows EXCEPT !.x = r]
<1>1. d \in Store /\ d.x = r /\ d.x16 = <<>> /\ d.mirrorOk = FALSE
  BY EmptyRows DEF NoRows, Store
<1>2. Len(<<>>) = 0
  BY EmptySeq
<1>3. Holds(d, Len(r))
  <2> HIDE DEF d
  <2> QED BY <1>1, <1>2 DEF Holds, RowsOf
<1>4. /\ Holds(Converted(d), Len(r))
      /\ Converted(d).x = <<>> /\ Converted(d).x16 = Rounded(r)
  BY <1>1, ConvertedHolds
<1> HIDE DEF d
<1>5. /\ Finalized(d, lossy) = d \/ Finalized(d, lossy) = Converted(d)
      /\ F16Mode # "force" /\ ~lossy /\ Finalized(d, lossy) # d => Lossless(d)
  BY DEF Finalized
<1>6. Holds(Finalized(d, lossy), Len(r))
  BY <1>3, <1>4, <1>5
<1> QED
  BY <1>1, <1>3, <1>4, <1>5, <1>6, Zenon DEF d

\* The index as it was built.
LEMMA BuiltHolds ==
  ASSUME NEW r \in Rows, r # <<>>, NEW storage \in Storages
  PROVE  LET b == Built(r, storage)
         IN /\ Holds(b, Len(r))
            /\ \A i \in 1 .. Len(r) : RowsOf(b)[i] = As(b, r[i])
<1> DEFINE d == [NoRows EXCEPT !.x = r]
           b == Built(r, storage)
<1>1. storage \in {"auto", "fp32", "fp16", "fp16_if_lossless"}
  BY CagraStorageAssumption
<1>2. /\ Holds(d, Len(r)) /\ d.x = r
      /\ Holds(Converted(d), Len(r))
      /\ Converted(d).x = <<>> /\ Converted(d).x16 = Rounded(r)
      /\ Finalized(d, TRUE) = d \/ Finalized(d, TRUE) = Converted(d)
  BY FinalizedHolds
<1> HIDE DEF d
<1>3. b = d \/ b = Converted(d)
  BY <1>1, <1>2 DEF Built, d
<1>4. \A i \in 1 .. Len(r) : Rounded(r)[i] = Half[r[i]]
  BY RoundedRows
<1> HIDE DEF b
<1>5. CASE b = d
  BY <1>2, <1>5 DEF RowsOf, As, b
<1>6. CASE b = Converted(d)
  BY <1>2, <1>4, <1>6 DEF RowsOf, As, b
<1> QED
  BY <1>3, <1>5, <1>6 DEF b

\* The rows that are kept are a sequence of vectors.
LEMMA HeldRows ==
  ASSUME NEW d, NEW m, Holds(d, m)
  PROVE  /\ RowsOf(d) \in Rows /\ RowsOf(d) \in Seq(Vec) /\ m = Len(RowsOf(d))
         /\ m \in 1 .. MaxRows
         /\ \A i \in 1 .. m : RowsOf(d)[i] \in Vec
         /\ \A i \in 1 .. m : As(d, RowsOf(d)[i]) = RowsOf(d)[i]
<1>1. RowsOf(d) \in Rows /\ m = Len(RowsOf(d)) /\ RowsOf(d) # <<>>
  BY DEF Holds, Store, RowsOf
<1>2. RowsOf(d) \in Seq(Vec) /\ Len(RowsOf(d)) <= MaxRows /\ Len(RowsOf(d)) \in Nat
  BY <1>1, RowsAreSeqs, LenProperties
<1>3. m # 0
  BY <1>1, <1>2, EmptySeq
<1>4. \A i \in 1 .. m : RowsOf(d)[i] \in Vec
  BY <1>1, <1>2, ElementOfSeq
<1>5. \A i \in 1 .. m : As(d, RowsOf(d)[i]) = RowsOf(d)[i]
  <2>1. CASE d.x # <<>>
    BY <2>1 DEF As
  <2>2. CASE d.x = <<>>
    BY <1>1, <2>2 DEF As, Holds, RowsOf
  <2> QED
    BY <2>1, <2>2
<1>6. MaxRows \in Nat
  BY CagraStorageAssumption
<1> QED
  BY <1>1, <1>2, <1>3, <1>4, <1>5, <1>6

\* A row of a sequence is replaced.
LEMMA ReplaceRow ==
  ASSUME NEW r \in Rows, NEW s \in 1 .. Len(r), NEW v \in Vec
  PROVE  /\ [r EXCEPT ![s] = v] \in Rows /\ Len([r EXCEPT ![s] = v]) = Len(r)
         /\ [r EXCEPT ![s] = v] # <<>>
         /\ \A i \in 1 .. Len(r) : [r EXCEPT ![s] = v][i] = IF i = s THEN v ELSE r[i]
<1>1. r \in Seq(Vec) /\ Len(r) <= MaxRows /\ Len(r) \in Nat
  BY RowsAreSeqs, LenProperties
<1>2. [r EXCEPT ![s] = v] \in Seq(Vec) /\ Len([r EXCEPT ![s] = v]) = Len(r)
  BY <1>1, ExceptSeq
<1>3. \A i \in 1 .. Len(r) : [r EXCEPT ![s] = v][i] = IF i = s THEN v ELSE r[i]
  BY <1>1, ExceptSeq
<1>4. [r EXCEPT ![s] = v] # <<>>
  BY <1>1, <1>2, EmptySeq
<1> QED
  BY <1>1, <1>2, <1>3, <1>4, RowsAreSeqs

\* cagra_write_row within the rows.
LEMMA WrittenHolds ==
  ASSUME NEW d, NEW m, Holds(d, m), NEW s \in 1 .. m, NEW v \in Vec
  PROVE  LET w == Written(d, s, v)
         IN /\ InBounds(d, s)
            /\ Holds(w, m)
            /\ \A u : As(w, u) = As(d, u)
            /\ \A i \in 1 .. m : RowsOf(w)[i] = IF i = s THEN As(d, v) ELSE RowsOf(d)[i]
<1> DEFINE w == Written(d, s, v)
<1>1. d \in Store /\ s \in 1 .. Len(RowsOf(d)) /\ RowsOf(d) \in Rows /\ m \in Nat
      /\ m = Len(RowsOf(d))
  BY HeldRows DEF Holds
<1>2. InBounds(d, s)
  BY <1>1 DEF InBounds, RowsOf
<1>3. CASE d.x # <<>>
  <2> DEFINE r == [d.x EXCEPT ![s] = v]
             e == [d EXCEPT !.x = r]
  <2>1. w = e
    BY <1>3 DEF Written
  <2>2. RowsOf(d) = d.x /\ d.x16 = <<>> /\ ~d.mirrorOk
    BY <1>3 DEF Holds, RowsOf
  <2>3. r \in Rows /\ r # <<>> /\ Len(r) = m
        /\ \A i \in 1 .. m : r[i] = IF i = s THEN v ELSE d.x[i]
    BY <1>1, <2>2, ReplaceRow
  <2> HIDE DEF r
  <2>4. e \in Store /\ e.x = r /\ e.x16 = <<>> /\ ~e.mirrorOk
    BY <1>1, <2>2, <2>3 DEF Store
  <2> HIDE DEF e
  <2>5. Len(<<>>) = 0
    BY EmptySeq
  <2>6. Holds(e, m)
    BY <2>3, <2>4, <2>5 DEF Holds, RowsOf
  <2>7. \A u : As(e, u) = As(d, u)
    BY <1>3, <2>3, <2>4 DEF As
  <2>8. \A i \in 1 .. m : RowsOf(e)[i] = IF i = s THEN As(d, v) ELSE RowsOf(d)[i]
    BY <1>3, <2>2, <2>3, <2>4 DEF As, RowsOf
  <2> QED
    BY <1>2, <2>1, <2>6, <2>7, <2>8
<1>4. CASE d.x = <<>>
  <2> DEFINE q == Half[v]
             r == [d.x16 EXCEPT ![s] = q]
  <2>1. RowsOf(d) = d.x16 /\ d.x16 \in Rows
    BY <1>1, <1>4 DEF RowsOf
  <2>2. q \in Vec /\ Half[q] = q
    BY HalfFacts
  <2>3. r \in Rows /\ r # <<>> /\ Len(r) = m
        /\ \A i \in 1 .. m : r[i] = IF i = s THEN q ELSE d.x16[i]
    BY <1>1, <2>1, <2>2, ReplaceRow
  <2>4. \A i \in 1 .. m : Half[r[i]] = r[i]
    BY <1>1, <2>1, <2>2, <2>3 DEF Holds
  <2>5. /\ w \in Store /\ w.x = <<>> /\ w.x16 = r
        /\ w.mirrorOk => w.mirror = r /\ \A i \in 1 .. m : r[i] \in Bytes
    <3>1. CASE ~d.mirrorOk
      <4>1. w = [d EXCEPT !.x16 = r]
        BY <1>4, <3>1 DEF Written
      <4> HIDE DEF r, w
      <4>2. w \in Store /\ w.x = <<>> /\ w.x16 = r /\ ~w.mirrorOk
        BY <1>1, <1>4, <2>3, <3>1, <4>1 DEF Store
      <4> QED
        BY <4>2
    <3>2. CASE d.mirrorOk /\ q \in Bytes
      <4>1. w = [d EXCEPT !.x16 = r, !.mirror = [d.mirror EXCEPT ![s] = q]]
        BY <1>1, <1>4, <3>2 DEF Written, Store
      <4>2. d.mirror = d.x16 /\ \A i \in 1 .. m : d.x16[i] \in Bytes
        BY <1>1, <2>1, <3>2 DEF Holds
      <4>3. w = [d EXCEPT !.x16 = r, !.mirror = r]
        BY <4>1, <4>2
      <4>4. \A i \in 1 .. m : r[i] \in Bytes
        BY <2>3, <3>2, <4>2
      <4> HIDE DEF r, w
      <4>5. w \in Store /\ w.x = <<>> /\ w.x16 = r /\ w.mirror = r
        BY <1>1, <1>4, <2>3, <4>3 DEF Store
      <4> QED
        BY <4>4, <4>5
    <3>3. CASE d.mirrorOk /\ q \notin Bytes
      <4>1. w = [d EXCEPT !.x16 = r, !.mirror = <<>>, !.mirrorOk = FALSE]
        BY <1>4, <3>3, <1>1 DEF Written, Store
      <4> HIDE DEF r, w
      <4>2. w \in Store /\ w.x = <<>> /\ w.x16 = r /\ ~w.mirrorOk
        BY <1>1, <1>4, <2>3, <4>1, EmptyRows DEF Store
      <4> QED
        BY <4>2
    <3> QED
      BY <3>1, <3>2, <3>3
  <2> HIDE DEF w, r
  <2>6. RowsOf(w) = r
    BY <2>5 DEF RowsOf
  <2>7. Holds(w, m)
    BY <2>3, <2>4, <2>5, <2>6 DEF Holds
  <2>8. \A u : As(w, u) = As(d, u)
    BY <1>4, <2>5 DEF As
  <2>9. \A i \in 1 .. m : RowsOf(w)[i] = IF i = s THEN As(d, v) ELSE RowsOf(d)[i]
    BY <1>4, <2>1, <2>3, <2>6 DEF As
  <2> QED
    BY <1>2, <2>7, <2>8, <2>9 DEF w
<1> QED
  BY <1>3, <1>4

\* A row is added to a sequence of them.
LEMMA AddRow ==
  ASSUME NEW r \in Rows, Len(r) < MaxRows, NEW v \in Vec
  PROVE  /\ Append(r, v) \in Rows /\ Len(Append(r, v)) = Len(r) + 1
         /\ Append(r, v) # <<>>
         /\ \A i \in 1 .. Len(r) : Append(r, v)[i] = r[i]
         /\ Append(r, v)[Len(r) + 1] = v
<1>1. r \in Seq(Vec) /\ Len(r) \in Nat /\ MaxRows \in Nat
  BY RowsAreSeqs, LenProperties, CagraStorageAssumption
<1>2. /\ Append(r, v) \in Seq(Vec) /\ Len(Append(r, v)) = Len(r) + 1
      /\ Append(r, v) # <<>>
      /\ \A i \in 1 .. Len(r) : Append(r, v)[i] = r[i]
      /\ Append(r, v)[Len(r) + 1] = v
  BY <1>1, AppendProperties
<1> DEFINE a == Append(r, v)
<1> HIDE DEF a
<1>3. a \in Seq(Vec) /\ Len(a) <= MaxRows
  BY <1>1, <1>2 DEF a
<1>4. a \in Rows
  BY <1>3, RowsAreSeqs
<1> QED
  BY <1>2, <1>4 DEF a

\* A sequence of rows is cut.
LEMMA CutRows ==
  ASSUME NEW r \in Rows, NEW m \in 1 .. Len(r)
  PROVE  /\ SubSeq(r, 1, m) \in Rows /\ Len(SubSeq(r, 1, m)) = m
         /\ SubSeq(r, 1, m) # <<>>
         /\ \A i \in 1 .. m : SubSeq(r, 1, m)[i] = r[i]
<1>1. r \in Seq(Vec) /\ Len(r) \in Nat /\ MaxRows \in Nat /\ Len(r) <= MaxRows
  BY RowsAreSeqs, LenProperties, CagraStorageAssumption
<1>2. /\ SubSeq(r, 1, m) \in Seq(Vec) /\ Len(SubSeq(r, 1, m)) = m
      /\ \A i \in 1 .. m : SubSeq(r, 1, m)[i] = r[i]
  BY <1>1, SMT
<1>3. SubSeq(r, 1, m) # <<>>
  BY <1>2, EmptySeq
<1> DEFINE c == SubSeq(r, 1, m)
<1> HIDE DEF c
<1>4. c \in Seq(Vec) /\ Len(c) <= MaxRows
  BY <1>1, <1>2 DEF c
<1>5. c \in Rows
  BY <1>4, RowsAreSeqs
<1> QED
  BY <1>2, <1>3, <1>5 DEF c

\* The append phase of an insert: the vectors grow, and the new row is written,
\* which the fp32 branch of cagra_append_row has done as it grew.
Appended(d, m, v) == IF d.x16 # <<>> THEN Written(Grown(d, v), m, v) ELSE Grown(d, v)

\* The rows of an fp16 index while it is grown exist up to the new one.
LEMMA GrownInBounds ==
  ASSUME NEW d, NEW m, Holds(d, m), m < MaxRows, NEW v \in Vec, d.x16 # <<>>
  PROVE  InBounds(Grown(d, v), m + 1)
<1> DEFINE q == Half[v]
           r == Append(d.x16, q)
           g == Grown(d, v)
<1>1. d.x = <<>> /\ RowsOf(d) = d.x16 /\ d \in Store
  BY DEF Holds, RowsOf
<1>2. d.x16 \in Rows /\ m = Len(d.x16)
  BY <1>1, HeldRows
<1>3. q \in Vec
  BY HalfFacts
<1>4. Len(r) = m + 1
  BY <1>2, <1>3, AddRow
<1> HIDE DEF q, r
<1>5. g.x = <<>> /\ g.x16 = r
  BY <1>1 DEF Grown, Store, q, r
<1> HIDE DEF g
<1>6. m + 1 <= Len(r)
  BY <1>2, <1>4, HeldRows
<1> QED
  BY <1>5, <1>6 DEF InBounds, g

LEMMA AppendedHolds ==
  ASSUME NEW d, NEW m, Holds(d, m), m < MaxRows, NEW v \in Vec
  PROVE  LET w == Appended(d, m + 1, v)
         IN /\ Holds(w, m + 1)
            /\ \A u : As(w, u) = As(d, u)
            /\ \A i \in 1 .. m : RowsOf(w)[i] = RowsOf(d)[i]
            /\ RowsOf(w)[m + 1] = As(d, v)
<1> DEFINE w == Appended(d, m + 1, v)
<1>1. d \in Store /\ RowsOf(d) \in Rows /\ m = Len(RowsOf(d)) /\ m \in 1 .. MaxRows
  BY HeldRows DEF Holds
<1>2. MaxRows \in Nat
  BY CagraStorageAssumption
<1>3. CASE d.x16 = <<>>
  <2> DEFINE r == Append(d.x, v)
  <2>1. d.x # <<>> /\ RowsOf(d) = d.x /\ ~d.mirrorOk
    BY <1>3 DEF Holds, RowsOf
  <2>2. /\ r \in Rows /\ Len(r) = m + 1 /\ r # <<>>
        /\ \A i \in 1 .. m : r[i] = d.x[i]
        /\ r[m + 1] = v
    BY <1>1, <2>1, AddRow
  <2>3. w = [d EXCEPT !.x = r]
    BY <1>3 DEF Appended, Grown
  <2> HIDE DEF r, w
  <2>4. w \in Store /\ w.x = r /\ w.x16 = <<>> /\ ~w.mirrorOk
    BY <1>1, <1>3, <2>1, <2>2, <2>3 DEF Store
  <2>5. Len(<<>>) = 0
    BY EmptySeq
  <2>6. Holds(w, m + 1)
    BY <2>2, <2>4, <2>5 DEF Holds, RowsOf
  <2>7. (\A u : As(w, u) = As(d, u)) /\ As(d, v) = v
    BY <2>1, <2>2, <2>4 DEF As
  <2>8. RowsOf(w) = r
    BY <2>2, <2>4 DEF RowsOf
  <2> QED
    BY <2>1, <2>2, <2>6, <2>7, <2>8 DEF w
<1>4. CASE d.x16 # <<>>
  <2> DEFINE q == Half[v]
             r == Append(d.x16, q)
             g == Grown(d, v)
  <2>1. d.x = <<>> /\ RowsOf(d) = d.x16
    BY <1>4 DEF Holds, RowsOf
  <2>2. q \in Vec /\ Half[q] = q
    BY HalfFacts
  <2>3. /\ r \in Rows /\ Len(r) = m + 1 /\ r # <<>>
        /\ \A i \in 1 .. m : r[i] = d.x16[i]
        /\ r[m + 1] = q
    BY <1>1, <2>1, <2>2, AddRow
  <2>4. \A i \in 1 .. m + 1 : Half[r[i]] = r[i]
    <3>1. \A i \in 1 .. m : Half[d.x16[i]] = d.x16[i]
      BY <1>1, <2>1 DEF Holds
    <3> QED
      BY <1>1, <2>2, <2>3, <3>1
  <2>5. g = [d EXCEPT !.x16 = r, !.mirror = IF d.mirrorOk THEN r ELSE d.mirror]
    <3>1. d.mirrorOk => d.mirror = d.x16
      BY DEF Holds
    <3> QED
      BY <1>4, <3>1 DEF Grown
  <2> HIDE DEF r
  <2>6. [r EXCEPT ![m + 1] = q] = r
    <3>1. r \in Seq(Vec) /\ m + 1 \in 1 .. Len(r)
      BY <1>1, <2>3, RowsAreSeqs
    <3> DEFINE e == [r EXCEPT ![m + 1] = q]
    <3>2. /\ e \in Seq(Vec) /\ Len(e) = Len(r)
          /\ \A i \in 1 .. Len(r) : e[i] = IF i = m + 1 THEN q ELSE r[i]
      BY <2>2, <3>1, ExceptSeq
    <3>3. \A i \in 1 .. Len(e) : e[i] = r[i]
      BY <2>3, <3>1, <3>2
    <3> HIDE DEF e
    <3>4. e = r
      BY <3>1, <3>2, <3>3, SeqEqual
    <3> QED
      BY <3>4 DEF e
  <2>7. /\ g.x = <<>> /\ g.x16 = r /\ g \in Store
        /\ g.mirror = (IF d.mirrorOk THEN r ELSE d.mirror)
        /\ g.mirrorOk <=> d.mirrorOk
    BY <1>1, <2>1, <2>3, <2>5 DEF Store
  <2>8. w = Written(g, m + 1, v)
    BY <1>4 DEF Appended
  <2> HIDE DEF g
  <2>9. /\ w \in Store /\ w.x = <<>> /\ w.x16 = r
        /\ w.mirrorOk => w.mirror = r /\ \A i \in 1 .. m + 1 : r[i] \in Bytes
    <3>1. CASE ~g.mirrorOk
      <4>1. w = [g EXCEPT !.x16 = r]
        BY <2>6, <2>7, <2>8, <3>1 DEF Written
      <4> HIDE DEF w
      <4>2. w \in Store /\ w.x = <<>> /\ w.x16 = r /\ ~w.mirrorOk
        BY <2>3, <2>7, <3>1, <4>1 DEF Store
      <4> QED
        BY <4>2
    <3>2. CASE g.mirrorOk /\ q \in Bytes
      <4>0. d.mirrorOk /\ g.mirror = r /\ [g.mirror EXCEPT ![m + 1] = q] = r
        BY <2>6, <2>7, <3>2
      <4>1. w = [g EXCEPT !.x16 = r, !.mirror = r]
        BY <2>6, <2>7, <2>8, <3>2, <4>0 DEF Written, Store
      <4>2. \A i \in 1 .. m : d.x16[i] \in Bytes
        BY <1>1, <2>1, <4>0 DEF Holds
      <4>3. \A i \in 1 .. m + 1 : r[i] \in Bytes
        BY <1>1, <2>3, <3>2, <4>2
      <4> HIDE DEF w
      <4>4. w \in Store /\ w.x = <<>> /\ w.x16 = r /\ w.mirror = r
        BY <2>3, <2>7, <4>1 DEF Store
      <4> QED
        BY <4>3, <4>4
    <3>3. CASE g.mirrorOk /\ q \notin Bytes
      <4>1. w = [g EXCEPT !.x16 = r, !.mirror = <<>>, !.mirrorOk = FALSE]
        BY <2>6, <2>7, <2>8, <3>3 DEF Written, Store
      <4> HIDE DEF w
      <4>2. w \in Store /\ w.x = <<>> /\ w.x16 = r /\ ~w.mirrorOk
        BY <2>3, <2>7, <4>1, EmptyRows DEF Store
      <4> QED
        BY <4>2
    <3> QED
      BY <3>1, <3>2, <3>3
  <2> HIDE DEF w, q
  <2>10. RowsOf(w) = r
    BY <2>9 DEF RowsOf
  <2>11. Holds(w, m + 1)
    BY <2>3, <2>4, <2>9, <2>10 DEF Holds
  <2>12. (\A u : As(w, u) = As(d, u)) /\ As(d, v) = q
    BY <2>1, <2>9 DEF As, q
  <2> QED
    BY <2>1, <2>3, <2>10, <2>11, <2>12 DEF w
<1> QED
  BY <1>3, <1>4

\* The tail of a failed insert.
LEMMA TruncatedHolds ==
  ASSUME NEW d, NEW m, Holds(d, m), NEW k \in 1 .. m
  PROVE  LET w == Truncated(d, k)
         IN /\ Holds(w, k)
            /\ \A u : As(w, u) = As(d, u)
            /\ \A i \in 1 .. k : RowsOf(w)[i] = RowsOf(d)[i]
<1> DEFINE w == Truncated(d, k)
           r == SubSeq(RowsOf(d), 1, k)
<1>1. d \in Store /\ RowsOf(d) \in Rows /\ m = Len(RowsOf(d)) /\ m \in 1 .. MaxRows
  BY HeldRows DEF Holds
<1>2. r \in Rows /\ Len(r) = k /\ r # <<>> /\ \A i \in 1 .. k : r[i] = RowsOf(d)[i]
  BY <1>1, CutRows
<1>3. CASE d.x16 = <<>>
  <2>1. d.x # <<>> /\ RowsOf(d) = d.x /\ ~d.mirrorOk
    BY <1>3 DEF Holds, RowsOf
  <2>2. w = [d EXCEPT !.x = r]
    BY <1>3, <2>1 DEF Truncated
  <2> HIDE DEF r, w
  <2>3. w \in Store /\ w.x = r /\ w.x16 = <<>> /\ ~w.mirrorOk
    BY <1>1, <1>2, <1>3, <2>1, <2>2 DEF Store
  <2>4. Len(<<>>) = 0
    BY EmptySeq
  <2>5. Holds(w, k) /\ RowsOf(w) = r
    BY <1>2, <2>3, <2>4 DEF Holds, RowsOf
  <2>6. \A u : As(w, u) = As(d, u)
    BY <1>2, <2>1, <2>3 DEF As
  <2> QED
    BY <1>2, <2>5, <2>6 DEF w
<1>4. CASE d.x16 # <<>>
  <2>1. d.x = <<>> /\ RowsOf(d) = d.x16
    BY <1>4 DEF Holds, RowsOf
  <2>2. /\ \A i \in 1 .. m : Half[d.x16[i]] = d.x16[i]
        /\ d.mirrorOk => d.mirror = d.x16 /\ \A i \in 1 .. m : d.x16[i] \in Bytes
    BY <1>1, <2>1 DEF Holds
  <2>3. w = [d EXCEPT !.x16 = r, !.mirror = IF d.mirrorOk THEN r ELSE d.mirror]
    BY <1>4, <2>1, <2>2 DEF Truncated
  <2> HIDE DEF r, w
  <2>4. /\ w \in Store /\ w.x = <<>> /\ w.x16 = r
        /\ w.mirror = (IF d.mirrorOk THEN r ELSE d.mirror)
        /\ w.mirrorOk <=> d.mirrorOk
    BY <1>1, <1>2, <2>1, <2>3 DEF Store
  <2>5. RowsOf(w) = r
    BY <2>4 DEF RowsOf
  <2>6. \A i \in 1 .. k : Half[r[i]] = r[i]
    BY <1>1, <1>2, <2>1, <2>2
  <2>7. w.mirrorOk => w.mirror = r /\ \A i \in 1 .. k : r[i] \in Bytes
    <3>1. SUFFICES ASSUME w.mirrorOk
                   PROVE  w.mirror = r /\ \A i \in 1 .. k : r[i] \in Bytes
      OBVIOUS
    <3>2. d.mirrorOk
      BY <2>4, <3>1
    <3>3. w.mirror = r
      BY <2>4, <3>2
    <3>4. \A i \in 1 .. m : d.x16[i] \in Bytes
      BY <2>2, <3>2
    <3>5. \A i \in 1 .. k : r[i] \in Bytes
      BY <1>1, <1>2, <2>1, <3>4
    <3> QED
      BY <3>3, <3>5
  <2>8. Holds(w, k)
    BY <1>2, <2>4, <2>5, <2>6, <2>7 DEF Holds
  <2>9. \A u : As(w, u) = As(d, u)
    BY <2>1, <2>4 DEF As
  <2> QED
    BY <1>2, <2>5, <2>8, <2>9 DEF w
<1> QED
  BY <1>3, <1>4

-----------------------------------------------------------------------------
(* The shape of the index is kept.                                         *)

\* What the cases need of a state that has the shape.
LEMMA ShapeFacts ==
  ASSUME ShapeInv
  PROVE  /\ Stored = RowsOf(ds)
         /\ Present <=> hasDataset
         /\ hasDataset => /\ Holds(ds, n)
                          /\ RowsOf(ds) \in Rows /\ Len(RowsOf(ds)) = n
                          /\ \A i \in 1 .. n : Stored[i] \in Vec
         /\ n \in 1 .. MaxRows /\ MaxRows \in Nat
<1>1. Stored = RowsOf(ds)
  BY DEF Stored, RowsOf
<1>2. VectorsInv /\ n \in 1 .. MaxRows
  BY DEF ShapeInv, TypeOK, IndexOK
<1>3. Present <=> hasDataset
  BY <1>2 DEF VectorsInv, Present, Holds
<1>4. ASSUME hasDataset
      PROVE  /\ Holds(ds, n)
             /\ RowsOf(ds) \in Rows /\ Len(RowsOf(ds)) = n
             /\ \A i \in 1 .. n : Stored[i] \in Vec
  <2>1. Holds(ds, n)
    BY <1>2, <1>4 DEF VectorsInv
  <2> QED
    BY <1>1, <2>1, HeldRows
<1>5. MaxRows \in Nat
  BY CagraStorageAssumption
<1> QED
  BY <1>1, <1>2, <1>3, <1>4, <1>5

\* The rows of the chunk.
LEMMA ChunkFacts ==
  ASSUME ShapeInv
  PROVE  /\ chunk \in Seq(Entry) /\ Len(chunk) \in Nat /\ DOMAIN chunk = 1 .. Len(chunk)
         /\ undone \in 0 .. Len(chunk) /\ base \in Nat /\ size \in Nat
         /\ \A k \in 1 .. Len(chunk) :
              /\ chunk[k].kind \in {"update", "claim", "append"}
              /\ chunk[k].slot \in 1 .. n /\ chunk[k].vec \in Vec /\ chunk[k].prev \in Vec
<1>1. chunk \in Seq(Entry) /\ undone \in 0 .. Len(chunk) /\ base \in Nat /\ size \in Nat
  BY DEF ShapeInv, TypeOK, MutationOK
<1>2. Len(chunk) \in Nat /\ DOMAIN chunk = 1 .. Len(chunk)
  BY <1>1, LenProperties
<1>3. \A k \in 1 .. Len(chunk) : chunk[k] \in Entry
  BY <1>1, ElementOfSeq
<1>4. \A k \in 1 .. Len(chunk) :
        /\ chunk[k].kind \in {"update", "claim", "append"}
        /\ chunk[k].slot \in 1 .. n /\ chunk[k].vec \in Vec /\ chunk[k].prev \in Vec
  BY <1>3 DEF Entry
<1> QED
  BY <1>1, <1>2, <1>4

\* What a caller asks for is a sequence.
LEMMA RequestFacts ==
  ASSUME NEW S, NEW q \in Requests(S)
  PROVE  q \in Seq(S) /\ DOMAIN q = 1 .. Len(q) /\ Len(q) \in Nat
<1>1. PICK k \in 1 .. Batch : q \in [1 .. k -> S]
  BY Zenon DEF Requests
<1>2. k \in Nat
  BY <1>1, CagraStorageAssumption
<1>3. q \in Seq(S)
  BY <1>1, <1>2, SMT
<1> QED
  BY <1>3, LenProperties

\* Nothing is under way between mutations.
LEMMA RestFacts ==
  ASSUME ShapeInv, writer = NoOne
  PROVE  /\ call.op = "none" /\ phase = "idle" /\ base = 0 /\ done = {}
         /\ chunk = <<>> /\ Len(chunk) = 0 /\ undone = 0 /\ originalN = 0
<1>1. /\ call.op = "none" /\ phase = "idle" /\ base = 0 /\ done = {}
      /\ chunk = <<>> /\ undone = 0 /\ originalN = 0
  BY DEF ShapeInv, CallInv
<1> QED
  BY <1>1, EmptySeq

\* A step after which nothing is.
LEMMA AtRest ==
  ASSUME writer' = NoOne, call'.op = "none", phase' = "idle", originalN' = 0, size' \in Nat,
         base' = 0, done' = {}, chunk' = <<>>, undone' = 0, n' \in Nat
  PROVE  MutationOK' /\ CallInv'
<1>1. chunk' \in Seq(Entry') /\ Len(chunk') = 0
  BY EmptySeq
<1>2. MutationOK'
  BY <1>1 DEF MutationOK
<1> QED
  BY <1>2 DEF CallInv

LEMMA ReturnRests ==
  ASSUME Return, n' \in Nat
  PROVE  MutationOK' /\ CallInv'
<1>1. call'.op = "none" /\ size' \in Nat
  BY DEF Return, Idle
<1> QED
  BY <1>1, AtRest DEF Return

\* Between mutations, a step that starts none.
LEMMA StaysAtRest ==
  ASSUME ShapeInv, writer = NoOne, UNCHANGED mutation, n' \in Nat
  PROVE  MutationOK' /\ CallInv'
<1>1. /\ call.op = "none" /\ phase = "idle" /\ base = 0 /\ done = {}
      /\ chunk = <<>> /\ undone = 0 /\ originalN = 0 /\ size \in Nat
  BY RestFacts, ChunkFacts
<1> QED
  BY <1>1, AtRest DEF mutation

\* A step of somebody else leaves a mutation as it is.
LEMMA MutationFrame ==
  ASSUME MutationOK, CallInv, UNCHANGED <<n, hasDataset, dead, mutation>>
  PROVE  MutationOK' /\ CallInv'
BY DEF MutationOK, CallInv, HolderInv, Arguments, Entry, mutation

LEMMA IndexFrame ==
  ASSUME ShapeInv, UNCHANGED <<ds, n, hasDataset, codes, dead, stray>>
  PROVE  IndexOK' /\ VectorsInv' /\ NoStrayAccess' /\ stray' \in BOOLEAN
BY DEF ShapeInv, TypeOK, IndexOK, VectorsInv, NoStrayAccess, Holds

LEMMA PendingFrame ==
  ASSUME ShapeInv, UNCHANGED <<pending, hasDataset>>, n' \in Nat, n <= n'
  PROVE  /\ PendingInv'
         /\ \A u \in Threads :
              pending'[u].op \in {"none", "update", "insert", "quantize", "calibrate"}
<1>1. n \in Nat
  BY ShapeFacts
<1>2. \A u \in Threads :
        pending[u].op \in {"none", "update", "insert", "quantize", "calibrate"}
  BY DEF ShapeInv, TypeOK
<1>3. ASSUME NEW u \in Threads PROVE FindsItsTest(pending[u])'
  <2>1. FindsItsTest(pending[u])
    BY DEF ShapeInv, PendingInv
  <2> QED
    BY <1>1, <2>1 DEF FindsItsTest, Arguments
<1>4. pending' = [u \in Threads |-> pending'[u]]
  BY DEF ShapeInv, PendingInv
<1> QED
  BY <1>2, <1>3, <1>4 DEF PendingInv

LEMMA FileStays ==
  ASSUME ShapeInv, file' = file
  PROVE  FileInv'
BY DEF ShapeInv, FileInv

\* A step of a mutation that changes nothing but how far the call is.
LEMMA CallMoves ==
  ASSUME ShapeInv, MutationOK', CallInv', IndexOK', VectorsInv', stray' = stray,
         UNCHANGED <<hasDataset, pending, file, calls>>, n <= n'
  PROVE  ShapeInv'
<1>1. n' \in Nat
  BY CagraStorageAssumption DEF IndexOK
<1>2. /\ PendingInv'
      /\ \A u \in Threads :
           pending'[u].op \in {"none", "update", "insert", "quantize", "calibrate"}
  BY <1>1, PendingFrame
<1>3. stray' \in BOOLEAN /\ NoStrayAccess' /\ calls' \in 0 .. MaxCalls
  BY DEF ShapeInv, TypeOK, NoStrayAccess
<1>4. FileInv'
  BY FileStays
<1>5. TypeOK'
  BY <1>2, <1>3 DEF TypeOK
<1> QED
  BY <1>2, <1>3, <1>4, <1>5 DEF ShapeInv

LEMMA ShapeInit ==
  ASSUME Init
  PROVE  ShapeInv
<1>1. PICK rows \in [1 .. InitRows -> Vec], storage \in Storages :
        /\ ds = Built(rows, storage)
        /\ n = InitRows /\ hasDataset = TRUE /\ codes = <<>> /\ dead = {}
        /\ writer = NoOne /\ call = Idle /\ phase = "idle" /\ originalN = 0
        /\ size = 0 /\ base = 0 /\ done = {} /\ chunk = <<>> /\ undone = 0
        /\ pending = [t \in Threads |-> Idle] /\ file = NoFile
        /\ calls = 0 /\ stray = FALSE
  BY Zenon DEF Init
<1>2. InitRows \in Nat /\ InitRows >= 1 /\ InitRows <= MaxRows /\ MaxRows \in Nat
      /\ MaxCalls \in Nat
  BY CagraStorageAssumption
<1>3. rows \in Seq(Vec) /\ Len(rows) = InitRows
  BY <1>2, SMT
<1>4. rows \in Rows /\ rows # <<>>
  <2>1. rows \in Rows
    BY <1>2, <1>3, RowsAreSeqs
  <2>2. Len(<<>>) = 0
    BY EmptySeq
  <2>3. rows # <<>>
    BY <1>2, <1>3, <2>2
  <2> QED
    BY <2>1, <2>3
<1>5. Holds(ds, n)
  BY <1>1, <1>3, <1>4, BuiltHolds
<1>6. ds \in Store
  BY <1>5 DEF Holds
<1>7. \A t \in Threads : pending[t] = Idle
  BY <1>1
<1>8. TypeOK
  <2>0. hasDataset \in BOOLEAN /\ stray \in BOOLEAN
    BY <1>1, Zenon
  <2>1. n \in 1 .. MaxRows /\ calls \in 0 .. MaxCalls
    BY <1>1, <1>2
  <2>2. codes \in Rows
    BY <1>1, EmptyRows
  <2>3. call.op = "none" /\ \A t \in Threads : pending[t].op = "none"
    BY <1>1, <1>7 DEF Idle
  <2>4. chunk \in Seq(Entry) /\ Len(chunk) = 0
    BY <1>1, EmptySeq
  <2>5. MutationOK
    BY <1>1, <2>1, <2>3, <2>4 DEF MutationOK
  <2>6. IndexOK
    BY <1>1, <1>6, <2>0, <2>1, <2>2 DEF IndexOK, Store
  <2> QED
    BY <2>0, <2>1, <2>3, <2>5, <2>6 DEF TypeOK
<1>9. VectorsInv /\ NoStrayAccess
  BY <1>1, <1>5 DEF VectorsInv, NoStrayAccess
<1>10. PendingInv
  BY <1>1, <1>7 DEF PendingInv, FindsItsTest, Idle
<1>11. CallInv /\ FileInv
  BY <1>1 DEF CallInv, FileInv, Idle, NoFile
<1> QED
  BY <1>8, <1>9, <1>10, <1>11 DEF ShapeInv

\* A call passes its test.
LEMMA EnterShape ==
  ASSUME ShapeInv, NEW t \in Threads, NEW c, Enter(t, c),
         c.op \in {"update", "insert", "quantize", "calibrate"},
         c.op \in {"update", "insert"} => Arguments(c),
         c.op = "update" => DOMAIN c.slots = 1 .. Len(c.vecs),
         c.op = "calibrate" => c.rows \in 1 .. n
  PROVE  ShapeInv'
<1>1. /\ pending' = [pending EXCEPT ![t] = c] /\ calls' = calls + 1 /\ calls < MaxCalls
      /\ Present
      /\ UNCHANGED <<ds, n, hasDataset, codes, dead, mutation, file, stray>>
  BY DEF Enter, MayEnter, index
<1>2. hasDataset
  BY <1>1, ShapeFacts
<1>3. /\ pending' = [u \in Threads |-> pending'[u]]
      /\ \A u \in Threads : pending'[u] = IF u = t THEN c ELSE pending[u]
  <2>1. pending = [u \in Threads |-> pending[u]]
    BY DEF ShapeInv, PendingInv
  <2> QED
    BY <1>1, <2>1, Zenon
<1>4. PendingInv'
  <2>1. SUFFICES ASSUME NEW u \in Threads PROVE FindsItsTest(pending[u])'
    BY <1>3 DEF PendingInv
  <2>2. CASE u = t
    BY <1>1, <1>2, <1>3, <2>2 DEF FindsItsTest, Arguments
  <2>3. CASE u # t
    <3>1. FindsItsTest(pending[u]) /\ pending'[u] = pending[u]
      BY <1>3, <2>3 DEF ShapeInv, PendingInv
    <3> QED
      BY <1>1, <3>1 DEF FindsItsTest, Arguments
  <2> QED
    BY <2>2, <2>3
<1>5. IndexOK' /\ VectorsInv' /\ NoStrayAccess' /\ stray' \in BOOLEAN
  BY <1>1, IndexFrame
<1>6. MutationOK' /\ CallInv'
  BY <1>1, MutationFrame DEF ShapeInv, TypeOK
<1>7. calls' \in 0 .. MaxCalls
      /\ \A u \in Threads :
           pending'[u].op \in {"none", "update", "insert", "quantize", "calibrate"}
  BY <1>1, <1>3, CagraStorageAssumption DEF ShapeInv, TypeOK
<1> QED
  BY <1>1, <1>4, <1>5, <1>6, <1>7, FileStays DEF ShapeInv, TypeOK

\* `writer` is taken, by a call that finds what it tested for.
LEMMA LockFacts ==
  ASSUME ShapeInv, NEW t \in Threads, NEW op, op # "none", Lock(t, op)
  PROVE  /\ writer = NoOne /\ hasDataset /\ FindsItsTest(pending[t]) /\ pending[t].op = op
         /\ \A u \in Threads :
              pending'[u].op \in {"none", "update", "insert", "quantize", "calibrate"}
         /\ UNCHANGED <<n, hasDataset>> => PendingInv'
<1>1. /\ writer = NoOne /\ pending[t].op = op
      /\ pending' = [pending EXCEPT ![t] = Idle]
  BY DEF Lock
<1>2. /\ pending = [u \in Threads |-> pending[u]]
      /\ \A u \in Threads : FindsItsTest(pending[u])
  BY DEF ShapeInv, PendingInv
<1>3. /\ pending' = [u \in Threads |-> pending'[u]]
      /\ \A u \in Threads : pending'[u] = IF u = t THEN Idle ELSE pending[u]
  BY <1>1, <1>2, Zenon
<1>4. hasDataset
  BY <1>1, <1>2 DEF FindsItsTest
<1>5. ASSUME UNCHANGED <<n, hasDataset>> PROVE PendingInv'
  <2>1. SUFFICES ASSUME NEW u \in Threads PROVE FindsItsTest(pending[u])'
    BY <1>3 DEF PendingInv
  <2>2. CASE u = t
    BY <1>3, <2>2 DEF FindsItsTest, Idle
  <2>3. CASE u # t
    <3>1. FindsItsTest(pending[u]) /\ pending'[u] = pending[u]
      BY <1>2, <1>3, <2>3
    <3> QED
      BY <1>5, <3>1 DEF FindsItsTest, Arguments
  <2> QED
    BY <2>2, <2>3
<1>6. \A u \in Threads :
        pending'[u].op \in {"none", "update", "insert", "quantize", "calibrate"}
  BY <1>3 DEF ShapeInv, TypeOK, Idle
<1> QED
  BY <1>1, <1>2, <1>4, <1>5, <1>6

\* An update or an insert takes `writer`.
LEMMA BeginFacts ==
  ASSUME ShapeInv, NEW t \in Threads, Begin(t)
  PROVE  LET c == pending[t]
         IN /\ c.op \in {"update", "insert"} /\ Lock(t, c.op) /\ Accepted(c) /\ Arguments(c)
            /\ c.op = "update" => DOMAIN c.slots = 1 .. Len(c.vecs)
            /\ writer = NoOne /\ hasDataset
            /\ writer' = t /\ call' = c /\ phase' = "write" /\ originalN' = n /\ size' \in Nat
            /\ UNCHANGED <<ds, n, hasDataset, codes, dead, base, done, chunk, undone, file,
                           want, unencoded, calls, stray>>
            /\ PendingInv'
            /\ \A u \in Threads :
                 pending'[u].op \in {"none", "update", "insert", "quantize", "calibrate"}
<1> DEFINE c == pending[t]
<1>1. PICK op \in {"update", "insert"} : Lock(t, op)
  BY DEF Begin
<1>2. /\ Accepted(c) /\ writer' = t /\ call' = c /\ phase' = "write" /\ originalN' = n
      /\ size' \in Chunks
      /\ UNCHANGED <<ds, n, hasDataset, codes, dead, base, done, chunk, undone, file,
                     want, unencoded, calls, stray>>
  BY DEF Begin, index
<1>3. size' \in Nat
  BY <1>2, CagraStorageAssumption
<1>4. op # "none"
  OBVIOUS
<1>5. /\ writer = NoOne /\ hasDataset /\ FindsItsTest(c) /\ c.op = op
      /\ \A u \in Threads :
           pending'[u].op \in {"none", "update", "insert", "quantize", "calibrate"}
      /\ PendingInv'
  BY <1>1, <1>2, <1>4, LockFacts
<1>6. Arguments(c) /\ (c.op = "update" => DOMAIN c.slots = 1 .. Len(c.vecs))
  BY <1>4, <1>5 DEF FindsItsTest
<1> QED
  BY <1>1, <1>2, <1>3, <1>5, <1>6

LEMMA BeginShape ==
  ASSUME ShapeInv, NEW t \in Threads, Begin(t)
  PROVE  ShapeInv'
<1> DEFINE c == pending[t]
<1>1. /\ c.op \in {"update", "insert"} /\ Accepted(c) /\ Arguments(c)
      /\ c.op = "update" => DOMAIN c.slots = 1 .. Len(c.vecs)
      /\ writer = NoOne /\ hasDataset
      /\ writer' = t /\ call' = c /\ phase' = "write" /\ originalN' = n /\ size' \in Nat
      /\ UNCHANGED <<ds, n, hasDataset, codes, dead, base, done, chunk, undone, file,
                     calls, stray>>
      /\ PendingInv'
      /\ \A u \in Threads :
           pending'[u].op \in {"none", "update", "insert", "quantize", "calibrate"}
  BY BeginFacts
<1>2. chunk = <<>> /\ Len(chunk) = 0 /\ undone = 0 /\ base = 0 /\ done = {}
  BY <1>1, RestFacts
<1>3. n \in 1 .. MaxRows /\ MaxRows \in Nat /\ dead \subseteq 1 .. n
  BY ShapeFacts DEF ShapeInv, TypeOK, IndexOK
<1> HIDE DEF c
<1>4. Len(c.vecs) \in Nat
  BY <1>1, LenProperties DEF Arguments
<1>5. MutationOK'
  <2>1. chunk' \in Seq(Entry')
    BY <1>1, <1>2, EmptySeq
  <2> QED
    BY <1>1, <1>2, <1>3, <2>1 DEF MutationOK
<1>6. HolderInv'
  <2>1. call'.op = "update" => \A i \in 1 .. Len(call'.vecs) : call'.slots[i] \in 1 .. n
    BY <1>1 DEF Accepted, Resolves
  <2>2. call'.op = "insert" => n + (Len(call'.vecs) - base - Len(chunk)) <= MaxRows
    BY <1>1, <1>2, <1>3, <1>4 DEF Accepted
  <2>3. base + Len(chunk) <= Len(call'.vecs)
    BY <1>1, <1>2, <1>4
  <2>4. Arguments(call)'
    BY <1>1 DEF Arguments
  <2> QED
    BY <1>1, <1>2, <1>3, <2>1, <2>2, <2>3, <2>4 DEF HolderInv
<1>7. CallInv'
  BY <1>1, <1>6, CagraStorageAssumption DEF CallInv
<1>8. IndexOK' /\ VectorsInv' /\ NoStrayAccess' /\ stray' \in BOOLEAN
  BY <1>1, IndexFrame
<1>9. FileInv' /\ calls' \in 0 .. MaxCalls
  BY <1>1, FileStays DEF ShapeInv, TypeOK
<1> QED
  BY <1>1, <1>5, <1>7, <1>8, <1>9 DEF ShapeInv, TypeOK

LEMMA RejectShape ==
  ASSUME ShapeInv, NEW t \in Threads, Reject(t)
  PROVE  ShapeInv'
<1>1. PICK op \in {"update", "insert"} : Lock(t, op)
  BY DEF Reject
<1>2. UNCHANGED <<ds, n, hasDataset, codes, dead, mutation, file, calls, stray>>
  BY DEF Reject, index
<1>3. /\ \A u \in Threads :
           pending'[u].op \in {"none", "update", "insert", "quantize", "calibrate"}
      /\ PendingInv'
  BY <1>1, <1>2, LockFacts
<1>4. IndexOK' /\ VectorsInv' /\ NoStrayAccess' /\ stray' \in BOOLEAN
  BY <1>2, IndexFrame
<1>5. MutationOK' /\ CallInv'
  BY <1>2, MutationFrame DEF ShapeInv, TypeOK
<1>6. FileInv' /\ calls' \in 0 .. MaxCalls
  BY <1>2, FileStays DEF ShapeInv, TypeOK
<1> QED
  BY <1>3, <1>4, <1>5, <1>6 DEF ShapeInv, TypeOK

\* A row of the index is written: cagra_write_row stays within the rows.
LEMMA WriteFacts ==
  ASSUME ShapeInv, hasDataset, NEW s \in 1 .. n, NEW v \in Vec, Write(ds, s, v)
  PROVE  /\ ds' = Written(ds, s, v) /\ stray' = stray
         /\ Holds(ds', n) /\ ds' \in Store
         /\ Before(s, v) = Stored[s]
         /\ \A u : As(ds', u) = As(ds, u)
         /\ \A i \in 1 .. n : Stored'[i] = IF i = s THEN As(ds, v) ELSE Stored[i]
<1>1. Holds(ds, n) /\ Stored = RowsOf(ds)
  BY ShapeFacts
<1>2. /\ InBounds(ds, s)
      /\ Holds(Written(ds, s, v), n)
      /\ \A u : As(Written(ds, s, v), u) = As(ds, u)
      /\ \A i \in 1 .. n : RowsOf(Written(ds, s, v))[i] =
                             IF i = s THEN As(ds, v) ELSE RowsOf(ds)[i]
  BY <1>1, WrittenHolds
<1>3. ds' = Written(ds, s, v) /\ stray' = stray
  BY <1>2 DEF Write
<1>4. Before(s, v) = Stored[s]
  BY <1>2 DEF Before
<1>5. Stored' = RowsOf(ds')
  BY DEF Stored, RowsOf
<1>6. Holds(ds', n) /\ ds' \in Store
  BY <1>2, <1>3 DEF Holds
<1> QED
  BY <1>1, <1>2, <1>3, <1>4, <1>5, <1>6

\* The call that holds `writer`.
LEMMA HolderFacts ==
  ASSUME ShapeInv, NEW t \in Threads, writer = t
  PROVE  /\ writer # NoOne /\ hasDataset /\ Holds(ds, n) /\ HolderInv
         /\ call.vecs \in Seq(Vec) /\ Len(call.vecs) \in Nat
         /\ \A i \in 1 .. Len(call.vecs) : call.vecs[i] \in Vec
         /\ dead \subseteq 1 .. n /\ originalN \in 1 .. n
<1>1. writer # NoOne
  BY CagraStorageAssumption
<1>2. HolderInv
  BY <1>1 DEF ShapeInv, CallInv
<1>3. call.vecs \in Seq(Vec)
  BY <1>2 DEF HolderInv, Arguments
<1>4. Len(call.vecs) \in Nat /\ \A i \in 1 .. Len(call.vecs) : call.vecs[i] \in Vec
  BY <1>3, LenProperties, ElementOfSeq
<1>5. hasDataset /\ originalN \in 1 .. n
  BY <1>2 DEF HolderInv
<1>6. dead \subseteq 1 .. n
  BY DEF ShapeInv, TypeOK, IndexOK
<1> QED
  BY <1>1, <1>2, <1>3, <1>4, <1>5, <1>6, ShapeFacts

\* The row that is next has a vector.
LEMMA NextRowFacts ==
  ASSUME ShapeInv, NEW t \in Threads, writer = t, ~ChunkFull
  PROVE  /\ NextRow = base + Len(chunk) + 1 /\ NextRow \in 1 .. Len(call.vecs)
         /\ call.vecs[NextRow] \in Vec
         /\ call.op = "update" => call.slots[NextRow] \in 1 .. n
         /\ call.op = "insert" => n + 1 <= MaxRows
<1>1. /\ HolderInv /\ Len(call.vecs) \in Nat
      /\ \A i \in 1 .. Len(call.vecs) : call.vecs[i] \in Vec
  BY HolderFacts
<1>2. base \in Nat /\ Len(chunk) \in Nat /\ n \in 1 .. MaxRows /\ MaxRows \in Nat
  BY ChunkFacts, ShapeFacts
<1>3. NextRow \in 1 .. Len(call.vecs)
  BY <1>1, <1>2 DEF ChunkFull, NextRow
<1>4. call.op = "insert" => n + 1 <= MaxRows
  BY <1>1, <1>2, <1>3 DEF HolderInv, NextRow
<1> QED
  BY <1>1, <1>3, <1>4 DEF HolderInv, NextRow

\* A row is noted.
LEMMA NotedFacts ==
  ASSUME ShapeInv, n' \in Nat, n <= n', NEW kind \in {"update", "claim", "append"},
         NEW s \in 1 .. n', NEW v \in Vec, NEW was \in Vec, Noted(kind, s, v, was)
  PROVE  /\ chunk' \in Seq(Entry') /\ Len(chunk') = Len(chunk) + 1
         /\ \A k \in 1 .. Len(chunk) : chunk'[k] = chunk[k]
         /\ LET e == chunk'[Len(chunk) + 1]
            IN e.kind = kind /\ e.slot = s /\ e.vec = v /\ e.prev = was
<1> DEFINE e == [kind |-> kind, slot |-> s, vec |-> v, prev |-> was]
<1>1. e \in Entry' /\ e.kind = kind /\ e.slot = s /\ e.vec = v /\ e.prev = was
  BY DEF Entry
<1>2. chunk' = Append(chunk, e)
  BY DEF Noted
<1> HIDE DEF e
<1>3. chunk \in Seq(Entry) /\ Len(chunk) \in Nat /\ n \in Nat
  BY ChunkFacts, ShapeFacts
<1>4. \A k \in 1 .. Len(chunk) : chunk[k] \in Entry'
  <2>1. SUFFICES ASSUME NEW k \in 1 .. Len(chunk) PROVE chunk[k] \in Entry'
    OBVIOUS
  <2>2. chunk[k] \in Entry
    BY <1>3, ElementOfSeq
  <2>3. 1 .. n \subseteq 1 .. n'
    BY <1>3
  <2> QED
    BY <2>2, <2>3 DEF Entry
<1>5. chunk \in Seq(Entry')
  <2> DEFINE E == Entry'
  <2> HIDE DEF E
  <2>1. \A k \in 1 .. Len(chunk) : chunk[k] \in E
    BY <1>4 DEF E
  <2>2. chunk \in [1 .. Len(chunk) -> E]
    BY <1>3, <2>1, LenProperties
  <2>3. chunk \in Seq(E)
    BY <1>3, <2>2, SMT
  <2> QED
    BY <2>3 DEF E
<1>6. /\ Append(chunk, e) \in Seq(Entry') /\ Len(Append(chunk, e)) = Len(chunk) + 1
      /\ \A k \in 1 .. Len(chunk) : Append(chunk, e)[k] = chunk[k]
      /\ Append(chunk, e)[Len(chunk) + 1] = e
  BY <1>1, <1>5, AppendProperties
<1> QED
  BY <1>1, <1>2, <1>6

\* A row is written and noted.
LEMMA NotedShape ==
  ASSUME ShapeInv, NEW t \in Threads, writer = t, phase = "write", ~ChunkFull,
         NEW kind \in {"update", "claim", "append"}, NEW s \in 1 .. n', NEW v \in Vec,
         NEW was \in Vec, Noted(kind, s, v, was),
         n' = n \/ (call.op = "insert" /\ n' = n + 1),
         Holds(ds', n'), ds' \in Store, dead' \subseteq dead, stray' = stray,
         kind = "claim" => s \in 1 .. originalN,
         UNCHANGED <<hasDataset, codes, writer, call, phase, originalN, size, base, done,
                     undone, pending, file, calls>>
  PROVE  ShapeInv'
<1>1. /\ n \in 1 .. MaxRows /\ MaxRows \in Nat
      /\ Len(chunk) \in Nat /\ base \in Nat /\ undone \in 0 .. Len(chunk)
  BY ShapeFacts, ChunkFacts
<1>2. /\ NextRow = base + Len(chunk) + 1 /\ NextRow \in 1 .. Len(call.vecs)
      /\ call.op = "insert" => n + 1 <= MaxRows
  BY NextRowFacts
<1>3. /\ HolderInv /\ Len(call.vecs) \in Nat /\ writer # NoOne /\ hasDataset
      /\ dead \subseteq 1 .. n /\ originalN \in 1 .. n
  BY HolderFacts
<1>4. n' \in 1 .. MaxRows /\ n <= n' /\ n' \in Nat
  BY <1>1, <1>2
<1>5. /\ chunk' \in Seq(Entry') /\ Len(chunk') = Len(chunk) + 1
      /\ \A k \in 1 .. Len(chunk) : chunk'[k] = chunk[k]
      /\ chunk'[Len(chunk) + 1].kind = kind /\ chunk'[Len(chunk) + 1].slot = s
  BY <1>4, NotedFacts
<1>6. dead' \subseteq 1 .. n'
  BY <1>1, <1>3, <1>4
<1>7. IndexOK'
  BY <1>4, <1>6 DEF ShapeInv, TypeOK, IndexOK, Store
<1>8. VectorsInv'
  BY <1>3 DEF VectorsInv
<1>9. MutationOK'
  <2>1. /\ writer \in Threads \cup {NoOne}
        /\ phase \in {"idle", "write", "repair", "undo", "tail", "encode"}
        /\ call.op \in {"none", "update", "insert"}
        /\ originalN \in 0 .. n /\ size \in Nat /\ done \subseteq 1 .. n
    BY DEF ShapeInv, TypeOK, MutationOK
  <2>2. originalN \in 0 .. n' /\ done \subseteq 1 .. n' /\ undone \in 0 .. Len(chunk')
    BY <1>1, <1>4, <1>5, <2>1
  <2> QED
    BY <1>1, <1>5, <2>1, <2>2 DEF MutationOK
<1>10. HolderInv'
  <2>1. base + Len(chunk') <= Len(call.vecs)
    BY <1>1, <1>2, <1>5
  <2>2. call.op = "insert" => n' + (Len(call.vecs) - base - Len(chunk')) <= MaxRows
    BY <1>1, <1>2, <1>3, <1>5 DEF HolderInv
  <2>3. call.op = "update" => \A i \in 1 .. Len(call.vecs) : call.slots[i] \in 1 .. n'
    BY <1>1, <1>3, <1>4 DEF HolderInv
  <2>4. \A k \in 1 .. Len(chunk') : chunk'[k].kind = "claim" => chunk'[k].slot \in 1 .. originalN
    BY <1>1, <1>3, <1>5 DEF HolderInv
  <2>5. undone = 0 /\ dead' \subseteq 1 .. originalN /\ originalN \in 1 .. n'
    BY <1>1, <1>3, <1>4 DEF HolderInv
  <2>6. call.op \in {"update", "insert"} /\ Arguments(call)'
    BY <1>3 DEF HolderInv, Arguments
  <2> QED
    BY <1>3, <2>1, <2>2, <2>3, <2>4, <2>5, <2>6 DEF HolderInv
<1>11. CallInv'
  BY <1>3, <1>10 DEF CallInv
<1> QED
  BY <1>4, <1>7, <1>8, <1>9, <1>11, CallMoves

LEMMA WriteRowFacts ==
  ASSUME ShapeInv, NEW t \in Threads, WriteRow(t)
  PROVE  LET s == call.slots[NextRow]
             v == call.vecs[NextRow]
             was == Stored[s]
         IN /\ writer = t /\ phase = "write" /\ call.op = "update" /\ ~ChunkFull /\ hasDataset
            /\ s \in 1 .. n /\ v \in Vec /\ was \in Vec /\ Noted("update", s, v, was)
            /\ Holds(ds', n) /\ ds' \in Store /\ stray' = stray
            /\ \A u : As(ds', u) = As(ds, u)
            /\ \A i \in 1 .. n : Stored'[i] = IF i = s THEN As(ds, v) ELSE Stored[i]
            /\ UNCHANGED <<n, hasDataset, codes, dead, writer, call, phase, originalN, size,
                           base, done, undone, pending, file, want, unencoded, calls>>
<1> DEFINE s == call.slots[NextRow]
           v == call.vecs[NextRow]
<1>1. /\ writer = t /\ phase = "write" /\ call.op = "update" /\ ~ChunkFull
      /\ Write(ds, s, v) /\ Noted("update", s, v, Before(s, v))
      /\ UNCHANGED <<n, hasDataset, codes, dead, writer, call, phase, originalN, size,
                     base, done, undone, pending, file, want, unencoded, calls>>
  BY DEF WriteRow, Doing
<1>2. hasDataset /\ s \in 1 .. n /\ v \in Vec
  BY <1>1, HolderFacts, NextRowFacts
<1> HIDE DEF s, v
<1>3. /\ Holds(ds', n) /\ ds' \in Store /\ stray' = stray
      /\ Before(s, v) = Stored[s]
      /\ \A u : As(ds', u) = As(ds, u)
      /\ \A i \in 1 .. n : Stored'[i] = IF i = s THEN As(ds, v) ELSE Stored[i]
  BY <1>1, <1>2, WriteFacts
<1>4. Stored[s] \in Vec
  BY <1>2, ShapeFacts
<1> QED
  BY <1>1, <1>2, <1>3, <1>4 DEF s, v

LEMMA WriteRowShape ==
  ASSUME ShapeInv, NEW t \in Threads, WriteRow(t)
  PROVE  ShapeInv'
<1> DEFINE s == call.slots[NextRow]
           v == call.vecs[NextRow]
           was == Stored[s]
<1>1. /\ writer = t /\ phase = "write" /\ ~ChunkFull
      /\ s \in 1 .. n /\ v \in Vec /\ was \in Vec /\ Noted("update", s, v, was)
      /\ Holds(ds', n) /\ ds' \in Store /\ stray' = stray
      /\ UNCHANGED <<n, hasDataset, codes, dead, writer, call, phase, originalN, size,
                     base, done, undone, pending, file, calls>>
  BY WriteRowFacts
<1> HIDE DEF s, v, was
<1>2. s \in 1 .. n' /\ Holds(ds', n')
  BY <1>1
<1> QED
  BY <1>1, <1>2, NotedShape

LEMMA ClaimRowFacts ==
  ASSUME ShapeInv, NEW t \in Threads, ClaimRow(t)
  PROVE  /\ writer = t /\ phase = "write" /\ call.op = "insert" /\ ~ChunkFull /\ hasDataset
         /\ \E s \in dead, v \in Vec, was \in Vec :
              /\ s \in 1 .. n /\ s \in 1 .. originalN /\ was = Stored[s]
              /\ Noted("claim", s, v, was)
              /\ dead' = dead \ {s}
              /\ \A i \in 1 .. n : Stored'[i] = IF i = s THEN As(ds, v) ELSE Stored[i]
         /\ Holds(ds', n) /\ ds' \in Store /\ stray' = stray
         /\ \A u : As(ds', u) = As(ds, u)
         /\ UNCHANGED <<n, hasDataset, codes, writer, call, phase, originalN, size,
                        base, done, undone, pending, file, want, unencoded, calls>>
<1> DEFINE v == call.vecs[NextRow]
<1>1. /\ writer = t /\ phase = "write" /\ call.op = "insert" /\ ~ChunkFull
      /\ UNCHANGED <<n, hasDataset, codes, writer, call, phase, originalN, size,
                     base, done, undone, pending, file, want, unencoded, calls>>
  BY DEF ClaimRow, Doing, Claims
<1>2. PICK s \in dead : Write(ds, s, v) /\ Noted("claim", s, v, Before(s, v))
                        /\ dead' = dead \ {s}
  BY DEF ClaimRow
<1>3. hasDataset /\ s \in 1 .. n /\ s \in 1 .. originalN /\ v \in Vec
  BY <1>1, HolderFacts, NextRowFacts DEF HolderInv
<1> HIDE DEF v
<1>4. /\ Holds(ds', n) /\ ds' \in Store /\ stray' = stray
      /\ Before(s, v) = Stored[s]
      /\ \A u : As(ds', u) = As(ds, u)
      /\ \A i \in 1 .. n : Stored'[i] = IF i = s THEN As(ds, v) ELSE Stored[i]
  BY <1>2, <1>3, WriteFacts
<1>5. Stored[s] \in Vec
  BY <1>3, ShapeFacts
<1> QED
  BY <1>1, <1>2, <1>3, <1>4, <1>5

LEMMA ClaimRowShape ==
  ASSUME ShapeInv, NEW t \in Threads, ClaimRow(t)
  PROVE  ShapeInv'
<1>1. /\ writer = t /\ phase = "write" /\ ~ChunkFull
      /\ Holds(ds', n) /\ ds' \in Store /\ stray' = stray
      /\ UNCHANGED <<n, hasDataset, codes, writer, call, phase, originalN, size,
                     base, done, undone, pending, file, calls>>
  BY ClaimRowFacts
<1>2. PICK s \in dead, v \in Vec, was \in Vec :
        /\ s \in 1 .. n /\ s \in 1 .. originalN
        /\ Noted("claim", s, v, was)
        /\ dead' = dead \ {s}
  BY ClaimRowFacts
<1>3. s \in 1 .. n' /\ Holds(ds', n') /\ dead' \subseteq dead
  BY <1>1, <1>2
<1> QED
  BY <1>1, <1>2, <1>3, NotedShape

\* An insert grows the vectors by its row.
LEMMA AppendRowFacts ==
  ASSUME ShapeInv, NEW t \in Threads, AppendRow(t)
  PROVE  LET v == call.vecs[NextRow]
         IN /\ writer = t /\ phase = "write" /\ call.op = "insert" /\ ~ChunkFull /\ hasDataset
            /\ v \in Vec /\ Noted("append", n + 1, v, v)
            /\ n' = n + 1 /\ n' \in 1 .. MaxRows
            /\ Holds(ds', n') /\ ds' \in Store /\ stray' = stray
            /\ \A u : As(ds', u) = As(ds, u)
            /\ \A i \in 1 .. n : Stored'[i] = Stored[i]
            /\ Stored'[n'] = As(ds, v)
            /\ UNCHANGED <<hasDataset, codes, dead, writer, call, phase, originalN, size,
                           base, done, undone, pending, file, want, unencoded, calls>>
<1> DEFINE v == call.vecs[NextRow]
<1>1. /\ writer = t /\ phase = "write" /\ call.op = "insert" /\ ~ChunkFull
      /\ \/ ds.x16 # <<>> /\ Write(Grown(ds, v), n + 1, v)
         \/ ds.x16 = <<>> /\ ds' = Grown(ds, v) /\ UNCHANGED stray
      /\ Noted("append", n + 1, v, v) /\ n' = n + 1
      /\ UNCHANGED <<hasDataset, codes, dead, writer, call, phase, originalN, size,
                     base, done, undone, pending, file, want, unencoded, calls>>
  BY DEF AppendRow, Doing
<1>2. hasDataset /\ v \in Vec /\ n + 1 <= MaxRows /\ n \in 1 .. MaxRows /\ MaxRows \in Nat
  BY <1>1, HolderFacts, NextRowFacts, ShapeFacts
<1>3. Holds(ds, n) /\ Stored = RowsOf(ds) /\ n < MaxRows
  BY <1>2, ShapeFacts
<1> HIDE DEF v
<1>4. ds' = Appended(ds, n + 1, v) /\ stray' = stray
  <2>1. CASE ds.x16 = <<>>
    BY <1>1, <2>1 DEF Appended
  <2>2. CASE ds.x16 # <<>>
    <3>1. InBounds(Grown(ds, v), n + 1)
      BY <1>1, <1>2, <1>3, <2>2, GrownInBounds
    <3> QED
      BY <1>1, <2>2, <3>1 DEF Appended, Write
  <2> QED
    BY <2>1, <2>2
<1>5. /\ Holds(ds', n + 1)
      /\ \A u : As(ds', u) = As(ds, u)
      /\ \A i \in 1 .. n : RowsOf(ds')[i] = RowsOf(ds)[i]
      /\ RowsOf(ds')[n + 1] = As(ds, v)
  BY <1>2, <1>3, <1>4, AppendedHolds
<1>6. Stored' = RowsOf(ds')
  BY DEF Stored, RowsOf
<1>7. ds' \in Store /\ n' \in 1 .. MaxRows
  BY <1>1, <1>2, <1>5 DEF Holds
<1> QED
  BY <1>1, <1>2, <1>3, <1>4, <1>5, <1>6, <1>7 DEF v

LEMMA AppendRowShape ==
  ASSUME ShapeInv, NEW t \in Threads, AppendRow(t)
  PROVE  ShapeInv'
<1> DEFINE v == call.vecs[NextRow]
<1>1. /\ writer = t /\ phase = "write" /\ call.op = "insert" /\ ~ChunkFull
      /\ v \in Vec /\ Noted("append", n + 1, v, v) /\ n' = n + 1
      /\ Holds(ds', n') /\ ds' \in Store /\ stray' = stray
      /\ UNCHANGED <<hasDataset, codes, dead, writer, call, phase, originalN, size,
                     base, done, undone, pending, file, calls>>
  BY AppendRowFacts
<1> HIDE DEF v
<1>2. n + 1 \in 1 .. n' /\ dead' \subseteq dead
  BY <1>1, ShapeFacts
<1> QED
  BY <1>1, <1>2, NotedShape

\* The phases between, in which no row changes.
LEMMA PhaseShape ==
  ASSUME ShapeInv, NEW t \in Threads, EndWrite(t) \/ RepairFails(t) \/ EndUndo(t)
  PROVE  ShapeInv'
<1>1. /\ writer = t
      /\ UNCHANGED <<ds, n, hasDataset, codes, dead, writer, call, originalN, size, base,
                     done, chunk, undone, pending, file, calls, stray>>
      /\ \/ phase = "write" /\ phase' = "repair"
         \/ phase = "repair" /\ phase' = "undo"
         \/ phase = "undo" /\ phase' = "tail" /\ undone = Len(chunk)
  BY DEF EndWrite, RepairFails, EndUndo, Doing, index
<1>2. HolderInv /\ writer # NoOne
  BY <1>1, HolderFacts
<1>3. HolderInv'
  BY <1>1, <1>2 DEF HolderInv, Arguments
<1>4. CallInv'
  BY <1>1, <1>2, <1>3 DEF CallInv
<1>5. MutationOK'
  BY <1>1 DEF ShapeInv, TypeOK, MutationOK, Entry
<1>6. IndexOK' /\ VectorsInv'
  BY <1>1, IndexFrame
<1>7. n <= n'
  BY <1>1, ShapeFacts
<1> QED
  BY <1>1, <1>4, <1>5, <1>6, <1>7, CallMoves

\* The rows of the chunk are rows of the index.
LEMMA TouchedRows ==
  ASSUME ShapeInv
  PROVE  Touched \subseteq 1 .. n
BY ChunkFacts DEF Touched, Standing

LEMMA RepairedShape ==
  ASSUME ShapeInv, NEW t \in Threads, Repaired(t)
  PROVE  ShapeInv'
<1>1. /\ writer = t /\ phase = "repair" /\ dead' = dead \ Touched
      /\ base' = base + Len(chunk) /\ done' = done \cup Touched /\ chunk' = <<>>
      /\ phase' \in {"encode", "write"}
      /\ UNCHANGED <<ds, n, hasDataset, codes, writer, call, originalN, size, undone,
                     pending, file, calls, stray>>
  BY DEF Repaired, Doing
<1>2. /\ HolderInv /\ writer # NoOne /\ Len(call.vecs) \in Nat /\ hasDataset
      /\ dead \subseteq 1 .. n /\ originalN \in 1 .. n
  BY <1>1, HolderFacts
<1>3. base \in Nat /\ Len(chunk) \in Nat /\ n \in 1 .. MaxRows /\ MaxRows \in Nat
  BY ChunkFacts, ShapeFacts
<1>4. undone = 0 /\ Len(chunk') = 0 /\ chunk' \in Seq(Entry')
  BY <1>1, <1>2, EmptySeq DEF HolderInv
<1>5. MutationOK'
  <2>1. /\ writer \in Threads \cup {NoOne} /\ call.op \in {"none", "update", "insert"}
        /\ originalN \in 0 .. n /\ size \in Nat /\ done \subseteq 1 .. n
    BY DEF ShapeInv, TypeOK, MutationOK
  <2>2. done' \subseteq 1 .. n
    BY <1>1, <2>1, TouchedRows
  <2> QED
    BY <1>1, <1>3, <1>4, <2>1, <2>2 DEF MutationOK
<1>6. HolderInv'
  <2>1. base' + Len(chunk') <= Len(call.vecs)
    BY <1>1, <1>2, <1>3, <1>4 DEF HolderInv
  <2>2. call.op = "insert" => n + (Len(call.vecs) - base' - Len(chunk')) <= MaxRows
    BY <1>1, <1>2, <1>3, <1>4 DEF HolderInv
  <2>3. dead' \subseteq 1 .. originalN
    BY <1>1, <1>2 DEF HolderInv
  <2>4. Arguments(call)'
    BY <1>1, <1>2 DEF HolderInv, Arguments
  <2> QED
    BY <1>1, <1>2, <1>4, <2>1, <2>2, <2>3, <2>4 DEF HolderInv
<1>7. CallInv'
  BY <1>1, <1>2, <1>6 DEF CallInv
<1>8. dead' \subseteq 1 .. n
  BY <1>1, <1>2
<1>9. IndexOK' /\ VectorsInv'
  BY <1>1, <1>8 DEF ShapeInv, TypeOK, IndexOK, VectorsInv, Holds
<1>10. n <= n'
  BY <1>1, <1>3
<1> QED
  BY <1>1, <1>5, <1>7, <1>9, <1>10, CallMoves

LEMMA AcknowledgedShape ==
  ASSUME ShapeInv, NEW t \in Threads, Acknowledged(t)
  PROVE  ShapeInv'
<1>1. /\ writer = t /\ codes' = Encoded(Stored) /\ Return
      /\ UNCHANGED <<ds, n, hasDataset, dead, pending, file, calls, stray>>
  BY DEF Acknowledged, Doing
<1>2. hasDataset /\ Stored \in Rows
  BY <1>1, HolderFacts, ShapeFacts
<1>3. codes' \in Rows
  BY <1>1, <1>2, EmptyRows DEF Encoded
<1>4. IndexOK' /\ VectorsInv'
  BY <1>1, <1>3 DEF ShapeInv, TypeOK, IndexOK, VectorsInv, Holds
<1>5. n \in Nat /\ n' \in Nat /\ n <= n'
  BY <1>1, ShapeFacts
<1>6. MutationOK' /\ CallInv'
  BY <1>1, <1>5, ReturnRests
<1> QED
  BY <1>1, <1>4, <1>5, <1>6, CallMoves

LEMMA UndoRowFacts ==
  ASSUME ShapeInv, NEW t \in Threads, UndoRow(t)
  PROVE  LET k == undone + 1
         IN /\ writer = t /\ phase = "undo" /\ k \in 1 .. Len(chunk) /\ undone' = k /\ hasDataset
            /\ Holds(ds', n) /\ ds' \in Store /\ stray' = stray
            /\ dead' \subseteq dead \cup {chunk[k].slot}
            /\ chunk[k].kind # "claim" => dead' = dead
            /\ \A u : As(ds', u) = As(ds, u)
            /\ chunk[k].kind = "append" => Stored' = Stored
            /\ chunk[k].kind # "append" =>
                 \A i \in 1 .. n : Stored'[i] = IF i = chunk[k].slot THEN As(ds, chunk[k].prev)
                                                ELSE Stored[i]
            /\ UNCHANGED <<n, hasDataset, codes, writer, call, phase, originalN, size, base,
                           done, chunk, pending, file, want, unencoded, calls>>
<1> DEFINE k == undone + 1
           e == chunk[k]
<1>1. /\ writer = t /\ phase = "undo" /\ undone < Len(chunk) /\ undone' = k
      /\ \/ e.kind = "append" /\ UNCHANGED <<ds, dead, stray>>
         \/ /\ e.kind # "append"
            /\ Write(ds, e.slot, e.prev)
            /\ dead' = IF e.kind = "claim" THEN dead \cup {e.slot} ELSE dead
      /\ UNCHANGED <<n, hasDataset, codes, writer, call, phase, originalN, size, base,
                     done, chunk, pending, file, want, unencoded, calls>>
  BY DEF UndoRow, Doing
<1>2. k \in 1 .. Len(chunk)
  BY <1>1, ChunkFacts
<1>3. hasDataset /\ Holds(ds, n) /\ e.slot \in 1 .. n /\ e.prev \in Vec
  BY <1>1, <1>2, HolderFacts, ChunkFacts
<1> HIDE DEF e, k
<1>4. CASE e.kind = "append"
  <2>1. ds' = ds /\ stray' = stray /\ dead' = dead
    BY <1>1, <1>4
  <2>2. Stored' = Stored /\ \A u : As(ds', u) = As(ds, u)
    BY <2>1 DEF Stored, As
  <2>3. Holds(ds', n) /\ ds' \in Store
    BY <1>3, <2>1 DEF Holds
  <2> QED
    BY <1>1, <1>2, <1>3, <1>4, <2>1, <2>2, <2>3 DEF e, k
<1>5. CASE e.kind # "append"
  <2>1. /\ Holds(ds', n) /\ ds' \in Store /\ stray' = stray
        /\ \A u : As(ds', u) = As(ds, u)
        /\ \A i \in 1 .. n : Stored'[i] = IF i = e.slot THEN As(ds, e.prev) ELSE Stored[i]
    BY <1>1, <1>3, <1>5, WriteFacts
  <2>2. dead' \subseteq dead \cup {e.slot} /\ (e.kind # "claim" => dead' = dead)
    BY <1>1, <1>5
  <2> QED
    BY <1>1, <1>2, <1>3, <1>5, <2>1, <2>2 DEF e, k
<1> QED
  BY <1>4, <1>5

LEMMA UndoRowShape ==
  ASSUME ShapeInv, NEW t \in Threads, UndoRow(t)
  PROVE  ShapeInv'
<1> DEFINE k == undone + 1
<1>1. /\ writer = t /\ phase = "undo" /\ k \in 1 .. Len(chunk) /\ undone' = k /\ hasDataset
      /\ Holds(ds', n) /\ ds' \in Store /\ stray' = stray
      /\ dead' \subseteq dead \cup {chunk[k].slot}
      /\ chunk[k].kind # "claim" => dead' = dead
      /\ UNCHANGED <<n, hasDataset, codes, writer, call, phase, originalN, size, base,
                     done, chunk, pending, file, calls>>
  BY UndoRowFacts
<1> HIDE DEF k
<1>2. /\ HolderInv /\ writer # NoOne /\ dead \subseteq 1 .. n /\ originalN \in 1 .. n
  BY <1>1, HolderFacts
<1>3. n \in 1 .. MaxRows /\ Len(chunk) \in Nat
  BY ShapeFacts, ChunkFacts
<1>4. dead' \subseteq 1 .. originalN
  BY <1>1, <1>2 DEF HolderInv
<1>5. dead' \subseteq 1 .. n
  BY <1>2, <1>3, <1>4
<1>6. IndexOK'
  BY <1>1, <1>5 DEF ShapeInv, TypeOK, IndexOK, Store
<1>7. VectorsInv'
  BY <1>1 DEF VectorsInv
<1>8. undone' \in 0 .. Len(chunk)
  BY <1>1, <1>3
<1>9. MutationOK'
  BY <1>1, <1>8 DEF ShapeInv, TypeOK, MutationOK, Entry
<1>10. HolderInv'
  BY <1>1, <1>2, <1>4 DEF HolderInv, Arguments
<1>11. CallInv'
  BY <1>1, <1>2, <1>10 DEF CallInv
<1>12. n <= n'
  BY <1>1, <1>3
<1> QED
  BY <1>1, <1>6, <1>7, <1>9, <1>11, <1>12, CallMoves

\* Calls that return with the index as it is.
LEMMA GivesUpShape ==
  ASSUME ShapeInv, NEW t \in Threads, UpdateFailed(t) \/ Throws(t)
  PROVE  ShapeInv'
<1>1. /\ Return
      /\ UNCHANGED <<ds, n, hasDataset, codes, dead, pending, file, calls, stray>>
  BY DEF UpdateFailed, Throws, index
<1>2. n \in Nat /\ n' \in Nat /\ n <= n'
  BY <1>1, ShapeFacts
<1>3. MutationOK' /\ CallInv'
  BY <1>1, <1>2, ReturnRests
<1>4. IndexOK' /\ VectorsInv'
  BY <1>1, IndexFrame
<1> QED
  BY <1>1, <1>2, <1>3, <1>4, CallMoves

\* Nobody waits for a lock, where nothing is left to find.
LEMMA QuietFacts ==
  ASSUME Orderly, ShapeInv, Quiet, pending' = pending
  PROVE  /\ PendingInv'
         /\ \A u \in Threads :
              pending'[u].op \in {"none", "update", "insert", "quantize", "calibrate"}
<1>1. \A t \in Threads : pending[t].op = "none"
  BY DEF Orderly, Quiet, Calm, Idle
<1>2. pending = [t \in Threads |-> pending[t]]
  BY DEF ShapeInv, PendingInv
<1> QED
  BY <1>1, <1>2 DEF PendingInv, FindsItsTest

\* A failed insert leaves the rows that were there when it began.
LEMMA InsertFailedFacts ==
  ASSUME ShapeInv, NEW t \in Threads, InsertFailed(t)
  PROVE  /\ writer = t /\ phase = "tail" /\ undone = Len(chunk) /\ hasDataset
         /\ n' = originalN /\ n' \in 1 .. MaxRows /\ n' \in 1 .. n /\ dead \subseteq 1 .. n'
         /\ Holds(ds', n') /\ ds' \in Store
         /\ \A u : As(ds', u) = As(ds, u)
         /\ \A i \in 1 .. n' : Stored'[i] = Stored[i]
         /\ Quiet /\ Return
         /\ want' = SubSeq(want, 1, originalN)
         /\ unencoded' = (unencoded \cup done) \cap 1 .. originalN
         /\ UNCHANGED <<hasDataset, codes, dead, pending, file, calls, stray>>
<1>1. /\ writer = t /\ phase = "tail" /\ ds' = Truncated(ds, originalN) /\ n' = originalN
      /\ Quiet /\ Return
      /\ want' = SubSeq(want, 1, originalN)
      /\ unencoded' = (unencoded \cup done) \cap 1 .. originalN
      /\ UNCHANGED <<hasDataset, codes, dead, pending, file, calls, stray>>
  BY DEF InsertFailed, Doing
<1>2. /\ hasDataset /\ Holds(ds, n) /\ HolderInv /\ originalN \in 1 .. n
      /\ n \in 1 .. MaxRows /\ MaxRows \in Nat
      /\ Stored = RowsOf(ds)
  BY <1>1, HolderFacts, ShapeFacts
<1>3. n' \in 1 .. n /\ n' \in 1 .. MaxRows /\ dead \subseteq 1 .. n' /\ undone = Len(chunk)
  BY <1>1, <1>2 DEF HolderInv
<1>4. /\ Holds(ds', n')
      /\ \A u : As(ds', u) = As(ds, u)
      /\ \A i \in 1 .. n' : RowsOf(ds')[i] = RowsOf(ds)[i]
  BY <1>1, <1>2, <1>3, TruncatedHolds
<1>5. Stored' = RowsOf(ds')
  BY DEF Stored, RowsOf
<1>6. ds' \in Store
  BY <1>4 DEF Holds
<1> QED
  BY <1>1, <1>2, <1>3, <1>4, <1>5, <1>6

LEMMA InsertFailedShape ==
  ASSUME Orderly, ShapeInv, NEW t \in Threads, InsertFailed(t)
  PROVE  ShapeInv'
<1>1. /\ hasDataset /\ n' \in 1 .. MaxRows /\ dead \subseteq 1 .. n'
      /\ Holds(ds', n') /\ ds' \in Store /\ Quiet /\ Return
      /\ UNCHANGED <<hasDataset, codes, dead, pending, file, calls, stray>>
  BY InsertFailedFacts
<1>2. MutationOK' /\ CallInv'
  <2>1. n' \in Nat
    BY <1>1, CagraStorageAssumption
  <2> QED
    BY <1>1, <2>1, ReturnRests
<1>3. IndexOK'
  BY <1>1 DEF ShapeInv, TypeOK, IndexOK, Store
<1>4. VectorsInv'
  BY <1>1 DEF VectorsInv
<1>5. /\ PendingInv'
      /\ \A u \in Threads :
           pending'[u].op \in {"none", "update", "insert", "quantize", "calibrate"}
  BY <1>1, QuietFacts
<1>6. stray' \in BOOLEAN /\ NoStrayAccess' /\ calls' \in 0 .. MaxCalls /\ FileInv'
  BY <1>1, FileStays DEF ShapeInv, TypeOK, NoStrayAccess
<1> QED
  BY <1>2, <1>3, <1>4, <1>5, <1>6 DEF ShapeInv, TypeOK

LEMMA QuantizeShape ==
  ASSUME ShapeInv, NEW t \in Threads, Quantize(t)
  PROVE  ShapeInv'
<1>1. /\ Lock(t, "quantize")
      /\ \/ Stored # <<>> /\ codes' = Stored /\ UNCHANGED stray
         \/ Stored = <<>> /\ stray' = TRUE /\ UNCHANGED codes
         \/ UNCHANGED <<codes, stray>>
      /\ UNCHANGED <<ds, n, hasDataset, dead, mutation, file, calls>>
  BY DEF Quantize
<1>2. /\ hasDataset
      /\ \A u \in Threads :
           pending'[u].op \in {"none", "update", "insert", "quantize", "calibrate"}
      /\ PendingInv'
  BY <1>1, LockFacts
<1>3. Stored \in Rows /\ Stored # <<>>
  BY <1>2, ShapeFacts, EmptySeq
<1>4. codes' \in Rows /\ stray' = stray
  BY <1>1, <1>3 DEF ShapeInv, TypeOK, IndexOK
<1>5. IndexOK' /\ VectorsInv'
  BY <1>1, <1>4 DEF ShapeInv, TypeOK, IndexOK, VectorsInv, Holds
<1>6. MutationOK' /\ CallInv'
  BY <1>1, MutationFrame DEF ShapeInv, TypeOK
<1>7. stray' \in BOOLEAN /\ NoStrayAccess' /\ calls' \in 0 .. MaxCalls /\ FileInv'
  BY <1>1, <1>4, FileStays DEF ShapeInv, TypeOK, NoStrayAccess
<1> QED
  BY <1>2, <1>5, <1>6, <1>7 DEF ShapeInv, TypeOK

LEMMA DeleteShape ==
  ASSUME ShapeInv, NEW t \in Threads, NEW s \in 1 .. MaxRows, Delete(t, s)
  PROVE  ShapeInv'
<1>1. /\ calls < MaxCalls /\ writer = NoOne /\ s \in 1 .. n
      /\ dead' = dead \cup {s} /\ calls' = calls + 1
      /\ UNCHANGED <<ds, n, hasDataset, codes, mutation, pending, file, stray>>
  BY DEF Delete, Resolves
<1>2. n' \in Nat /\ n <= n'
  BY <1>1, ShapeFacts
<1>3. IndexOK' /\ VectorsInv'
  BY <1>1 DEF ShapeInv, TypeOK, IndexOK, VectorsInv, Holds
<1>4. MutationOK' /\ CallInv'
  BY <1>1, <1>2, StaysAtRest
<1>5. /\ PendingInv'
      /\ \A u \in Threads :
           pending'[u].op \in {"none", "update", "insert", "quantize", "calibrate"}
  BY <1>1, <1>2, PendingFrame
<1>6. stray' \in BOOLEAN /\ NoStrayAccess' /\ calls' \in 0 .. MaxCalls /\ FileInv'
  BY <1>1, FileStays, CagraStorageAssumption DEF ShapeInv, TypeOK, NoStrayAccess
<1> QED
  BY <1>3, <1>4, <1>5, <1>6 DEF ShapeInv, TypeOK

LEMMA DetachShape ==
  ASSUME Orderly, ShapeInv, NEW t \in Threads, Detach(t)
  PROVE  ShapeInv'
<1>1. /\ Quiet /\ calls < MaxCalls /\ writer = NoOne
      /\ ds' = NoRows /\ hasDataset' = FALSE /\ calls' = calls + 1
      /\ UNCHANGED <<n, codes, dead, mutation, pending, file, stray>>
  BY DEF Detach
<1>2. ds' \in Store
  BY <1>1, EmptyRows
<1>3. hasDataset' \in BOOLEAN
  BY <1>1, Zenon
<1>4. IndexOK'
  BY <1>1, <1>2, <1>3 DEF ShapeInv, TypeOK, IndexOK, Store
<1>5. VectorsInv'
  BY <1>1 DEF VectorsInv
<1>6. n' \in Nat
  BY <1>1, ShapeFacts
<1>7. MutationOK' /\ CallInv'
  BY <1>1, <1>6, StaysAtRest
<1>8. /\ PendingInv'
      /\ \A u \in Threads :
           pending'[u].op \in {"none", "update", "insert", "quantize", "calibrate"}
  BY <1>1, QuietFacts
<1>9. stray' \in BOOLEAN /\ NoStrayAccess' /\ calls' \in 0 .. MaxCalls /\ FileInv'
  BY <1>1, FileStays, CagraStorageAssumption DEF ShapeInv, TypeOK, NoStrayAccess
<1> QED
  BY <1>4, <1>5, <1>7, <1>8, <1>9 DEF ShapeInv, TypeOK

\* Vectors come back to an index that has none.
LEMMA AttachFacts ==
  ASSUME Orderly, ShapeInv, NEW t \in Threads, NEW rows \in [1 .. n -> Vec], Attach(t, rows)
  PROVE  /\ rows \in Rows /\ Len(rows) = n /\ ds' \in Store /\ Holds(ds', n)
         /\ ds'.x = rows /\ ds'.x # <<>>
<1>1. ds' = [ds EXCEPT !.x = rows] /\ ~Present
  BY DEF Attach, Orderly
<1>2. ~hasDataset /\ n \in 1 .. MaxRows /\ MaxRows \in Nat
  BY <1>1, ShapeFacts
<1>3. ds' = [NoRows EXCEPT !.x = rows]
  BY <1>1, <1>2 DEF ShapeInv, VectorsInv
<1>4. rows \in Seq(Vec) /\ Len(rows) = n
  BY <1>2, SMT
<1>5. rows \in Rows /\ rows # <<>>
  <2>1. rows \in Rows
    BY <1>2, <1>4, RowsAreSeqs
  <2>2. Len(<<>>) = 0
    BY EmptySeq
  <2> QED
    BY <1>2, <1>4, <2>1, <2>2
<1>6. ds' \in Store /\ Holds(ds', Len(rows)) /\ ds'.x = rows
  BY <1>3, <1>5, FinalizedHolds
<1> QED
  BY <1>4, <1>5, <1>6

LEMMA AttachShape ==
  ASSUME Orderly, ShapeInv, NEW t \in Threads, NEW rows \in [1 .. n -> Vec], Attach(t, rows)
  PROVE  ShapeInv'
<1>1. /\ Quiet /\ calls < MaxCalls /\ writer = NoOne
      /\ hasDataset' = TRUE /\ calls' = calls + 1
      /\ UNCHANGED <<n, codes, dead, mutation, pending, file, stray>>
  BY DEF Attach
<1>2. ds' \in Store /\ Holds(ds', n)
  BY AttachFacts
<1>3. hasDataset' \in BOOLEAN
  BY <1>1
<1>4. IndexOK'
  BY <1>1, <1>2, <1>3 DEF ShapeInv, TypeOK, IndexOK, Store
<1>5. VectorsInv'
  BY <1>1, <1>2 DEF VectorsInv
<1>6. n' \in Nat
  BY <1>1, ShapeFacts
<1>7. MutationOK' /\ CallInv'
  BY <1>1, <1>6, StaysAtRest
<1>8. /\ PendingInv'
      /\ \A u \in Threads :
           pending'[u].op \in {"none", "update", "insert", "quantize", "calibrate"}
  BY <1>1, QuietFacts
<1>9. stray' \in BOOLEAN /\ NoStrayAccess' /\ calls' \in 0 .. MaxCalls /\ FileInv'
  BY <1>1, FileStays, CagraStorageAssumption DEF ShapeInv, TypeOK, NoStrayAccess
<1> QED
  BY <1>4, <1>5, <1>7, <1>8, <1>9 DEF ShapeInv, TypeOK

\* What Save puts in the file.
LEMMA SaveFacts ==
  ASSUME ShapeInv, NEW t \in Threads, NEW include \in BOOLEAN, Save(t, include)
  PROVE  /\ file'.n = n /\ file'.codes = codes /\ file'.dead = dead /\ file'.want = want
         /\ file'.unencoded = unencoded
         /\ file'.f16 <=> ds.x = <<>>
         /\ file'.f16 \in BOOLEAN
         /\ file'.rows \in Rows
         /\ file'.rows # <<>> => hasDataset /\ file'.rows = Stored
         /\ calls < MaxCalls /\ calls' = calls + 1
         /\ UNCHANGED <<ds, n, hasDataset, codes, dead, mutation, pending, want, unencoded,
                        stray>>
         /\ SavesAtRest => writer = NoOne
<1> DEFINE rows == IF include /\ hasDataset THEN Stored ELSE <<>>
           f16 == ds.x = <<>>
<1>1. /\ file' = [saved |-> TRUE, n |-> n, codes |-> codes, dead |-> dead, want |-> want,
                  unencoded |-> unencoded, f16 |-> f16, rows |-> rows]
      /\ calls < MaxCalls /\ calls' = calls + 1
      /\ UNCHANGED <<ds, n, hasDataset, codes, dead, mutation, pending, want, unencoded,
                     stray>>
      /\ SavesAtRest => writer = NoOne
  BY DEF Save, index, SavesAtRest
<1>2. f16 \in BOOLEAN
  OBVIOUS
<1>3. rows \in Rows
  BY ShapeFacts, EmptyRows
<1>4. rows # <<>> => hasDataset /\ rows = Stored
  OBVIOUS
<1>5. file'.rows = rows
  BY <1>1
<1> HIDE DEF rows
<1>6. file'.f16 <=> f16
  <2> HIDE DEF f16
  <2> QED BY <1>1
<1>7. file'.f16 \in BOOLEAN
  <2> HIDE DEF f16
  <2>1. file'.f16 = f16
    BY <1>1
  <2> QED
    BY <1>2, <2>1
<1>8. /\ file'.n = n /\ file'.codes = codes /\ file'.dead = dead /\ file'.want = want
      /\ file'.unencoded = unencoded
  <2> HIDE DEF f16
  <2> QED BY <1>1
<1> QED
  BY <1>1, <1>3, <1>4, <1>5, <1>6, <1>7, <1>8

LEMMA SaveShape ==
  ASSUME ShapeInv, NEW t \in Threads, NEW include \in BOOLEAN, Save(t, include)
  PROVE  ShapeInv'
<1>1. /\ file'.n = n /\ file'.codes = codes /\ file'.dead = dead
      /\ file'.f16 <=> ds.x = <<>>
      /\ file'.f16 \in BOOLEAN
      /\ file'.rows \in Rows
      /\ file'.rows # <<>> => hasDataset /\ file'.rows = Stored
      /\ calls < MaxCalls /\ calls' = calls + 1
      /\ UNCHANGED <<ds, n, hasDataset, codes, dead, mutation, pending, stray>>
  BY SaveFacts
<1>2. IndexOK' /\ VectorsInv' /\ NoStrayAccess' /\ stray' \in BOOLEAN
  BY <1>1, IndexFrame
<1>3. MutationOK' /\ CallInv'
  BY <1>1, MutationFrame DEF ShapeInv, TypeOK
<1>4. n \in 1 .. MaxRows /\ n' \in Nat /\ n <= n' /\ codes \in Rows /\ dead \subseteq 1 .. n
  BY <1>1, ShapeFacts DEF ShapeInv, TypeOK, IndexOK
<1>5. /\ PendingInv'
      /\ \A u \in Threads :
           pending'[u].op \in {"none", "update", "insert", "quantize", "calibrate"}
  BY <1>1, <1>4, PendingFrame
<1>6. ASSUME file'.rows # <<>>
      PROVE  /\ Len(file'.rows) = n
             /\ file'.f16 => \A i \in 1 .. Len(file'.rows) :
                               Half[file'.rows[i]] = file'.rows[i]
  <2>1. hasDataset /\ file'.rows = Stored /\ Holds(ds, n) /\ Stored = RowsOf(ds)
    BY <1>1, <1>6, ShapeFacts
  <2>2. Len(file'.rows) = n
    BY <2>1 DEF Holds
  <2>3. ASSUME file'.f16, NEW i \in 1 .. Len(file'.rows)
        PROVE  Half[file'.rows[i]] = file'.rows[i]
    <3>1. file'.rows = ds.x16
      BY <1>1, <2>1, <2>3 DEF RowsOf
    <3> QED
      BY <2>1, <3>1 DEF Holds
  <2> QED
    BY <2>2, <2>3
<1>7. FileInv'
  BY <1>1, <1>4, <1>6 DEF FileInv
<1>8. calls' \in 0 .. MaxCalls
  BY <1>1, CagraStorageAssumption DEF ShapeInv, TypeOK
<1> QED
  BY <1>2, <1>3, <1>5, <1>7, <1>8 DEF ShapeInv, TypeOK

\* What Load makes of the file: the saved rows, of which those in fp32 may have been
\* converted, without loss unless the mode is "force".
LEMMA LoadFacts ==
  ASSUME ShapeInv, Load
  PROVE  /\ ds' \in Store
         /\ n' = file.n /\ codes' = file.codes /\ dead' = file.dead
         /\ want' = file.want /\ unencoded' = file.unencoded
         /\ calls < MaxCalls /\ calls' = calls + 1 /\ writer = NoOne
         /\ \A t \in Threads : pending[t].op = "none"
         /\ UNCHANGED <<mutation, pending, file, stray>>
         /\ file.saved
         /\ hasDataset' <=> file.rows # <<>>
         /\ hasDataset' \in BOOLEAN
         /\ file.rows = <<>> => ds' = NoRows
         /\ file.rows # <<>> =>
              /\ Holds(ds', file.n)
              /\ \A i \in 1 .. file.n :
                   \/ file.f16 /\ ds'.x = <<>> /\ Stored'[i] = file.rows[i]
                   \/ ~file.f16 /\ Stored'[i] = As(ds', file.rows[i])
<1>1. /\ file.saved /\ calls < MaxCalls /\ writer = NoOne
      /\ \A t \in Threads : pending[t] = Idle
      /\ ds' = IF file.rows # <<>> /\ file.f16
               THEN Mirrored([NoRows EXCEPT !.x16 = file.rows])
               ELSE Finalized([NoRows EXCEPT !.x = file.rows], FALSE)
      /\ hasDataset' = (file.rows # <<>>)
      /\ n' = file.n /\ codes' = file.codes /\ dead' = file.dead
      /\ want' = file.want /\ unencoded' = file.unencoded
      /\ calls' = calls + 1
      /\ UNCHANGED <<mutation, pending, file, stray>>
  BY DEF Load
<1>2. /\ file.n \in 1 .. MaxRows /\ file.rows \in Rows /\ file.f16 \in BOOLEAN
      /\ file.rows # <<>> =>
           /\ Len(file.rows) = file.n
           /\ file.f16 => \A i \in 1 .. Len(file.rows) : Half[file.rows[i]] = file.rows[i]
  BY <1>1 DEF ShapeInv, FileInv
<1>3. hasDataset' \in BOOLEAN
  BY <1>1, Zenon
<1>4. hasDataset' <=> file.rows # <<>>
  BY <1>1, Zenon
<1>5. \A t \in Threads : pending[t].op = "none"
  BY <1>1 DEF Idle
<1> DEFINE r == file.rows
           d == [NoRows EXCEPT !.x = r]
           h == [NoRows EXCEPT !.x16 = r]
<1>6. CASE r = <<>>
  <2>1. d = NoRows
    BY <1>6 DEF NoRows
  <2>2. ds' = NoRows
    BY <1>1, <1>6, <2>1 DEF Finalized, NoRows
  <2> QED
    BY <1>1, <1>3, <1>4, <1>5, <1>6, <2>2, EmptyRows
<1>7. CASE r # <<>> /\ file.f16
  <2>1. h \in Store /\ h.x = <<>> /\ h.x16 = r
    BY <1>2, EmptyRows DEF NoRows, Store
  <2>2. ds' = Mirrored(h)
    BY <1>1, <1>7
  <2> HIDE DEF h, r
  <2>3. Holds(ds', Len(r)) /\ ds'.x = <<>> /\ ds'.x16 = r
    BY <1>2, <1>7, <2>1, <2>2, MirroredHolds DEF r
  <2>4. Stored' = r
    BY <2>3 DEF Stored
  <2>5. ds' \in Store /\ Holds(ds', file.n)
    BY <1>2, <1>7, <2>3 DEF Holds, r
  <2> QED
    BY <1>1, <1>3, <1>4, <1>5, <1>7, <2>3, <2>4, <2>5 DEF r
<1>8. CASE r # <<>> /\ ~file.f16
  <2>1. ds' = Finalized(d, FALSE)
    BY <1>1, <1>8
  <2>2. /\ d.x = r /\ Converted(d).x = <<>> /\ Converted(d).x16 = Rounded(r)
        /\ Holds(ds', Len(r))
        /\ ds' = d \/ ds' = Converted(d)
    BY <1>2, <1>8, <2>1, FinalizedHolds
  <2>3. \A i \in 1 .. Len(r) : Rounded(r)[i] = Half[r[i]]
    BY <1>2, RoundedRows
  <2>4. \A i \in 1 .. Len(r) : Stored'[i] = As(ds', r[i])
    <3> HIDE DEF d, r
    <3>1. CASE ds' = d
      BY <1>8, <2>2, <3>1 DEF Stored, As
    <3>2. CASE ds' = Converted(d)
      BY <2>2, <2>3, <3>2 DEF Stored, As
    <3> QED
      BY <2>2, <3>1, <3>2
  <2>5. ds' \in Store /\ Holds(ds', file.n)
    BY <1>2, <1>8, <2>2 DEF Holds
  <2> QED
    BY <1>1, <1>2, <1>3, <1>4, <1>5, <1>8, <2>4, <2>5
<1> QED
  BY <1>2, <1>6, <1>7, <1>8

LEMMA LoadShape ==
  ASSUME ShapeInv, Load
  PROVE  ShapeInv'
<1>1. /\ ds' \in Store
      /\ n' = file.n /\ codes' = file.codes /\ dead' = file.dead
      /\ calls < MaxCalls /\ calls' = calls + 1 /\ writer = NoOne
      /\ \A t \in Threads : pending[t].op = "none"
      /\ UNCHANGED <<mutation, pending, file, stray>>
      /\ file.saved
      /\ hasDataset' <=> file.rows # <<>>
      /\ hasDataset' \in BOOLEAN
      /\ file.rows = <<>> => ds' = NoRows
      /\ file.rows # <<>> => Holds(ds', file.n)
  BY LoadFacts
<1>2. file.n \in 1 .. MaxRows /\ file.codes \in Rows /\ file.dead \subseteq 1 .. file.n
  BY <1>1 DEF ShapeInv, FileInv
<1>3. IndexOK'
  BY <1>1, <1>2 DEF IndexOK, Store
<1>4. VectorsInv'
  BY <1>1 DEF VectorsInv
<1>5. n' \in Nat
  BY <1>1, <1>2, CagraStorageAssumption
<1>6. MutationOK' /\ CallInv'
  BY <1>1, <1>5, StaysAtRest
<1>7. PendingInv' /\ \A t \in Threads : pending'[t].op = "none"
  BY <1>1 DEF ShapeInv, PendingInv, FindsItsTest
<1>8. stray' \in BOOLEAN /\ NoStrayAccess' /\ calls' \in 0 .. MaxCalls /\ FileInv'
  BY <1>1, FileStays, CagraStorageAssumption DEF ShapeInv, TypeOK, NoStrayAccess
<1> QED
  BY <1>3, <1>4, <1>6, <1>7, <1>8 DEF ShapeInv, TypeOK

\* Calibrate reads rows that are there.
LEMMA CalibrateShape ==
  ASSUME ShapeInv, NEW t \in Threads, Calibrate(t)
  PROVE  ShapeInv'
<1>1. /\ pending[t].op = "calibrate" /\ stray' = (pending[t].rows > Len(Stored))
      /\ pending' = [pending EXCEPT ![t] = Idle]
      /\ UNCHANGED <<ds, n, hasDataset, codes, dead, mutation, file, calls>>
  BY DEF Calibrate, index
<1>2. /\ pending = [u \in Threads |-> pending[u]]
      /\ \A u \in Threads : FindsItsTest(pending[u])
  BY DEF ShapeInv, PendingInv
<1>3. /\ pending' = [u \in Threads |-> pending'[u]]
      /\ \A u \in Threads : pending'[u] = IF u = t THEN Idle ELSE pending[u]
  BY <1>1, <1>2, Zenon
<1>4. hasDataset /\ pending[t].rows \in 1 .. n
  BY <1>1, <1>2 DEF FindsItsTest
<1> DEFINE beyond == pending[t].rows > Len(Stored)
<1>5. ~beyond /\ beyond \in BOOLEAN
  BY <1>4, ShapeFacts
<1>6. stray' = beyond
  BY <1>1
<1> HIDE DEF beyond
<1>7. ~stray' /\ stray' \in BOOLEAN /\ stray' = stray
  BY <1>5, <1>6, Zenon DEF ShapeInv, NoStrayAccess, TypeOK
<1>8. PendingInv'
  <2>1. SUFFICES ASSUME NEW u \in Threads PROVE FindsItsTest(pending[u])'
    BY <1>3 DEF PendingInv
  <2>2. CASE u = t
    BY <1>3, <2>2 DEF FindsItsTest, Idle
  <2>3. CASE u # t
    <3>1. FindsItsTest(pending[u]) /\ pending'[u] = pending[u]
      BY <1>2, <1>3, <2>3
    <3> QED
      BY <1>1, <3>1 DEF FindsItsTest, Arguments
  <2> QED
    BY <2>2, <2>3
<1>9. \A u \in Threads :
        pending'[u].op \in {"none", "update", "insert", "quantize", "calibrate"}
  BY <1>3 DEF ShapeInv, TypeOK, Idle
<1>10. IndexOK' /\ VectorsInv' /\ NoStrayAccess'
  BY <1>1, <1>7, IndexFrame
<1>11. MutationOK' /\ CallInv'
  BY <1>1, MutationFrame DEF ShapeInv, TypeOK
<1>12. calls' \in 0 .. MaxCalls /\ FileInv'
  BY <1>1, FileStays DEF ShapeInv, TypeOK
<1> QED
  BY <1>7, <1>8, <1>9, <1>10, <1>11, <1>12 DEF ShapeInv, TypeOK

LEMMA EntersShape ==
  ASSUME ShapeInv, NEW t \in Threads,
         \/ \E vecs \in Requests(Vec) :
              \/ \E slots \in [DOMAIN vecs -> 1 .. MaxRows] : EnterUpdate(t, slots, vecs)
              \/ \E ids \in BOOLEAN : EnterInsert(t, vecs, ids)
         \/ EnterQuantize(t) \/ EnterCalibrate(t)
  PROVE  ShapeInv'
<1>1. ASSUME NEW vecs \in Requests(Vec), NEW slots \in [DOMAIN vecs -> 1 .. MaxRows],
             EnterUpdate(t, slots, vecs)
      PROVE  ShapeInv'
  <2> DEFINE c == [op |-> "update", slots |-> slots, vecs |-> vecs]
  <2>1. Enter(t, c) /\ (NamesIdsOnce => Distinct(slots))
    BY <1>1 DEF EnterUpdate, NamesIdsOnce
  <2>2. c.op = "update" /\ c.slots = slots /\ c.vecs = vecs
    OBVIOUS
  <2>3. vecs \in Seq(Vec) /\ DOMAIN slots = 1 .. Len(vecs)
    BY RequestFacts
  <2> HIDE DEF c
  <2>4. Arguments(c)
    BY <2>1, <2>2, <2>3 DEF Arguments, Distinct
  <2> QED
    BY <2>1, <2>2, <2>3, <2>4, EnterShape
<1>2. ASSUME NEW vecs \in Requests(Vec), NEW ids \in BOOLEAN, EnterInsert(t, vecs, ids)
      PROVE  ShapeInv'
  <2> DEFINE c == [op |-> "insert", vecs |-> vecs, wantIds |-> ids]
  <2>1. Enter(t, c)
    BY <1>2 DEF EnterInsert
  <2>2. c.op = "insert" /\ c.vecs = vecs
    OBVIOUS
  <2> HIDE DEF c
  <2>3. Arguments(c)
    BY <2>2, RequestFacts DEF Arguments
  <2> QED
    BY <2>1, <2>2, <2>3, EnterShape
<1>3. ASSUME EnterQuantize(t) PROVE ShapeInv'
  <2> DEFINE c == [op |-> "quantize"]
  <2>1. Enter(t, c) /\ c.op = "quantize"
    BY <1>3 DEF EnterQuantize
  <2> HIDE DEF c
  <2> QED
    BY <2>1, EnterShape
<1>4. ASSUME EnterCalibrate(t) PROVE ShapeInv'
  <2> DEFINE c == [op |-> "calibrate", rows |-> n]
  <2>1. Enter(t, c)
    BY <1>4 DEF EnterCalibrate
  <2>2. c.op = "calibrate" /\ c.rows = n /\ n \in 1 .. n
    BY ShapeFacts
  <2> HIDE DEF c
  <2> QED
    BY <2>1, <2>2, EnterShape
<1> QED
  BY <1>1, <1>2, <1>3, <1>4

\* The shape is inductive.
LEMMA ShapeStep ==
  ASSUME Orderly, ShapeInv, [Next]_vars
  PROVE  ShapeInv'
<1>1. ASSUME NEW t \in Threads,
             \/ MayEnter(t) /\ \E vecs \in Requests(Vec) :
                  \/ \E slots \in [DOMAIN vecs -> 1 .. MaxRows] : EnterUpdate(t, slots, vecs)
                  \/ \E ids \in BOOLEAN : EnterInsert(t, vecs, ids)
             \/ EnterQuantize(t) \/ EnterCalibrate(t)
      PROVE  ShapeInv'
  BY <1>1, EntersShape, Zenon
<1>2. ASSUME NEW t \in Threads,
             \/ Begin(t) \/ Reject(t)
             \/ WriteRow(t) \/ ClaimRow(t) \/ AppendRow(t) \/ EndWrite(t)
             \/ Repaired(t) \/ Acknowledged(t) \/ RepairFails(t)
             \/ UndoRow(t) \/ UpdateFailed(t) \/ EndUndo(t) \/ InsertFailed(t) \/ Throws(t)
             \/ Quantize(t) \/ Calibrate(t)
      PROVE  ShapeInv'
  BY <1>2, BeginShape, RejectShape, WriteRowShape, ClaimRowShape, AppendRowShape, PhaseShape,
     RepairedShape, AcknowledgedShape, UndoRowShape, GivesUpShape, InsertFailedShape,
     QuantizeShape, CalibrateShape
<1>3. ASSUME NEW t \in Threads,
             \/ \E s \in 1 .. MaxRows : Delete(t, s)
             \/ Detach(t)
             \/ \E rows \in [1 .. n -> Vec] : Attach(t, rows)
             \/ \E include \in BOOLEAN : Save(t, include)
      PROVE  ShapeInv'
  BY <1>3, DeleteShape, DetachShape, AttachShape, SaveShape
<1>4. ASSUME UNCHANGED vars PROVE ShapeInv'
  <2>1. UNCHANGED <<ds, n, hasDataset, codes, dead, mutation, pending, file, calls, stray>>
    BY <1>4 DEF vars, index
  <2>2. MutationOK' /\ CallInv'
    BY <2>1, MutationFrame DEF ShapeInv, TypeOK
  <2>3. IndexOK' /\ VectorsInv'
    BY <2>1, IndexFrame
  <2>4. n <= n'
    BY <2>1, ShapeFacts
  <2> QED
    BY <2>1, <2>2, <2>3, <2>4, CallMoves
<1> QED
  BY <1>1, <1>2, <1>3, <1>4, LoadShape, Zenon DEF Next

LEMMA ShapeAlways ==
  ASSUME Orderly
  PROVE  Spec => []ShapeInv
<1>1. Init => ShapeInv
  BY ShapeInit
<1>2. ShapeInv /\ [Next]_vars => ShapeInv'
  BY ShapeStep
<1> QED
  BY <1>1, <1>2, PTL DEF Spec

\* Every variable keeps its type.
THEOREM TypesAreKept ==
  ASSUME Orderly
  PROVE  Spec => []TypeOK
<1>1. ShapeInv => TypeOK
  BY DEF ShapeInv
<1> QED
  BY <1>1, ShapeAlways, PTL

\* As long as nobody steps between a call's test for a dataset and its lock, and only
\* detached indexes are attached to, no phase of Update, ExtendEx, Quantize or Calibrate
\* reads or writes a row the vectors do not have: not cagra_write_row after a growth or
\* before a truncation, nor the write-back of a chunk whose repair failed.
THEOREM NoCallLeavesTheRows ==
  ASSUME Orderly
  PROVE  Spec => []NoStrayAccess
<1>1. ShapeInv => NoStrayAccess
  BY DEF ShapeInv
<1> QED
  BY <1>1, ShapeAlways, PTL

\* A search that finds a dataset finds the rows it walks, between any two phases.
THEOREM SearchesAlwaysFindTheirRows ==
  ASSUME Orderly
  PROVE  Spec => []SearchesFindTheirRows
<1>1. ShapeInv => SearchesFindTheirRows
  BY ShapeFacts DEF SearchesFindTheirRows
<1> QED
  BY <1>1, ShapeAlways, PTL

\* An int8 mirror in use holds the rows of the index, whatever wrote, grew, cut,
\* detached or loaded them.
THEOREM MirrorIsAlwaysTheRows ==
  ASSUME Orderly
  PROVE  Spec => []MirrorIsTheRows
<1>1. ASSUME ShapeInv PROVE MirrorIsTheRows
  <2>1. SUFFICES ASSUME ds.mirrorOk
                 PROVE  /\ ds.mirror = ds.x16
                        /\ \A i \in DOMAIN ds.mirror : ds.mirror[i] \in Bytes
    BY DEF MirrorIsTheRows
  <2>2. hasDataset
    BY <1>1, <2>1 DEF ShapeInv, VectorsInv, NoRows
  <2>3. Holds(ds, n)
    BY <1>1, <2>2, ShapeFacts
  <2>4. ds.mirror = ds.x16 /\ \A i \in 1 .. Len(ds.mirror) : ds.mirror[i] \in Bytes
    BY <2>1, <2>3 DEF Holds
  <2>5. DOMAIN ds.mirror = 1 .. Len(ds.mirror)
    BY <2>3, RowsAreSeqs, LenProperties DEF Holds, Store
  <2> QED
    BY <2>4, <2>5
<1> QED
  BY <1>1, ShapeAlways, PTL

-----------------------------------------------------------------------------
(* Rows keep their vectors.                                                *)

\* A vector that was stored is stored as it is.
LEMMA StoredTwice ==
  ASSUME NEW d, NEW v \in Vec
  PROVE  As(d, v) \in Vec /\ As(d, As(d, v)) = As(d, v)
BY HalfFacts DEF As

\* The vectors of the rows.
LEMMA WantFacts ==
  ASSUME ShapeInv, ChunkInv
  PROVE  /\ want \in Rows /\ want \in Seq(Vec) /\ Len(want) \in Nat
         /\ Len(want) <= n /\ originalN <= Len(want) /\ originalN \in Nat /\ n \in 1 .. MaxRows
         /\ \A i \in 1 .. Len(want) : want[i] \in Vec
<1>1. want \in Rows /\ Len(want) <= n /\ originalN <= Len(want) /\ originalN \in 0 .. n
  BY DEF ChunkInv, ShapeInv, TypeOK, MutationOK
<1>2. want \in Seq(Vec)
  BY <1>1, RowsAreSeqs
<1>3. Len(want) \in Nat /\ \A i \in 1 .. Len(want) : want[i] \in Vec
  BY <1>2, LenProperties, ElementOfSeq
<1> QED
  BY <1>1, <1>2, <1>3, ShapeFacts

\* While no row of a chunk is written, every row holds its vector.
LEMMA RestKept ==
  ASSUME ShapeInv, ChunkInv, RowsKept, chunk = <<>>
  PROVE  /\ Len(want) = n
         /\ hasDataset => \A i \in 1 .. n : Stored[i] = As(ds, want[i])
<1>1. Len(chunk) = 0
  BY EmptySeq
<1>2. Len(want) \in Nat /\ Len(want) <= n /\ n \in 1 .. MaxRows /\ MaxRows \in Nat
  BY WantFacts, ShapeFacts
<1>3. Len(want) = n
  BY <1>1, <1>2 DEF ChunkInv
<1> QED
  BY <1>1, <1>3 DEF RowsKept

\* A step after which no row of a chunk is written.
LEMMA KeepAtRest ==
  ASSUME chunk' = <<>>, want' \in Rows, Len(want') = n', n' \in Nat,
         originalN' \in Nat, originalN' <= n',
         hasDataset' => \A i \in 1 .. n' : Stored'[i] = As(ds', want'[i])
  PROVE  ChunkInv' /\ RowsKept'
<1>1. Len(chunk') = 0
  BY EmptySeq
<1>2. \A i \in 1 .. n' : ~(i > Len(want'))
  OBVIOUS
<1>3. ChunkInv'
  BY <1>1, <1>2 DEF ChunkInv
<1>4. RowsKept'
  BY <1>1 DEF RowsKept
<1> QED
  BY <1>3, <1>4

\* Steps that touch no row.
LEMMA KeepFrame ==
  ASSUME ChunkInv, RowsKept, phase' # "write" \/ phase' = phase,
         UNCHANGED <<ds, n, hasDataset, dead, call, originalN, base, chunk, undone, want>>
  PROVE  ChunkInv' /\ RowsKept'
<1>1. Stored' = Stored /\ Standing' = Standing
  BY DEF Stored, Standing
<1>2. ChunkInv'
  BY DEF ChunkInv
<1>3. RowsKept'
  BY <1>1 DEF RowsKept, HeldBy, As
<1> QED
  BY <1>2, <1>3

LEMMA FileFrame ==
  ASSUME FileKept, file' = file
  PROVE  FileKept'
BY DEF FileKept

\* The rows that stand, while the chunk is written.
LEMMA StandingFacts ==
  ASSUME ShapeInv
  PROVE  \A k \in 1 .. Len(chunk) : k \in Standing <=> k > undone \/ chunk[k].kind = "append"
BY ChunkFacts DEF Standing

\* The mutation has undone nothing before its undo.
LEMMA NothingUndone ==
  ASSUME ShapeInv, NEW t \in Threads, writer = t, phase # "undo", phase # "tail"
  PROVE  undone = 0 /\ \A k \in 1 .. Len(chunk) : k \in Standing
<1>1. undone = 0
  BY HolderFacts DEF HolderInv
<1> QED
  BY <1>1, StandingFacts

\* A row is written and noted.
LEMMA NotedKeeps ==
  ASSUME ShapeInv, ChunkInv, RowsKept, NEW t \in Threads, writer = t, phase = "write",
         NEW kind \in {"update", "claim", "append"}, NEW s \in 1 .. n', NEW v \in Vec,
         NEW was \in Vec, Noted(kind, s, v, was), n' \in Nat,
         \/ kind = "append" /\ n' = n + 1 /\ s = n'
         \/ kind # "append" /\ n' = n /\ s \in 1 .. Len(want) /\ was = Stored[s],
         \A k \in 1 .. Len(chunk) : chunk[k].slot # s,
         \A u : As(ds', u) = As(ds, u),
         \A i \in 1 .. n : Stored'[i] = IF i = s THEN As(ds, v) ELSE Stored[i],
         Stored'[s] = As(ds, v),
         UNCHANGED <<hasDataset, call, originalN, base, undone, want>>, phase' = "write",
         call.op = "update" => kind = "update" /\ s = call.slots[base + Len(chunk) + 1],
         call.op = "insert" => s \notin dead',
         dead' \subseteq dead
  PROVE  ChunkInv' /\ RowsKept'
<1>1. /\ n \in 1 .. MaxRows /\ MaxRows \in Nat /\ n \in Nat /\ n <= n'
      /\ Len(want) \in Nat /\ Len(want) <= n /\ want \in Rows
      /\ Len(chunk) \in Nat /\ hasDataset
  BY WantFacts, ChunkFacts, ShapeFacts, HolderFacts
<1> DEFINE m == Len(chunk) + 1
<1>2. /\ Len(chunk') = m
      /\ \A k \in 1 .. Len(chunk) : chunk'[k] = chunk[k]
      /\ chunk'[m].kind = kind /\ chunk'[m].slot = s
      /\ chunk'[m].vec = v /\ chunk'[m].prev = was
  BY <1>1, NotedFacts
<1>2a. DOMAIN chunk' = 1 .. m
  <2>1. chunk' \in Seq(Entry')
    BY <1>1, NotedFacts
  <2> QED
    BY <1>2, <2>1, LenProperties
<1>3. /\ m \in Nat /\ m \in 1 .. m
      /\ \A k \in 1 .. m : k # m => k \in 1 .. Len(chunk)
      /\ \A k \in 1 .. Len(chunk) : k \in 1 .. m /\ k # m
  BY <1>1
<1>4. undone = 0 /\ \A k \in 1 .. Len(chunk) : k \in Standing
  BY NothingUndone
<1> HIDE DEF m
<1>5. \A k \in 1 .. m : k \in Standing'
  BY <1>2a, <1>3, <1>4 DEF Standing
<1>6. ChunkInv'
  <2>1. want' \in Rows /\ Len(want') <= n' /\ originalN' <= Len(want')
    BY <1>1 DEF ChunkInv
  <2>2. ASSUME NEW i \in 1 .. n', i > Len(want')
        PROVE  \E k \in 1 .. Len(chunk') : chunk'[k].slot = i
    <3>1. CASE i = s
      BY <1>2, <1>3, <3>1
    <3>2. CASE i # s
      <4>1. i \in 1 .. n
        BY <1>1, <3>2
      <4>2. PICK k \in 1 .. Len(chunk) : chunk[k].slot = i
        BY <2>2, <4>1 DEF ChunkInv
      <4> QED
        BY <1>2, <1>3, <4>2
    <3> QED
      BY <3>1, <3>2
  <2>3. kind = "append" <=> s > Len(want')
    BY <1>1
  <2>4. \A k \in 1 .. Len(chunk') : chunk'[k].kind = "append" <=> chunk'[k].slot > Len(want')
    BY <1>2, <1>3, <2>3 DEF ChunkInv
  <2>5. \A j, k \in 1 .. Len(chunk') : chunk'[j].slot = chunk'[k].slot => j = k
    BY <1>2, <1>3 DEF ChunkInv
  <2>6. \A k \in 1 .. Len(chunk') :
          /\ call'.op = "update" => chunk'[k].kind = "update" /\ chunk'[k].slot = call'.slots[base' + k]
          /\ call'.op = "insert" => chunk'[k].slot \notin dead'
    <3>1. SUFFICES ASSUME NEW k \in 1 .. Len(chunk')
                   PROVE  /\ call.op = "update" =>
                               chunk'[k].kind = "update" /\ chunk'[k].slot = call.slots[base + k]
                          /\ call.op = "insert" => chunk'[k].slot \notin dead'
      OBVIOUS
    <3>2. CASE k = m
      <4>1. base + m = base + Len(chunk) + 1
        BY <1>1, ChunkFacts DEF m
      <4> QED
        BY <1>2, <3>2, <4>1
    <3>3. CASE k # m
      BY <1>2, <1>3, <3>3 DEF ChunkInv
    <3> QED
      BY <3>2, <3>3
  <2> QED
    BY <2>1, <2>2, <2>4, <2>5, <2>6 DEF ChunkInv
<1>7. RowsKept'
  <2>1. ASSUME NEW i \in 1 .. Len(want'), \A k \in 1 .. Len(chunk') : chunk'[k].slot # i
        PROVE  Stored'[i] = As(ds', want'[i])
    <3>1. i \in 1 .. n /\ i # s /\ \A k \in 1 .. Len(chunk) : chunk[k].slot # i
      BY <1>1, <1>2, <1>3, <2>1
    <3> QED
      BY <1>1, <2>1, <3>1 DEF RowsKept
  <2>2. ASSUME NEW k \in 1 .. Len(chunk')
        PROVE  /\ Stored'[chunk'[k].slot] = As(ds', chunk'[k].vec)
               /\ chunk'[k].kind # "append" => chunk'[k].prev = As(ds', want'[chunk'[k].slot])
    <3>1. CASE k = m
      <4>1. ASSUME kind # "append" PROVE was = As(ds, want[s])
        BY <1>1, <4>1 DEF RowsKept
      <4> QED
        BY <1>2, <3>1, <4>1
    <3>2. CASE k # m
      <4>1. k \in 1 .. Len(chunk) /\ chunk'[k] = chunk[k] /\ chunk[k].slot \in 1 .. n
        BY <1>2, <1>3, <3>2, ChunkFacts
      <4>2. HeldBy(k) = chunk[k].vec
        BY <1>4, <4>1 DEF HeldBy
      <4> QED
        BY <4>1, <4>2 DEF RowsKept
    <3> QED
      BY <3>1, <3>2
  <2>3. \A k \in 1 .. Len(chunk') : HeldBy(k)' = chunk'[k].vec
    BY <1>2, <1>5 DEF HeldBy
  <2> QED
    BY <2>1, <2>2, <2>3 DEF RowsKept
<1> QED
  BY <1>6, <1>7

\* An update has as many rows as it found.
LEMMA UpdateWant ==
  ASSUME ShapeInv, ChunkInv, call.op = "update"
  PROVE  Len(want) = n
<1>1. Len(want) \in Nat /\ Len(want) <= n /\ n \in 1 .. MaxRows /\ MaxRows \in Nat
  BY WantFacts, ShapeFacts
<1>2. SUFFICES ASSUME Len(want) # n PROVE FALSE
  OBVIOUS
<1>3. n \in 1 .. n /\ n > Len(want)
  BY <1>1, <1>2
<1>4. PICK k \in 1 .. Len(chunk) : chunk[k].slot = n
  BY <1>3 DEF ChunkInv
<1>5. chunk[k].kind = "append" /\ chunk[k].kind = "update"
  BY <1>3, <1>4 DEF ChunkInv
<1> QED
  BY <1>5

LEMMA WriteRowKeeps ==
  ASSUME NamesIdsOnce, ShapeInv, ChunkInv, RowsKept, NEW t \in Threads, WriteRow(t)
  PROVE  ChunkInv' /\ RowsKept'
<1> DEFINE s == call.slots[NextRow]
           v == call.vecs[NextRow]
           was == Stored[s]
<1>1. /\ writer = t /\ phase = "write" /\ call.op = "update" /\ ~ChunkFull
      /\ s \in 1 .. n /\ v \in Vec /\ was \in Vec /\ Noted("update", s, v, was)
      /\ \A u : As(ds', u) = As(ds, u)
      /\ \A i \in 1 .. n : Stored'[i] = IF i = s THEN As(ds, v) ELSE Stored[i]
      /\ UNCHANGED <<n, hasDataset, dead, call, phase, originalN, base, undone, want>>
  BY WriteRowFacts
<1>2. Len(want) = n /\ n \in Nat
  BY <1>1, UpdateWant, WantFacts
<1>3. NextRow = base + Len(chunk) + 1 /\ NextRow \in 1 .. Len(call.vecs)
  BY <1>1, NextRowFacts
<1>4. /\ base \in Nat /\ Len(chunk) \in Nat /\ Len(call.vecs) \in Nat
      /\ \A i, j \in 1 .. Len(call.vecs) : call.slots[i] = call.slots[j] => i = j
  BY <1>1, HolderFacts, ChunkFacts DEF HolderInv, Arguments
<1>5. \A k \in 1 .. Len(chunk) : chunk[k].slot # s
  <2>1. SUFFICES ASSUME NEW k \in 1 .. Len(chunk), chunk[k].slot = s PROVE FALSE
    OBVIOUS
  <2>2. chunk[k].slot = call.slots[base + k]
    BY <1>1 DEF ChunkInv
  <2>3. base + k \in 1 .. Len(call.vecs) /\ base + k # NextRow
    BY <1>3, <1>4
  <2> QED
    BY <1>3, <1>4, <2>1, <2>2, <2>3
<1>6. s = call.slots[base + Len(chunk) + 1]
  BY <1>3
<1> HIDE DEF s, v
<1>7. Stored'[s] = As(ds, v) /\ s \in 1 .. n' /\ n' \in Nat
  BY <1>1, <1>2
<1> HIDE DEF was
<1>8. was = Stored[s] /\ s \in 1 .. Len(want) /\ n' = n
  BY <1>1, <1>2 DEF was
<1> QED
  BY <1>1, <1>5, <1>6, <1>7, <1>8, NotedKeeps

LEMMA ClaimRowKeeps ==
  ASSUME ShapeInv, ChunkInv, RowsKept, NEW t \in Threads, ClaimRow(t)
  PROVE  ChunkInv' /\ RowsKept'
<1>1. /\ writer = t /\ phase = "write" /\ call.op = "insert"
      /\ \A u : As(ds', u) = As(ds, u)
      /\ UNCHANGED <<n, hasDataset, call, phase, originalN, base, undone, want>>
  BY ClaimRowFacts
<1>2. PICK s \in dead, v \in Vec, was \in Vec :
        /\ s \in 1 .. n /\ s \in 1 .. originalN /\ was = Stored[s]
        /\ Noted("claim", s, v, was)
        /\ dead' = dead \ {s}
        /\ \A i \in 1 .. n : Stored'[i] = IF i = s THEN As(ds, v) ELSE Stored[i]
  BY ClaimRowFacts
<1>3. s \in 1 .. Len(want) /\ n \in Nat
  BY <1>2, WantFacts
<1>4. \A k \in 1 .. Len(chunk) : chunk[k].slot # s
  BY <1>1, <1>2 DEF ChunkInv
<1>5. Stored'[s] = As(ds, v) /\ s \in 1 .. n' /\ n' \in Nat /\ s \notin dead' /\ dead' \subseteq dead
  BY <1>1, <1>2, <1>3
<1> QED
  BY <1>1, <1>2, <1>3, <1>4, <1>5, NotedKeeps

LEMMA AppendRowKeeps ==
  ASSUME ShapeInv, ChunkInv, RowsKept, NEW t \in Threads, AppendRow(t)
  PROVE  ChunkInv' /\ RowsKept'
<1>1. PICK v \in Vec :
        /\ writer = t /\ phase = "write" /\ call.op = "insert"
        /\ Noted("append", n + 1, v, v) /\ n' = n + 1 /\ n' \in 1 .. MaxRows
        /\ \A u : As(ds', u) = As(ds, u)
        /\ \A i \in 1 .. n : Stored'[i] = Stored[i]
        /\ Stored'[n'] = As(ds, v)
        /\ UNCHANGED <<hasDataset, dead, call, phase, originalN, base, undone, want>>
  BY AppendRowFacts
<1>2. n \in Nat /\ dead \subseteq 1 .. n /\ \A k \in 1 .. Len(chunk) : chunk[k].slot \in 1 .. n
  <2>1. dead \subseteq 1 .. n
    BY <1>1, HolderFacts
  <2>2. \A k \in 1 .. Len(chunk) : chunk[k].slot \in 1 .. n
    BY ChunkFacts
  <2> QED
    BY <2>1, <2>2, WantFacts
<1> DEFINE s == n + 1
<1>3. /\ s \in 1 .. n' /\ s = n' /\ n' \in Nat /\ s \notin dead' /\ dead' \subseteq dead
      /\ \A k \in 1 .. Len(chunk) : chunk[k].slot # s
      /\ \A i \in 1 .. n : Stored'[i] = IF i = s THEN As(ds, v) ELSE Stored[i]
      /\ Stored'[s] = As(ds, v) /\ Noted("append", s, v, v)
  BY <1>1, <1>2
<1> HIDE DEF s
<1>4. n' = n + 1
  BY <1>1
<1> QED
  BY <1>1, <1>3, <1>4, NotedKeeps

\* What a chunk leaves when it stands.
LEMMA StoodFacts ==
  ASSUME ShapeInv, ChunkInv, RowsKept
  PROVE  /\ Stood \in Rows /\ Len(Stood) = n
         /\ \A i \in 1 .. n : i \notin Touched => i \in 1 .. Len(want) /\ Stood[i] = want[i]
         /\ hasDataset => \A i \in 1 .. n : Stored[i] = As(ds, Stood[i])
<1>1. /\ n \in 1 .. MaxRows /\ MaxRows \in Nat /\ n \in Nat
      /\ Len(want) \in Nat /\ Len(want) <= n
      /\ \A i \in 1 .. Len(want) : want[i] \in Vec
  BY WantFacts, ShapeFacts
<1>2. /\ DOMAIN chunk = 1 .. Len(chunk)
      /\ \A k \in 1 .. Len(chunk) : chunk[k].slot \in 1 .. n /\ chunk[k].vec \in Vec
      /\ Standing \subseteq 1 .. Len(chunk)
      /\ \A k \in 1 .. Len(chunk) : chunk[k].kind = "append" => k \in Standing
  BY ChunkFacts, StandingFacts DEF Standing
<1>3. ASSUME NEW i \in Touched
      PROVE  LastOf(i) \in Standing /\ chunk[LastOf(i)].slot = i
  <2>1. PICK k \in Standing : chunk[k].slot = i
    BY <1>3 DEF Touched
  <2>2. k \in Nat /\ k <= k
    BY <1>2, ChunkFacts
  <2>3. \A j \in Standing : chunk[j].slot = i => j <= k
    BY <1>2, <2>1, <2>2 DEF ChunkInv
  <2>4. \E q \in Standing : chunk[q].slot = i /\ \A j \in Standing : chunk[j].slot = i => j <= q
    BY <2>1, <2>3
  <2> QED
    BY <2>4 DEF LastOf
<1>4. ASSUME NEW i \in 1 .. n, i \notin Touched
      PROVE  i \in 1 .. Len(want) /\ Stood[i] = want[i]
  <2>1. i \in 1 .. Len(want)
    <3>1. SUFFICES ASSUME i > Len(want) PROVE FALSE
      BY <1>1
    <3>2. PICK k \in 1 .. Len(chunk) : chunk[k].slot = i
      BY <3>1 DEF ChunkInv
    <3>3. k \in Standing
      BY <1>2, <3>1, <3>2 DEF ChunkInv
    <3> QED
      BY <1>4, <3>2, <3>3 DEF Touched
  <2> QED
    BY <1>4, <2>1 DEF Stood
<1>5. ASSUME NEW i \in Touched, i \in 1 .. n
      PROVE  Stood[i] = chunk[LastOf(i)].vec /\ Stood[i] \in Vec
  BY <1>2, <1>3, <1>5 DEF Stood
<1>6. \A i \in 1 .. n : Stood[i] \in Vec
  BY <1>1, <1>4, <1>5
<1>7. Stood \in Rows /\ Len(Stood) = n
  <2>1. Stood \in [1 .. n -> Vec]
    BY <1>6 DEF Stood
  <2> HIDE DEF Stood
  <2>2. Stood \in Seq(Vec) /\ Len(Stood) = n
    BY <1>1, <2>1, SMT
  <2> QED
    BY <1>1, <2>2, RowsAreSeqs
<1>8. ASSUME hasDataset, NEW i \in 1 .. n PROVE Stored[i] = As(ds, Stood[i])
  <2>1. CASE i \in Touched
    <3>1. LastOf(i) \in 1 .. Len(chunk) /\ LastOf(i) \in Standing /\ chunk[LastOf(i)].slot = i
      BY <1>2, <1>3, <2>1
    <3>2. Stored[i] = As(ds, HeldBy(LastOf(i)))
      BY <3>1 DEF RowsKept
    <3> QED
      BY <1>5, <2>1, <3>1, <3>2 DEF HeldBy
  <2>2. CASE i \notin Touched
    <3>1. i \in 1 .. Len(want) /\ Stood[i] = want[i]
      BY <1>4, <2>2
    <3>2. CASE \A k \in 1 .. Len(chunk) : chunk[k].slot # i
      BY <1>8, <3>1, <3>2 DEF RowsKept
    <3>3. CASE \E k \in 1 .. Len(chunk) : chunk[k].slot = i
      <4>1. PICK k \in 1 .. Len(chunk) : chunk[k].slot = i
        BY <3>3
      <4>2. k \notin Standing
        BY <2>2, <4>1 DEF Touched
      <4>3. Stored[i] = As(ds, HeldBy(k))
        BY <4>1 DEF RowsKept
      <4> QED
        BY <3>1, <4>1, <4>2, <4>3 DEF HeldBy
    <3> QED
      BY <3>2, <3>3
  <2> QED
    BY <2>1, <2>2
<1> QED
  BY <1>4, <1>7, <1>8

LEMMA RepairedKeeps ==
  ASSUME ShapeInv, ChunkInv, RowsKept, NEW t \in Threads, Repaired(t)
  PROVE  ChunkInv' /\ RowsKept'
<1>1. /\ writer = t /\ want' = Stood /\ chunk' = <<>>
      /\ UNCHANGED <<ds, n, hasDataset, originalN>>
  BY DEF Repaired, Doing
<1>2. /\ Stood \in Rows /\ Len(Stood) = n
      /\ hasDataset => \A i \in 1 .. n : Stored[i] = As(ds, Stood[i])
  BY StoodFacts
<1>3. Stored' = Stored
  BY <1>1 DEF Stored
<1>4. n \in Nat /\ originalN \in Nat /\ originalN <= n
  BY WantFacts
<1>5. hasDataset' => \A i \in 1 .. n' : Stored'[i] = As(ds', want'[i])
  BY <1>1, <1>2, <1>3 DEF As
<1> QED
  BY <1>1, <1>2, <1>4, <1>5, KeepAtRest

LEMMA ThrowsKeeps ==
  ASSUME ShapeInv, ChunkInv, RowsKept, NEW t \in Threads, Throws(t)
  PROVE  ChunkInv' /\ RowsKept'
<1>1. /\ want' = Stood /\ chunk' = <<>> /\ originalN' = 0
      /\ UNCHANGED <<ds, n, hasDataset>>
  BY DEF Throws, Return, index
<1>2. /\ Stood \in Rows /\ Len(Stood) = n
      /\ hasDataset => \A i \in 1 .. n : Stored[i] = As(ds, Stood[i])
  BY StoodFacts
<1>3. Stored' = Stored
  BY <1>1 DEF Stored
<1>4. n \in Nat
  BY WantFacts
<1>5. hasDataset' => \A i \in 1 .. n' : Stored'[i] = As(ds', want'[i])
  BY <1>1, <1>2, <1>3 DEF As
<1>6. originalN' \in Nat /\ originalN' <= n' /\ n' \in Nat /\ Len(want') = n'
  BY <1>1, <1>2, <1>4
<1> QED
  BY <1>1, <1>2, <1>5, <1>6, KeepAtRest

LEMMA AcknowledgedKeeps ==
  ASSUME ShapeInv, ChunkInv, RowsKept, NEW t \in Threads, Acknowledged(t)
  PROVE  /\ ChunkInv' /\ RowsKept'
         /\ Len(want) = n /\ hasDataset
         /\ \A i \in 1 .. n : Stored[i] = As(ds, want[i])
<1>1. /\ writer = t /\ phase = "encode" /\ chunk' = <<>> /\ originalN' = 0
      /\ UNCHANGED <<ds, n, hasDataset, want>>
  BY DEF Acknowledged, Doing, Return
<1>2. chunk = <<>> /\ hasDataset
  BY <1>1, HolderFacts DEF HolderInv
<1>3. Len(want) = n /\ \A i \in 1 .. n : Stored[i] = As(ds, want[i])
  BY <1>2, RestKept
<1>4. Stored' = Stored
  BY <1>1 DEF Stored
<1>5. want \in Rows /\ n \in Nat
  BY WantFacts
<1>6. hasDataset' => \A i \in 1 .. n' : Stored'[i] = As(ds', want'[i])
  BY <1>1, <1>3, <1>4 DEF As
<1>7. originalN' \in Nat /\ originalN' <= n' /\ n' \in Nat /\ Len(want') = n' /\ want' \in Rows
  BY <1>1, <1>3, <1>5
<1>8. ChunkInv' /\ RowsKept'
  BY <1>1, <1>6, <1>7, KeepAtRest
<1> QED
  BY <1>2, <1>3, <1>8

\* A row is written back, and holds what it held.
LEMMA UndoRowKeeps ==
  ASSUME ShapeInv, ChunkInv, RowsKept, NEW t \in Threads, UndoRow(t)
  PROVE  ChunkInv' /\ RowsKept'
<1> DEFINE q == undone + 1
           e == chunk[q]
<1>1. /\ writer = t /\ phase = "undo" /\ q \in 1 .. Len(chunk) /\ undone' = q /\ hasDataset
      /\ \A u : As(ds', u) = As(ds, u)
      /\ e.kind = "append" => Stored' = Stored
      /\ e.kind # "append" =>
           \A i \in 1 .. n : Stored'[i] = IF i = e.slot THEN As(ds, e.prev) ELSE Stored[i]
      /\ UNCHANGED <<n, hasDataset, call, phase, originalN, base, chunk, want>>
  BY UndoRowFacts
<1>2. /\ Len(chunk) \in Nat /\ undone \in Nat
      /\ \A k \in 1 .. Len(chunk) : chunk[k].slot \in 1 .. n
      /\ DOMAIN chunk = 1 .. Len(chunk)
  BY ChunkFacts
<1>3. ChunkInv'
  BY <1>1 DEF ChunkInv
<1>4. \A k \in 1 .. Len(chunk) : k # q => (k \in Standing' <=> k \in Standing)
  BY <1>1, <1>2 DEF Standing
<1>5. e.kind = "append" => q \in Standing /\ q \in Standing'
  BY <1>1, <1>2 DEF Standing
<1>6. e.kind # "append" => q \notin Standing'
  BY <1>1, <1>2 DEF Standing
<1> HIDE DEF q, e
<1>7. CASE e.kind = "append"
  <2>1. Stored' = Stored /\ \A k \in 1 .. Len(chunk) : k \in Standing' <=> k \in Standing
    BY <1>1, <1>4, <1>5, <1>7
  <2>2. \A k \in 1 .. Len(chunk) : HeldBy(k)' = HeldBy(k)
    BY <1>1, <2>1 DEF HeldBy
  <2> QED
    BY <1>1, <1>3, <2>1, <2>2 DEF RowsKept
<1>8. CASE e.kind # "append"
  <2>1. /\ e.slot \in 1 .. n /\ e.slot \in 1 .. Len(want) /\ e.prev = As(ds, want[e.slot])
        /\ want[e.slot] \in Vec
    <3>1. e.slot \in 1 .. n /\ Len(want) \in Nat /\ n \in Nat
      BY <1>1, <1>2, WantFacts DEF e
    <3>2. e.slot \in 1 .. Len(want)
      BY <1>1, <1>8, <3>1 DEF ChunkInv, e
    <3> QED
      BY <1>1, <1>8, <3>1, <3>2, WantFacts DEF RowsKept, e
  <2>2. Stored'[e.slot] = As(ds, want[e.slot])
    BY <1>1, <1>8, <2>1, StoredTwice
  <2>3. \A i \in 1 .. n : i # e.slot => Stored'[i] = Stored[i]
    BY <1>1, <1>8
  <2>4. ASSUME NEW k \in 1 .. Len(chunk)
        PROVE  /\ Stored'[chunk[k].slot] = As(ds, HeldBy(k)')
               /\ chunk[k].kind # "append" => chunk[k].prev = As(ds, want[chunk[k].slot])
    <3>1. chunk[k].kind # "append" => chunk[k].prev = As(ds, want[chunk[k].slot])
      BY DEF RowsKept
    <3>2. CASE k = q
      <4>1. HeldBy(k)' = want[e.slot] /\ chunk[k].slot = e.slot
        BY <1>1, <1>6, <1>8, <3>2 DEF HeldBy, e
      <4> QED
        BY <2>2, <3>1, <4>1
    <3>3. CASE k # q
      <4>1. chunk[k].slot # e.slot /\ chunk[k].slot \in 1 .. n
        BY <1>1, <1>2, <3>3 DEF ChunkInv, e
      <4>2. HeldBy(k)' = HeldBy(k)
        BY <1>1, <1>4, <3>3 DEF HeldBy
      <4> QED
        BY <2>3, <3>1, <4>1, <4>2 DEF RowsKept
    <3> QED
      BY <3>2, <3>3
  <2>5. ASSUME NEW i \in 1 .. Len(want), \A k \in 1 .. Len(chunk) : chunk[k].slot # i
        PROVE  Stored'[i] = As(ds, want[i])
    <3>1. i # e.slot /\ i \in 1 .. n
      BY <1>1, <2>5, WantFacts DEF e
    <3> QED
      BY <1>1, <2>3, <2>5, <3>1 DEF RowsKept
  <2> QED
    BY <1>1, <1>3, <2>4, <2>5 DEF RowsKept
<1> QED
  BY <1>7, <1>8

\* Once the chunk is undone, the rows that were there hold their old vectors.
LEMMA UndoneFacts ==
  ASSUME ShapeInv, ChunkInv, RowsKept, undone = Len(chunk), hasDataset
  PROVE  \A i \in 1 .. Len(want) : Stored[i] = As(ds, want[i])
<1>1. SUFFICES ASSUME NEW i \in 1 .. Len(want) PROVE Stored[i] = As(ds, want[i])
  OBVIOUS
<1>2. CASE \A k \in 1 .. Len(chunk) : chunk[k].slot # i
  BY <1>2 DEF RowsKept
<1>3. CASE \E k \in 1 .. Len(chunk) : chunk[k].slot = i
  <2>1. PICK k \in 1 .. Len(chunk) : chunk[k].slot = i
    BY <1>3
  <2>2. chunk[k].kind # "append"
    BY <2>1, WantFacts DEF ChunkInv
  <2>3. k \notin Standing
    BY <2>1, <2>2, StandingFacts, ChunkFacts
  <2> QED
    BY <2>1, <2>3 DEF RowsKept, HeldBy
<1> QED
  BY <1>2, <1>3

LEMMA UpdateFailedKeeps ==
  ASSUME ShapeInv, ChunkInv, RowsKept, NEW t \in Threads, UpdateFailed(t)
  PROVE  ChunkInv' /\ RowsKept'
<1>1. /\ writer = t /\ undone = Len(chunk) /\ call.op = "update"
      /\ chunk' = <<>> /\ originalN' = 0
      /\ UNCHANGED <<ds, n, hasDataset, want>>
  BY DEF UpdateFailed, Doing, Return, index
<1>2. Len(want) = n /\ want \in Rows /\ n \in Nat /\ hasDataset
  BY <1>1, UpdateWant, WantFacts, HolderFacts
<1>3. \A i \in 1 .. n : Stored[i] = As(ds, want[i])
  BY <1>1, <1>2, UndoneFacts
<1>4. Stored' = Stored
  BY <1>1 DEF Stored
<1>5. hasDataset' => \A i \in 1 .. n' : Stored'[i] = As(ds', want'[i])
  BY <1>1, <1>3, <1>4 DEF As
<1>6. originalN' \in Nat /\ originalN' <= n' /\ n' \in Nat /\ Len(want') = n' /\ want' \in Rows
  BY <1>1, <1>2
<1> QED
  BY <1>1, <1>5, <1>6, KeepAtRest

LEMMA InsertFailedKeeps ==
  ASSUME ShapeInv, ChunkInv, RowsKept, NEW t \in Threads, InsertFailed(t)
  PROVE  /\ ChunkInv' /\ RowsKept'
         /\ want' = SubSeq(want, 1, originalN) /\ Len(want') = originalN
         /\ originalN \in Nat /\ originalN <= Len(want) /\ Len(want) \in Nat
         /\ \A i \in 1 .. originalN : want'[i] = want[i]
<1>1. /\ writer = t /\ undone = Len(chunk) /\ hasDataset
      /\ n' = originalN /\ n' \in 1 .. n
      /\ \A u : As(ds', u) = As(ds, u)
      /\ \A i \in 1 .. n' : Stored'[i] = Stored[i]
      /\ Return /\ want' = SubSeq(want, 1, originalN)
      /\ UNCHANGED hasDataset
  BY InsertFailedFacts
<1>2. want \in Rows /\ originalN <= Len(want) /\ originalN \in Nat /\ Len(want) \in Nat
  BY WantFacts
<1>3. originalN \in 1 .. Len(want)
  BY <1>1, <1>2
<1>4. /\ want' \in Rows /\ Len(want') = originalN
      /\ \A i \in 1 .. originalN : want'[i] = want[i]
  BY <1>1, <1>2, <1>3, CutRows
<1>5. \A i \in 1 .. Len(want) : Stored[i] = As(ds, want[i])
  BY <1>1, UndoneFacts
<1>6. \A i \in 1 .. n' : Stored'[i] = As(ds', want'[i])
  BY <1>1, <1>2, <1>3, <1>4, <1>5
<1>7. /\ chunk' = <<>> /\ originalN' \in Nat /\ originalN' <= n' /\ n' \in Nat
      /\ Len(want') = n'
  BY <1>1, <1>2, <1>4 DEF Return
<1>8. ChunkInv' /\ RowsKept'
  BY <1>4, <1>6, <1>7, KeepAtRest
<1> QED
  BY <1>1, <1>2, <1>4, <1>8

LEMMA BeginKeeps ==
  ASSUME ShapeInv, ChunkInv, RowsKept, NEW t \in Threads, Begin(t)
  PROVE  ChunkInv' /\ RowsKept'
<1>1. /\ writer = NoOne /\ originalN' = n
      /\ UNCHANGED <<ds, n, hasDataset, chunk, want>>
  BY BeginFacts
<1>2. chunk = <<>>
  BY <1>1, RestFacts
<1>3. /\ Len(want) = n /\ want \in Rows /\ n \in Nat
      /\ hasDataset => \A i \in 1 .. n : Stored[i] = As(ds, want[i])
  BY <1>2, RestKept, WantFacts
<1>4. Stored' = Stored
  BY <1>1 DEF Stored
<1>5. hasDataset' => \A i \in 1 .. n' : Stored'[i] = As(ds', want'[i])
  BY <1>1, <1>3, <1>4 DEF As
<1> QED
  BY <1>1, <1>2, <1>3, <1>5, KeepAtRest

LEMMA DeleteKeeps ==
  ASSUME ShapeInv, ChunkInv, RowsKept, NEW t \in Threads, NEW s \in 1 .. MaxRows, Delete(t, s)
  PROVE  ChunkInv' /\ RowsKept'
<1>1. writer = NoOne /\ UNCHANGED <<ds, n, hasDataset, mutation, want>>
  BY DEF Delete
<1>2. chunk = <<>> /\ chunk' = <<>> /\ originalN' = 0
  BY <1>1, RestFacts DEF mutation
<1>3. /\ Len(want) = n /\ want \in Rows /\ n \in Nat
      /\ hasDataset => \A i \in 1 .. n : Stored[i] = As(ds, want[i])
  BY <1>2, RestKept, WantFacts
<1>4. Stored' = Stored
  BY <1>1 DEF Stored
<1>5. hasDataset' => \A i \in 1 .. n' : Stored'[i] = As(ds', want'[i])
  BY <1>1, <1>3, <1>4 DEF As
<1>6. originalN' \in Nat /\ originalN' <= n'
  BY <1>1, <1>2, <1>3
<1> QED
  BY <1>1, <1>2, <1>3, <1>5, <1>6, KeepAtRest

LEMMA DetachKeeps ==
  ASSUME ShapeInv, ChunkInv, RowsKept, NEW t \in Threads, Detach(t)
  PROVE  ChunkInv' /\ RowsKept'
<1>1. writer = NoOne /\ hasDataset' = FALSE /\ UNCHANGED <<n, mutation, want>>
  BY DEF Detach
<1>2. chunk = <<>> /\ chunk' = <<>> /\ originalN' = 0
  BY <1>1, RestFacts DEF mutation
<1>3. Len(want) = n /\ want \in Rows /\ n \in Nat
  BY <1>2, RestKept, WantFacts
<1>4. originalN' \in Nat /\ originalN' <= n'
  BY <1>1, <1>2, <1>3
<1> QED
  BY <1>1, <1>2, <1>3, <1>4, KeepAtRest

LEMMA AttachKeeps ==
  ASSUME Orderly, ShapeInv, NEW t \in Threads, NEW rows \in [1 .. n -> Vec], Attach(t, rows)
  PROVE  ChunkInv' /\ RowsKept'
<1>1. writer = NoOne /\ want' = rows /\ UNCHANGED <<n, mutation>>
  BY DEF Attach
<1>2. chunk' = <<>> /\ originalN' = 0
  BY <1>1, RestFacts DEF mutation
<1>3. rows \in Rows /\ Len(rows) = n /\ ds'.x = rows /\ ds'.x # <<>>
  BY AttachFacts
<1>4. Stored' = rows /\ \A v : As(ds', v) = v
  BY <1>3 DEF Stored, As
<1>5. n \in Nat
  BY ShapeFacts
<1>6. \A i \in 1 .. n' : Stored'[i] = As(ds', want'[i])
  BY <1>1, <1>4
<1>7. originalN' \in Nat /\ originalN' <= n' /\ n' \in Nat /\ Len(want') = n' /\ want' \in Rows
  BY <1>1, <1>2, <1>3, <1>5
<1> QED
  BY <1>2, <1>6, <1>7, KeepAtRest

LEMMA SaveKeeps ==
  ASSUME SavesAtRest, ShapeInv, ChunkInv, RowsKept,
         NEW t \in Threads, NEW include \in BOOLEAN, Save(t, include)
  PROVE  FileKept'
<1>1. /\ file'.n = n /\ file'.want = want
      /\ file'.f16 <=> ds.x = <<>>
      /\ file'.rows # <<>> => hasDataset /\ file'.rows = Stored
      /\ writer = NoOne
  BY SaveFacts
<1>2. chunk = <<>>
  BY <1>1, RestFacts
<1>3. /\ Len(want) = n /\ want \in Rows
      /\ hasDataset => \A i \in 1 .. n : Stored[i] = As(ds, want[i])
  BY <1>2, RestKept, WantFacts
<1>4. CASE file'.rows = <<>>
  BY <1>1, <1>3, <1>4, EmptySeq DEF FileKept
<1>5. CASE file'.rows # <<>>
  <2>1. hasDataset /\ file'.rows = Stored /\ Len(Stored) = n
    BY <1>1, <1>5, ShapeFacts
  <2> QED
    BY <1>1, <1>3, <2>1 DEF FileKept, As
<1> QED
  BY <1>4, <1>5

LEMMA LoadKeeps ==
  ASSUME ShapeInv, FileKept, Load
  PROVE  ChunkInv' /\ RowsKept'
<1>1. /\ n' = file.n /\ want' = file.want /\ writer = NoOne
      /\ UNCHANGED mutation
      /\ file.saved
      /\ hasDataset' <=> file.rows # <<>>
      /\ file.rows # <<>> =>
           /\ Holds(ds', file.n)
           /\ \A i \in 1 .. file.n :
                \/ file.f16 /\ ds'.x = <<>> /\ Stored'[i] = file.rows[i]
                \/ ~file.f16 /\ Stored'[i] = As(ds', file.rows[i])
  BY LoadFacts
<1>2. chunk' = <<>> /\ originalN' = 0
  BY <1>1, RestFacts DEF mutation
<1>3. /\ file.want \in Rows /\ Len(file.want) = file.n
      /\ \A i \in 1 .. Len(file.rows) :
           file.rows[i] = IF file.f16 THEN Half[file.want[i]] ELSE file.want[i]
  BY <1>1 DEF FileKept
<1>4. ASSUME hasDataset', NEW i \in 1 .. file.n
      PROVE  Stored'[i] = As(ds', want'[i])
  <2>1. Len(file.rows) = file.n /\ file.rows # <<>>
    BY <1>1, <1>4 DEF ShapeInv, FileInv
  <2>2. file.rows[i] = IF file.f16 THEN Half[file.want[i]] ELSE file.want[i]
    BY <1>3, <2>1
  <2>3. CASE file.f16
    <3>1. ds'.x = <<>> /\ Stored'[i] = file.rows[i]
      BY <1>1, <2>1, <2>3
    <3> QED
      BY <1>1, <2>2, <2>3, <3>1 DEF As
  <2>4. CASE ~file.f16
    BY <1>1, <2>1, <2>2, <2>4
  <2> QED
    BY <2>3, <2>4
<1>5. file.n \in Nat
  BY <1>1, CagraStorageAssumption DEF ShapeInv, FileInv
<1>6. originalN' \in Nat /\ originalN' <= n' /\ n' \in Nat /\ Len(want') = n' /\ want' \in Rows
  BY <1>1, <1>2, <1>3, <1>5
<1> QED
  BY <1>1, <1>2, <1>4, <1>6, KeepAtRest

\* Every row keeps its vector from step to step.
LEMMA KeepStep ==
  ASSUME Orderly, SavesAtRest, NamesIdsOnce, ShapeInv, KeepInv, [Next]_vars
  PROVE  KeepInv'
<1> ChunkInv /\ RowsKept /\ FileKept
  BY DEF KeepInv
<1> USE DEF KeepInv
<1>1. ASSUME UNCHANGED <<index, mutation, want, file>> PROVE KeepInv'
  <2>1. UNCHANGED <<ds, n, hasDataset, dead, call, originalN, base, chunk, undone, want, phase>>
    BY <1>1 DEF index, mutation
  <2> QED
    BY <1>1, <2>1, KeepFrame, FileFrame
<1>2. ASSUME NEW t \in Threads,
             \/ MayEnter(t) /\ \E vecs \in Requests(Vec) :
                  \/ \E slots \in [DOMAIN vecs -> 1 .. MaxRows] : EnterUpdate(t, slots, vecs)
                  \/ \E ids \in BOOLEAN : EnterInsert(t, vecs, ids)
             \/ EnterQuantize(t) \/ EnterCalibrate(t)
      PROVE  KeepInv'
  <2>1. \E c : Enter(t, c)
    BY <1>2 DEF EnterUpdate, EnterInsert, EnterQuantize, EnterCalibrate
  <2> QED
    BY <1>1, <2>1 DEF Enter
<1>3. ASSUME NEW t \in Threads, Reject(t) \/ Calibrate(t) PROVE KeepInv'
  BY <1>1, <1>3 DEF Reject, Calibrate
<1>4. ASSUME NEW t \in Threads, Quantize(t) PROVE KeepInv'
  <2>1. UNCHANGED <<ds, n, hasDataset, dead, mutation, want, file>>
    BY <1>4 DEF Quantize
  <2>2. UNCHANGED <<ds, n, hasDataset, dead, call, originalN, base, chunk, undone, want, phase>>
    BY <2>1 DEF mutation
  <2> QED
    BY <2>1, <2>2, KeepFrame, FileFrame
<1>5. ASSUME NEW t \in Threads, EndWrite(t) \/ RepairFails(t) \/ EndUndo(t) PROVE KeepInv'
  <2>1. /\ UNCHANGED <<ds, n, hasDataset, dead, call, originalN, base, chunk, undone, want>>
        /\ phase' # "write" /\ file' = file
    BY <1>5 DEF EndWrite, RepairFails, EndUndo, index
  <2> QED
    BY <2>1, KeepFrame, FileFrame
<1>6. ASSUME NEW t \in Threads,
             \/ Begin(t) \/ WriteRow(t) \/ ClaimRow(t) \/ AppendRow(t)
             \/ Repaired(t) \/ Acknowledged(t)
             \/ UndoRow(t) \/ UpdateFailed(t) \/ InsertFailed(t) \/ Throws(t)
      PROVE  KeepInv'
  <2>1. file' = file
    BY <1>6 DEF Begin, WriteRow, ClaimRow, AppendRow, Repaired, Acknowledged, UndoRow,
                UpdateFailed, InsertFailed, Throws
  <2>2. ChunkInv' /\ RowsKept'
    BY <1>6, BeginKeeps, WriteRowKeeps, ClaimRowKeeps, AppendRowKeeps, RepairedKeeps,
       AcknowledgedKeeps, UndoRowKeeps, UpdateFailedKeeps, InsertFailedKeeps, ThrowsKeeps
  <2> QED
    BY <2>1, <2>2, FileFrame
<1>7. ASSUME NEW t \in Threads,
             \/ \E s \in 1 .. MaxRows : Delete(t, s)
             \/ Detach(t)
             \/ \E rows \in [1 .. n -> Vec] : Attach(t, rows)
      PROVE  KeepInv'
  <2>1. file' = file
    BY <1>7 DEF Delete, Detach, Attach
  <2>2. ChunkInv' /\ RowsKept'
    BY <1>7, DeleteKeeps, DetachKeeps, AttachKeeps
  <2> QED
    BY <2>1, <2>2, FileFrame
<1>8. ASSUME NEW t \in Threads, NEW include \in BOOLEAN, Save(t, include)
      PROVE  KeepInv'
  <2>1. UNCHANGED <<ds, n, hasDataset, dead, mutation, want>>
    BY <1>8, SaveFacts
  <2>2. UNCHANGED <<call, originalN, base, chunk, undone, phase>>
    BY <2>1 DEF mutation
  <2> QED
    BY <1>8, <2>1, <2>2, SaveKeeps, KeepFrame
<1>9. ASSUME Load PROVE KeepInv'
  <2>1. file' = file
    BY <1>9 DEF Load
  <2> QED
    BY <1>9, <2>1, LoadKeeps, FileFrame
<1>10. ASSUME UNCHANGED vars PROVE KeepInv'
  BY <1>1, <1>10 DEF vars
<1> QED
  BY <1>2, <1>3, <1>4, <1>5, <1>6, <1>7, <1>8, <1>9, <1>10, Zenon DEF Next

LEMMA KeepInit ==
  ASSUME Init
  PROVE  KeepInv
<1>1. PICK rows \in [1 .. InitRows -> Vec], storage \in Storages :
        /\ ds = Built(rows, storage)
        /\ n = InitRows /\ originalN = 0 /\ chunk = <<>> /\ file = NoFile /\ want = rows
  BY Zenon DEF Init
<1>2. InitRows \in Nat /\ InitRows >= 1 /\ InitRows <= MaxRows /\ MaxRows \in Nat
  BY CagraStorageAssumption
<1>3. rows \in Seq(Vec) /\ Len(rows) = InitRows
  BY <1>2, SMT
<1>4. rows \in Rows /\ rows # <<>>
  BY <1>2, <1>3, RowsAreSeqs, EmptySeq
<1>5. \A i \in 1 .. n : RowsOf(ds)[i] = As(ds, rows[i])
  BY <1>1, <1>3, <1>4, BuiltHolds
<1>6. Stored = RowsOf(ds) /\ Len(chunk) = 0 /\ ~file.saved
  BY <1>1, EmptySeq DEF Stored, RowsOf, NoFile
<1>7. ChunkInv
  <2>1. \A i \in 1 .. n : ~(i > Len(want))
    BY <1>1, <1>2, <1>3
  <2>2. want \in Rows /\ Len(want) <= n /\ originalN <= Len(want)
    BY <1>1, <1>2, <1>3, <1>4
  <2> QED
    BY <1>6, <2>1, <2>2 DEF ChunkInv
<1>8. RowsKept
  BY <1>1, <1>3, <1>5, <1>6 DEF RowsKept
<1> QED
  BY <1>6, <1>7, <1>8 DEF KeepInv, FileKept

LEMMA KeepAlways ==
  ASSUME Orderly, SavesAtRest, NamesIdsOnce
  PROVE  Spec => [](ShapeInv /\ KeepInv)
<1>1. Init => ShapeInv /\ KeepInv
  BY ShapeInit, KeepInit
<1>2. ShapeInv /\ KeepInv /\ [Next]_vars => (ShapeInv /\ KeepInv)'
  BY ShapeStep, KeepStep
<1> QED
  BY <1>1, <1>2, PTL DEF Spec

\* Between mutations every row holds the vector of the last chunk that stands, with calls
\* of any number of chunks, of which any may fail, and repairs that throw: a chunk that
\* failed has left no trace, whether it overwrote, claimed or appended its rows, and a
\* file saved between mutations brings back the same rows.
THEOREM RowsAlwaysKeepTheirVectors ==
  ASSUME Orderly, SavesAtRest, NamesIdsOnce
  PROVE  Spec => []RowsKeepTheirVectors
<1>1. ASSUME ShapeInv, KeepInv PROVE RowsKeepTheirVectors
  <2>1. SUFFICES ASSUME writer = NoOne, Present
                 PROVE  /\ Len(want) = n
                        /\ \A i \in 1 .. n :
                             Stored[i] = IF ds.x # <<>> THEN want[i] ELSE Half[want[i]]
    BY DEF RowsKeepTheirVectors
  <2>2. hasDataset /\ chunk = <<>>
    BY <1>1, <2>1, ShapeFacts, RestFacts
  <2>3. Len(want) = n /\ \A i \in 1 .. n : Stored[i] = As(ds, want[i])
    BY <1>1, <2>2, RestKept DEF KeepInv
  <2> QED
    BY <2>3 DEF As
<1> QED
  BY <1>1, KeepAlways, PTL

-----------------------------------------------------------------------------
(* Codes follow the rows.                                                  *)

\* Codes made of all the rows, as they are stored, are those of the vectors of the rows.
LEMMA StoredEncode ==
  ASSUME NEW rows \in Seq(Vec), NEW d, NEW cs, NEW out, Len(cs) = Len(rows),
         \A i \in 1 .. Len(rows) : cs[i] = As(d, rows[i])
  PROVE  Encode(cs, rows, out)
<1>1. Len(rows) \in Nat
  BY LenProperties
<1>2. ASSUME NEW i \in 1 .. Len(rows) PROVE i <= Len(cs) /\ Half[cs[i]] = Half[rows[i]]
  <2>1. rows[i] \in Vec
    BY ElementOfSeq
  <2>2. Half[cs[i]] = Half[rows[i]]
    BY <2>1, HalfFacts DEF As
  <2> QED
    BY <1>1, <2>2
<1> QED
  BY <1>2 DEF Encode

LEMMA AcknowledgedEncodes ==
  ASSUME ShapeInv, ChunkInv, RowsKept, NEW t \in Threads, Acknowledged(t)
  PROVE  Encode(codes', want', unencoded' \cup done')
<1>1. codes' = Encoded(Stored) /\ want' = want
  BY DEF Acknowledged
<1>2. Len(want) = n /\ hasDataset /\ \A i \in 1 .. n : Stored[i] = As(ds, want[i])
  BY AcknowledgedKeeps
<1>3. Len(Stored) = n /\ want \in Seq(Vec)
  BY <1>2, ShapeFacts, WantFacts
<1>4. Encode(Stored, want, unencoded' \cup done')
  BY <1>2, <1>3, StoredEncode
<1> QED
  BY <1>1, <1>4 DEF Encoded, Encode

LEMMA QuantizeEncodes ==
  ASSUME ShapeInv, ChunkInv, RowsKept, NEW t \in Threads, Quantize(t),
         Encode(codes, want, unencoded \cup done)
  PROVE  Encode(codes', want', unencoded' \cup done')
<1>1. /\ Lock(t, "quantize") /\ want' = want /\ UNCHANGED mutation
      /\ \/ codes' = Stored
         \/ codes' = codes /\ unencoded' = unencoded
  BY DEF Quantize
<1>2. hasDataset /\ writer = NoOne
  BY <1>1, LockFacts
<1>3. chunk = <<>>
  BY <1>2, RestFacts
<1>4. Len(want) = n /\ \A i \in 1 .. n : Stored[i] = As(ds, want[i])
  BY <1>2, <1>3, RestKept
<1>5. Len(Stored) = n /\ want \in Seq(Vec)
  BY <1>2, ShapeFacts, WantFacts
<1>6. Encode(Stored, want, unencoded' \cup done')
  BY <1>4, <1>5, StoredEncode
<1>7. done' = done
  BY <1>1 DEF mutation
<1> QED
  BY <1>1, <1>6, <1>7

\* Rows of a chunk that stands, acknowledged or not, are left out until the codes are
\* made; the others are as they were.
LEMMA StandsEncodes ==
  ASSUME ShapeInv, ChunkInv, RowsKept, Encode(codes, want, unencoded \cup done),
         codes' = codes, want' = Stood,
         unencoded \cup done \cup Touched \subseteq unencoded' \cup done'
  PROVE  Encode(codes', want', unencoded' \cup done')
<1>1. /\ Len(Stood) = n
      /\ \A i \in 1 .. n : i \notin Touched => i \in 1 .. Len(want) /\ Stood[i] = want[i]
  BY StoodFacts
<1>2. SUFFICES ASSUME codes # <<>>, NEW i \in 1 .. n, i \notin unencoded' \cup done'
               PROVE  i <= Len(codes) /\ Half[codes[i]] = Half[Stood[i]]
  BY <1>1 DEF Encode
<1>3. i \in 1 .. Len(want) /\ Stood[i] = want[i] /\ i \notin unencoded \cup done
  BY <1>1, <1>2
<1> QED
  BY <1>2, <1>3 DEF Encode

LEMMA RepairedEncodes ==
  ASSUME ShapeInv, ChunkInv, RowsKept, NEW t \in Threads, Repaired(t) \/ Throws(t),
         Encode(codes, want, unencoded \cup done)
  PROVE  Encode(codes', want', unencoded' \cup done')
<1>1. codes' = codes /\ want' = Stood
  BY DEF Repaired, Throws, index
<1>2. unencoded \cup done \cup Touched \subseteq unencoded' \cup done'
  <2>1. CASE Repaired(t)
    <3>1. done' = done \cup Touched /\ unencoded' = unencoded
      BY <2>1 DEF Repaired
    <3> QED
      BY <3>1
  <2>2. CASE Throws(t)
    <3>1. unencoded' = unencoded \cup done \cup Touched
      BY <2>2 DEF Throws
    <3> QED
      BY <3>1
  <2> QED
    BY <2>1, <2>2
<1> QED
  BY <1>1, <1>2, StandsEncodes

\* Update returns without making the codes of the chunks that stand.
LEMMA UpdateFailedEncodes ==
  ASSUME NEW t \in Threads, UpdateFailed(t), Encode(codes, want, unencoded \cup done)
  PROVE  Encode(codes', want', unencoded' \cup done')
<1>1. codes' = codes /\ want' = want /\ unencoded' = unencoded \cup done
  BY DEF UpdateFailed, index
<1>2. unencoded \cup done \subseteq unencoded' \cup done'
  BY <1>1
<1> QED
  BY <1>1, <1>2 DEF Encode

\* So does ExtendEx, whose appended rows are gone.
LEMMA InsertFailedEncodes ==
  ASSUME ShapeInv, ChunkInv, RowsKept, NEW t \in Threads, InsertFailed(t),
         Encode(codes, want, unencoded \cup done)
  PROVE  Encode(codes', want', unencoded' \cup done')
<1>1. /\ codes' = codes
      /\ unencoded' = (unencoded \cup done) \cap 1 .. originalN
  BY DEF InsertFailed
<1>2. /\ Len(want') = originalN
      /\ originalN \in Nat /\ originalN <= Len(want) /\ Len(want) \in Nat
      /\ \A i \in 1 .. originalN : want'[i] = want[i]
  BY InsertFailedKeeps
<1>3. SUFFICES ASSUME codes # <<>>, NEW i \in 1 .. originalN, i \notin unencoded' \cup done'
               PROVE  i <= Len(codes) /\ Half[codes[i]] = Half[want'[i]]
  BY <1>1, <1>2 DEF Encode
<1>4. i \in 1 .. Len(want) /\ i \notin unencoded \cup done /\ want'[i] = want[i]
  BY <1>1, <1>2, <1>3
<1> QED
  BY <1>3, <1>4 DEF Encode

LEMMA CodesStep ==
  ASSUME Orderly, SavesAtRest, AttachesItsOwn, ShapeInv, KeepInv, CodesInv, [Next]_vars
  PROVE  CodesInv'
<1>0. ChunkInv /\ RowsKept /\ Encode(codes, want, unencoded \cup done)
  BY DEF KeepInv, CodesInv
<1>1. ASSUME UNCHANGED <<codes, want, unencoded, done, file>> PROVE CodesInv'
  BY <1>1 DEF CodesInv, Encode
<1>2. ASSUME Encode(codes', want', unencoded' \cup done'), file' = file PROVE CodesInv'
  BY <1>2 DEF CodesInv, Encode
<1>3. ASSUME NEW t \in Threads,
             \/ MayEnter(t) /\ \E vecs \in Requests(Vec) :
                  \/ \E slots \in [DOMAIN vecs -> 1 .. MaxRows] : EnterUpdate(t, slots, vecs)
                  \/ \E ids \in BOOLEAN : EnterInsert(t, vecs, ids)
             \/ EnterQuantize(t) \/ EnterCalibrate(t)
      PROVE  CodesInv'
  <2>1. \E c : Enter(t, c)
    BY <1>3 DEF EnterUpdate, EnterInsert, EnterQuantize, EnterCalibrate
  <2> QED
    BY <1>1, <2>1 DEF Enter, index, mutation
<1>4. ASSUME NEW t \in Threads,
             \/ Reject(t) \/ Calibrate(t)
             \/ \E s \in 1 .. MaxRows : Delete(t, s)
             \/ Detach(t)
      PROVE  CodesInv'
  BY <1>1, <1>4 DEF Reject, Calibrate, Delete, Detach, index, mutation
<1>5. ASSUME NEW t \in Threads,
             \/ Begin(t) \/ WriteRow(t) \/ ClaimRow(t) \/ AppendRow(t)
             \/ EndWrite(t) \/ RepairFails(t) \/ UndoRow(t) \/ EndUndo(t)
      PROVE  CodesInv'
  BY <1>1, <1>5 DEF Begin, WriteRow, ClaimRow, AppendRow, EndWrite, RepairFails, UndoRow,
                    EndUndo, index
<1>6. ASSUME NEW t \in Threads,
             \/ Repaired(t) \/ Throws(t) \/ Acknowledged(t) \/ Quantize(t)
             \/ UpdateFailed(t) \/ InsertFailed(t)
      PROVE  CodesInv'
  <2>1. file' = file
    BY <1>6 DEF Repaired, Throws, Acknowledged, Quantize, UpdateFailed, InsertFailed
  <2>2. Encode(codes', want', unencoded' \cup done')
    BY <1>0, <1>6, RepairedEncodes, AcknowledgedEncodes, QuantizeEncodes, UpdateFailedEncodes,
       InsertFailedEncodes
  <2> QED
    BY <1>2, <2>1, <2>2
<1>7. ASSUME NEW t \in Threads, NEW rows \in [1 .. n -> Vec], Attach(t, rows) PROVE CodesInv'
  <2>1. UNCHANGED <<codes, want, unencoded, mutation, file>>
    BY <1>7 DEF Attach, AttachesItsOwn
  <2> QED
    BY <1>1, <2>1 DEF mutation
<1>8. ASSUME NEW t \in Threads, NEW include \in BOOLEAN, Save(t, include) PROVE CodesInv'
  <2>1. /\ file'.codes = codes /\ file'.want = want /\ file'.unencoded = unencoded
        /\ UNCHANGED <<codes, want, unencoded, mutation>> /\ writer = NoOne
    BY <1>8, SaveFacts
  <2>2. done = {} /\ done' = {}
    BY <2>1, RestFacts DEF mutation
  <2>3. Encode(codes, want, unencoded)
    BY <1>0, <2>2 DEF Encode
  <2> QED
    BY <2>1, <2>2, <2>3 DEF CodesInv, Encode
<1>9. ASSUME Load PROVE CodesInv'
  <2>1. /\ file.saved /\ codes' = file.codes /\ want' = file.want /\ file' = file
        /\ unencoded' = file.unencoded /\ UNCHANGED mutation /\ writer = NoOne
    BY <1>9, LoadFacts
  <2>2. done' = {}
    BY <2>1, RestFacts DEF mutation
  <2>3. Encode(file.codes, file.want, file.unencoded)
    BY <2>1 DEF CodesInv
  <2> QED
    BY <2>1, <2>2, <2>3 DEF CodesInv, Encode
<1>10. ASSUME UNCHANGED vars PROVE CodesInv'
  BY <1>1, <1>10 DEF vars, index, mutation
<1> QED
  BY <1>3, <1>4, <1>5, <1>6, <1>7, <1>8, <1>9, <1>10, Zenon DEF Next

\* Between mutations the codes of a quantized index were made of the vectors of their rows,
\* detached or not: all but the rows changed by chunks that stand of calls that failed or
\* threw, which return before the codes are made, until a mutation or Quantize succeeds.
THEOREM CodesAlwaysEncodeTheRows ==
  ASSUME Orderly, SavesAtRest, NamesIdsOnce, AttachesItsOwn
  PROVE  Spec => []CodesEncodeTheRows
<1>1. Init => ShapeInv /\ KeepInv /\ CodesInv
  <2>1. Init => codes = <<>> /\ ~file.saved
    BY DEF Init, NoFile
  <2> QED
    BY <2>1, ShapeInit, KeepInit DEF CodesInv, Encode
<1>2. ShapeInv /\ KeepInv /\ CodesInv /\ [Next]_vars => (ShapeInv /\ KeepInv /\ CodesInv)'
  BY ShapeStep, KeepStep, CodesStep
<1>3. ASSUME ShapeInv, KeepInv, CodesInv PROVE CodesEncodeTheRows
  <2>1. SUFFICES ASSUME writer = NoOne, codes # <<>>, NEW i \in (1 .. n) \ unencoded
                 PROVE  i <= Len(codes) /\ Half[codes[i]] = Half[want[i]]
    BY DEF CodesEncodeTheRows
  <2>2. chunk = <<>> /\ done = {}
    BY <1>3, <2>1, RestFacts
  <2>3. Len(want) = n
    BY <1>3, <2>2, RestKept DEF KeepInv
  <2> QED
    BY <1>3, <2>1, <2>2, <2>3 DEF CodesInv, Encode
<1> QED
  BY <1>1, <1>2, <1>3, PTL DEF Spec

-----------------------------------------------------------------------------
(* Loading.                                                                *)

\* Whatever was saved, with a mutation under way or not, loading an index changes no vector
\* of the file, unless the mode is "force".
THEOREM LoadingKeepsVectors ==
  ASSUME Orderly
  PROVE  Spec => LoadKeepsVectors
<1> DEFINE Keeps == F16Mode = "force" \/ \A i \in DOMAIN file.rows : Stored'[i] = file.rows[i]
<1>1. ASSUME ShapeInv, Load PROVE Keeps
  <2>1. SUFFICES ASSUME F16Mode # "force", NEW i \in DOMAIN file.rows
                 PROVE  Stored'[i] = file.rows[i]
    OBVIOUS
  <2> DEFINE r == file.rows
             d == [NoRows EXCEPT !.x = r]
  <2>2. /\ file.rows \in Rows
        /\ file.rows # <<>> => Len(file.rows) = file.n
    BY <1>1 DEF ShapeInv, FileInv, Load
  <2>3. DOMAIN r = 1 .. Len(r) /\ r \in Seq(Vec)
    BY <2>2, RowsAreSeqs, LenProperties
  <2>4. r # <<>>
    BY <2>1, <2>3, EmptySeq
  <2>5. i \in 1 .. file.n
    BY <2>1, <2>2, <2>3, <2>4
  <2>6. CASE file.f16
    BY <1>1, <2>4, <2>5, <2>6, LoadFacts
  <2>7. CASE ~file.f16
    <3>1. ds' = Finalized(d, FALSE) /\ Stored'[i] = As(ds', r[i])
      BY <1>1, <2>4, <2>5, <2>7, LoadFacts DEF Load
    <3>2. d.x = r /\ (Finalized(d, FALSE) # d => Lossless(d))
      BY <2>1, <2>2, <2>4, FinalizedHolds
    <3>3. CASE ds' = d
      BY <2>4, <3>1, <3>2, <3>3 DEF As
    <3>4. CASE ds' # d
      BY <2>1, <3>1, <3>2, <3>4 DEF Lossless, As
    <3> QED
      BY <3>3, <3>4
  <2> QED
    BY <2>6, <2>7
<1>2. ShapeInv /\ [Next]_vars => [Load => Keeps]_vars
  BY <1>1
<1> QED
  BY <1>2, ShapeAlways, PTL DEF Spec, LoadKeepsVectors

=============================================================================
