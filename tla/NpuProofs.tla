----------------------------- MODULE NpuProofs -----------------------------
(***************************************************************************)
(* Theorems about what runs on the NPU.                                    *)
(*                                                                         *)
(* The NPU requests, for every number of threads, buffers, calls and       *)
(* rewrites, and every menu of calls: a batch of ADC chunks writes all of  *)
(* its answers or none (BatchAllOrNothing), and, if callers keep to the    *)
(* comment above content_fp, a call that succeeds gives the answers of its *)
(* own operands (AnswersAreOwn).  The proof goes over what each thread has *)
(* run so far (Progress), what a request holds while its lock is held      *)
(* (Filling), and what the fingerprints of a request say about its tensors *)
(* (SlotsInv).  The chunks of a batch are those of AdcPlan, which tile the *)
(* output for tasks of any number and size (ChunksTile).                   *)
(***************************************************************************)
EXTENDS NpuRequests, AdcPlan, FiniteSetTheorems, SequenceTheorems,
        WellFoundedInduction, TLAPS

-----------------------------------------------------------------------------
(* Least and largest members.                                              *)

\* Every non-empty set of natural numbers has a least member.
LEMMA LeastNat == ASSUME NEW T, T \subseteq Nat, T # {}
                  PROVE  \E x \in T : \A y \in T : x <= y
<1> DEFINE R == {ss \in Nat \X Nat : ss[1] < ss[2]}
<1>1. OpToRel(<, Nat) = R   BY DEF OpToRel
<1>2. IsWellFoundedOn(R, Nat)   BY <1>1, NatLessThanWellFounded
<1> HIDE DEF R
<1>3. \E x \in T : \A y \in T : ~ (<<y, x>> \in R)   BY <1>2, WFMin
<1>4. PICK x \in T : \A y \in T : ~ (<<y, x>> \in R)   BY <1>3
<1>5. \A y \in T : x <= y
  <2>1. SUFFICES ASSUME NEW y \in T, ~(x <= y) PROVE FALSE   OBVIOUS
  <2>2. y < x   BY <2>1
  <2>3. <<y, x>> \in R   BY <2>2 DEF R
  <2> QED BY <1>4, <2>3
<1> QED BY <1>5

LEMMA LeastIsIn == ASSUME NEW S, S \subseteq Nat, S # {}
                   PROVE  Least(S) \in S /\ \A y \in S : Least(S) <= y
BY LeastNat DEF Least

LEMMA LargestPower == ASSUME NEW S, S \subseteq PowersOfTwo, S # {}
                      PROVE  Largest(S) \in S
<1>1. \A y \in S : y \in {1, 2, 4, 8, 16, 32}   BY DEF PowersOfTwo
<1>2. \E x \in S : \A y \in S : y <= x
  <2>1. CASE 32 \in S   BY <2>1, <1>1
  <2>2. CASE 32 \notin S /\ 16 \in S   BY <2>2, <1>1
  <2>3. CASE 32 \notin S /\ 16 \notin S /\ 8 \in S   BY <2>3, <1>1
  <2>4. CASE 32 \notin S /\ 16 \notin S /\ 8 \notin S /\ 4 \in S   BY <2>4, <1>1
  <2>5. CASE 32 \notin S /\ 16 \notin S /\ 8 \notin S /\ 4 \notin S /\ 2 \in S
    BY <2>5, <1>1
  <2>6. CASE S = {1}   BY <2>6
  <2> QED BY <2>1, <2>2, <2>3, <2>4, <2>5, <2>6, <1>1
<1> QED BY <1>2 DEF Largest

\* A request has a power of two of lanes.
LEMMA LimitIsAPower == ASSUME NEW bucket PROVE Limit(bucket) \in PowersOfTwo
<1> DEFINE raw == IF IndexLimit \div bucket > Lanes THEN Lanes ELSE IndexLimit \div bucket
           S == {1} \cup {p \in PowersOfTwo : p <= raw}
<1>1. S \subseteq PowersOfTwo /\ S # {}   BY DEF PowersOfTwo
<1>2. Limit(bucket) = Largest(S)   BY DEF Limit
<1> HIDE DEF S
<1> QED BY <1>1, <1>2, LargestPower

LEMMA CapacityIsAPower == ASSUME NEW bucket, NEW m \in Nat
                          PROVE  Capacity(m, bucket) \in PowersOfTwo
<1> DEFINE limit == Limit(bucket)
           S == {p \in PowersOfTwo : p >= (IF m < limit THEN m ELSE limit)}
<1>1. limit \in PowersOfTwo   BY LimitIsAPower
<1> HIDE DEF limit
<1>2. limit \in S   BY <1>1 DEF PowersOfTwo
<1>3. S \subseteq Nat   BY DEF PowersOfTwo
<1>4. Least(S) \in S   BY <1>2, <1>3, LeastIsIn
<1>5. Capacity(m, bucket) = Least(S)   BY DEF Capacity, limit
<1> QED BY <1>4, <1>5

-----------------------------------------------------------------------------
(* The requests of a batch.                                                *)

LEMMA MenuBatch == ASSUME NEW c \in Menu, c.op = "adc"
                   PROVE  /\ Chunks(c) = 1 .. Len(c.chunks) /\ Len(c.chunks) \in Nat
                          /\ \A i \in Chunks(c) :
                               /\ c.chunks[i].buf \in Buf
                               /\ c.chunks[i].bucket \in Buckets /\ c.chunks[i].at \in Nat
                          /\ Chunks(c) # {} /\ IsFiniteSet(Chunks(c))
<1>1. c.chunks \in Seq([buf : Buf, bucket : Buckets, at : Nat]) /\ c.chunks # <<>>
  BY NpuRequestsAssumption
<1>2. Chunks(c) = 1 .. Len(c.chunks) /\ Len(c.chunks) \in Nat   BY <1>1 DEF Chunks
<1> DEFINE s == c.chunks
           Entry == [buf : Buf, bucket : Buckets, at : Nat]
<1>3. \A i \in Chunks(c) : c.chunks[i] \in Entry
  <2>1. s \in Seq(Entry) /\ Chunks(c) = 1 .. Len(s)   BY <1>1, <1>2
  <2> HIDE DEF s, Entry
  <2>2. \A i \in Chunks(c) : s[i] \in Entry   BY <2>1
  <2> QED BY <2>2 DEF s
<1>4. Len(c.chunks) # 0
  <2>1. s \in Seq(Entry) /\ s # <<>>   BY <1>1
  <2> HIDE DEF s, Entry
  <2>2. Len(s) # 0   BY <2>1
  <2> QED BY <2>2 DEF s
<1>5. IsFiniteSet(1 .. Len(c.chunks))   BY <1>2, FS_Interval
<1>6. \A i \in Chunks(c) : /\ c.chunks[i].buf \in Buf
                           /\ c.chunks[i].bucket \in Buckets /\ c.chunks[i].at \in Nat
  BY <1>3
<1>7. 1 \in Chunks(c)   BY <1>2, <1>4
<1>8. IsFiniteSet(Chunks(c))   BY <1>2, <1>5
<1> QED BY <1>2, <1>6, <1>7, <1>8

LEMMA MenuDirect == ASSUME NEW c \in Menu, c.op # "adc"
                    PROVE  /\ c.op \in {"gemm", "topk", "gather", "pairwise"}
                           /\ c.a \in Buf /\ c.b \in Buf /\ c.tiles \in Nat
BY NpuRequestsAssumption

LEMMA GroupFacts == ASSUME NEW c \in Menu, c.op = "adc",
                           NEW left, left \subseteq Chunks(c), left # {}
                    PROVE  /\ NextBucket(c, left) \in Buckets
                           /\ Group(c, left) \subseteq left /\ IsFiniteSet(Group(c, left))
                           /\ Cardinality(Group(c, left)) \in Nat
<1> DEFINE S == {c.chunks[i].bucket : i \in left}
<1>1. S \subseteq Buckets /\ S # {}   BY MenuBatch
<1>2. S \subseteq Nat   BY <1>1, NpuRequestsAssumption
<1> HIDE DEF S
<1>3. Least(S) \in Buckets   BY <1>1, <1>2, LeastIsIn
<1>4. NextBucket(c, left) = Least(S)   BY DEF NextBucket, S
<1>5. Group(c, left) \subseteq left   BY DEF Group
<1>6. IsFiniteSet(Group(c, left))   BY <1>5, MenuBatch, FS_Subset
<1>7. Cardinality(Group(c, left)) \in Nat   BY <1>6, FS_CardinalityType
<1> QED BY <1>3, <1>4, <1>5, <1>6, <1>7

\* Two chunks of a bucket never share a lane.
LEMMA LanesDiffer == ASSUME NEW c \in Menu, c.op = "adc",
                            NEW left, left \subseteq Chunks(c), left # {},
                            NEW i \in Group(c, left), NEW j \in Group(c, left),
                            LaneOf(c, left, i) = LaneOf(c, left, j)
                     PROVE  i = j
<1> DEFINE G == Group(c, left)
           Upto(k) == {l \in G : l <= k}
<1>1. G \subseteq left /\ IsFiniteSet(G)   BY GroupFacts
<1>2. \A k \in G : k \in Nat   BY <1>1, MenuBatch
<1>3. LaneOf(c, left, i) = Cardinality(Upto(i)) /\ LaneOf(c, left, j) = Cardinality(Upto(j))
  BY DEF LaneOf
<1> HIDE DEF G
<1>4. ASSUME NEW k \in G, NEW m \in G, k < m PROVE Cardinality(Upto(k)) < Cardinality(Upto(m))
  <2>1. Upto(m) \subseteq G   OBVIOUS
  <2>2. IsFiniteSet(Upto(m))   BY <2>1, <1>1, FS_Subset
  <2>3. Upto(k) \subseteq Upto(m)   BY <1>2, <1>4
  <2>4. m \in Upto(m) /\ m \notin Upto(k)   BY <1>2, <1>4
  <2> HIDE DEF Upto
  <2>5. IsFiniteSet(Upto(k)) /\ Cardinality(Upto(k)) <= Cardinality(Upto(m))
        /\ (Cardinality(Upto(k)) = Cardinality(Upto(m)) => Upto(k) = Upto(m))
    BY <2>2, <2>3, FS_Subset
  <2>6. Cardinality(Upto(k)) \in Nat /\ Cardinality(Upto(m)) \in Nat
    BY <2>2, <2>5, FS_CardinalityType
  <2>7. Cardinality(Upto(k)) # Cardinality(Upto(m))   BY <2>4, <2>5
  <2> QED BY <2>5, <2>6, <2>7
<1>5. Cardinality(Upto(i)) \in Nat /\ Cardinality(Upto(j)) \in Nat
  <2>1. Upto(i) \subseteq G /\ Upto(j) \subseteq G   OBVIOUS
  <2> HIDE DEF Upto
  <2>2. IsFiniteSet(Upto(i)) /\ IsFiniteSet(Upto(j))   BY <2>1, <1>1, FS_Subset
  <2> QED BY <2>2, FS_CardinalityType
<1>6. i \in G /\ j \in G   BY DEF G
<1> HIDE DEF Upto
<1>7. Cardinality(Upto(i)) = Cardinality(Upto(j))   BY <1>3
<1>8. ~(i < j)   BY <1>4, <1>5, <1>6, <1>7
<1>9. ~(j < i)   BY <1>4, <1>5, <1>6, <1>7
<1> QED BY <1>2, <1>6, <1>8, <1>9
-----------------------------------------------------------------------------
(* What a thread is at.                                                    *)

\* Where its key and its pieces come from.
LEMMA KeyStands ==
  ASSUME NEW t, call'[t] = call[t], todo'[t] = todo[t], tiled'[t] = tiled[t]
  PROVE  KeyOf(t)' = KeyOf(t) /\ Pieces(t)' = Pieces(t) /\ Request(t)'.takes = Request(t).takes
BY DEF KeyOf, Request, Packed, Tile, Whole, Pieces

\* The buffers that a call reads.
Reads(c) == IF c.op = "adc" THEN {c.chunks[i].buf : i \in Chunks(c)} ELSE {c.a, c.b}

LEMMA RequestStands ==
  ASSUME NEW t, call'[t] = call[t], todo'[t] = todo[t], tiled'[t] = tiled[t],
         call[t] \in Menu, call[t].op = "adc" => todo[t] \subseteq Chunks(call[t]),
         \A b \in Reads(call[t]) : mem'[b] = mem[b]
  PROVE  Request(t)' = Request(t)
<1>1. CASE call[t].op = "adc"
  <2> DEFINE c == call[t]
             left == todo[t]
             L == {LaneOf(c, left, i) : i \in Taken(c, left)}
  <2>1. \A l \in L : ChunkIn(c, left, l) \in left   BY DEF ChunkIn, Taken, Group
  <2>2. \A l \in L : ChunkIn(c, left, l) \in Chunks(c)   BY <2>1, <1>1
  <2>3. \A l \in L : c.chunks[ChunkIn(c, left, l)].buf \in Reads(c)   BY <2>2, <1>1 DEF Reads
  <2>4. \A l \in L : Lane(c, ChunkIn(c, left, l))' = Lane(c, ChunkIn(c, left, l))
    BY <2>3 DEF Lane, Part
  <2>5. Request(t) = Packed(c, left)   BY <1>1 DEF Request
  <2>6. Request(t)' = [key |-> Packed(c, left).key,
                       parts |-> [l \in L |-> Lane(c, ChunkIn(c, left, l))'],
                       takes |-> Taken(c, left)]
    BY <1>1 DEF Request, Packed, Lane, Part
  <2>7. Packed(c, left).parts = [l \in L |-> Lane(c, ChunkIn(c, left, l))]
        /\ Packed(c, left) = [key |-> Packed(c, left).key, parts |-> Packed(c, left).parts,
                              takes |-> Taken(c, left)]
    BY DEF Packed
  <2>8. [l \in L |-> Lane(c, ChunkIn(c, left, l))'] = [l \in L |-> Lane(c, ChunkIn(c, left, l))]
    BY <2>4
  <2> QED BY <2>5, <2>6, <2>7, <2>8
<1>2. CASE call[t].op # "adc"
  BY <1>2, MenuDirect DEF Request, Tile, Whole, Operands, Part, Reads
<1> QED BY <1>1, <1>2
LEMMA AnswersStand ==
  ASSUME NEW t, call'[t] = call[t], tiled'[t] = tiled[t], call[t] \in Menu,
         \A b \in Reads(call[t]) : mem'[b] = mem[b]
  PROVE  \A i \in Pieces(t) : Answer(call[t], i)' = Answer(call[t], i)
<1>1. CASE call[t].op = "adc"
  BY <1>1 DEF Answer, Lane, Part, Reads, Pieces
<1>2. CASE call[t].op # "adc"
  BY <1>2, MenuDirect DEF Answer, Operands, Part, Reads
<1> QED BY <1>1, <1>2

\* The thread has pieces to run, and they are pieces of its call.
AtPieces(t) == call[t] \in Menu /\ todo[t] \subseteq Pieces(t) /\ todo[t] # {}

LEMMA BatchRequest ==
  ASSUME NEW t, AtPieces(t), call[t].op = "adc"
  PROVE  /\ KeyOf(t) \in Key /\ KeyOf(t)[1] = "adc"
         /\ Request(t).takes \subseteq todo[t]
         /\ \A i \in Request(t).takes :
              Request(t).parts[LaneOf(call[t], todo[t], i)] = Lane(call[t], i)
<1> DEFINE c == call[t]
           left == todo[t]
           L == {LaneOf(c, left, i) : i \in Taken(c, left)}
<1>1. c \in Menu /\ c.op = "adc" /\ left \subseteq Chunks(c) /\ left # {}   BY DEF AtPieces, Pieces
<1>2. NextBucket(c, left) \in Buckets /\ Cardinality(Group(c, left)) \in Nat   BY <1>1, GroupFacts
<1>3. Capacity(Cardinality(Group(c, left)), NextBucket(c, left)) \in PowersOfTwo
  BY <1>2, CapacityIsAPower
<1>4. Request(t) = Packed(c, left)   BY <1>1 DEF Request
<1>5. KeyOf(t) = <<"adc", "lanes", NextBucket(c, left),
                   Capacity(Cardinality(Group(c, left)), NextBucket(c, left))>>
  BY <1>4 DEF KeyOf, Packed
<1>6. KeyOf(t) \in Key   BY <1>2, <1>3, <1>5 DEF Key
<1>7. Request(t).takes = Taken(c, left)   BY <1>4 DEF Packed
<1>8. Taken(c, left) \subseteq left   BY DEF Taken, Group
<1>9. ASSUME NEW i \in Taken(c, left)
      PROVE  Request(t).parts[LaneOf(c, left, i)] = Lane(c, i)
  <2> DEFINE l == LaneOf(c, left, i)
             j == ChunkIn(c, left, l)
  <2>1. j \in Taken(c, left) /\ LaneOf(c, left, j) = l   BY DEF ChunkIn
  <2>2. i \in Group(c, left) /\ j \in Group(c, left)   BY <2>1 DEF Taken
  <2>3. j = i   BY <1>1, <2>1, <2>2, LanesDiffer
  <2>4. l \in {LaneOf(c, left, k) : k \in Taken(c, left)}   OBVIOUS
  <2>5. Request(t).parts[l] = Lane(c, ChunkIn(c, left, l))   BY <1>4, <2>4 DEF Packed
  <2> QED BY <2>3, <2>5
<1> QED BY <1>5, <1>6, <1>7, <1>8, <1>9

LEMMA DirectRequest ==
  ASSUME NEW t, AtPieces(t), call[t].op # "adc"
  PROVE  /\ KeyOf(t) \in Key /\ KeyOf(t)[1] # "adc"
         /\ Request(t).takes \subseteq todo[t]
         /\ \A i \in Request(t).takes : Request(t).parts = Answer(call[t], i)
         /\ \E i \in Request(t).takes : Request(t).takes = {i}
         /\ Request(t).parts = [i \in DOMAIN Request(t).parts |-> Request(t).parts[i]]
         /\ \A i \in DOMAIN Request(t).parts :
              \E b \in Buf, tile \in Nat : Request(t).parts[i] = Part(b, tile)
<1> DEFINE c == call[t]
           k == IF tiled[t] THEN Least(todo[t]) ELSE 0
<1>1. c \in Menu /\ c.op # "adc" /\ todo[t] \subseteq Pieces(t) /\ todo[t] # {}   BY DEF AtPieces
<1>2. c.op \in {"gemm", "topk", "gather", "pairwise"} /\ c.a \in Buf /\ c.b \in Buf /\ c.tiles \in Nat
  BY <1>1, MenuDirect
<1>3. todo[t] \subseteq Nat   BY <1>1, <1>2 DEF Pieces
<1>4. k \in todo[t] /\ k \in Nat
  <2>1. CASE tiled[t]   BY <2>1, <1>1, <1>3, LeastIsIn
  <2>2. CASE ~tiled[t]   BY <2>2, <1>1 DEF Pieces
  <2> QED BY <2>1, <2>2
<1> HIDE DEF k
<1>5. /\ Request(t).takes = {k} /\ Request(t).parts = Operands(c, k)
      /\ KeyOf(t) = <<c.op, IF tiled[t] THEN "tile" ELSE "whole",
                      IF tiled[t] THEN 1 ELSE c.tiles, 0>>
  <2>1. CASE tiled[t]   BY <2>1, <1>1 DEF Request, KeyOf, Tile, k
  <2>2. CASE ~tiled[t]   BY <2>2, <1>1 DEF Request, KeyOf, Whole, k
  <2> QED BY <2>1, <2>2
<1>6. KeyOf(t) \in Key /\ KeyOf(t)[1] # "adc"   BY <1>1, <1>2, <1>5 DEF Key
<1>7. Operands(c, k) = Answer(c, k)   BY <1>1 DEF Answer
<1>8. /\ Operands(c, k) = [i \in DOMAIN Operands(c, k) |-> Operands(c, k)[i]]
      /\ \A i \in DOMAIN Operands(c, k) :
           \E b \in Buf, tile \in Nat : Operands(c, k)[i] = Part(b, tile)
  <2>1. CASE c.op \in {"gemm", "pairwise"}
    <3>1. Operands(c, k) = <<Part(c.a, k), Part(c.b, 0)>>   BY <2>1 DEF Operands
    <3> QED BY <3>1, <1>2, <1>4
  <2>2. CASE c.op = "gather"
    <3>1. Operands(c, k) = <<Part(c.b, 0), Part(c.a, k)>>   BY <2>2 DEF Operands
    <3> QED BY <3>1, <1>2, <1>4
  <2>3. CASE c.op = "topk"
    <3>1. Operands(c, k) = <<Part(c.a, k)>>   BY <2>3 DEF Operands
    <3> QED BY <3>1, <1>2, <1>4
  <2> QED BY <1>2, <2>1, <2>2, <2>3
<1> QED BY <1>4, <1>5, <1>6, <1>7, <1>8

-----------------------------------------------------------------------------
(* Types and locks.                                                        *)

\* A thread in a call has a call of the menu; a batch was found disjoint, and is never
\* tiled; what is left to run is of the call, and nothing is left to publish.
CallInv(t) ==
  pc[t] # "idle" =>
    /\ call[t] \in Menu
    /\ call[t].op = "adc" => Disjoint(call[t]) /\ ~tiled[t]
    /\ todo[t] \subseteq Pieces(t)
    /\ pc[t] = "publish" => todo[t] = {}

\* The thread that compiles found that the request is missing.
CompileInv(t) == pc[t] = "compile" => KeyOf(t) \notin DOMAIN slots

\* Answers and requests are functions.
ShapeInv ==
  /\ DOMAIN staged = Threads /\ DOMAIN out = Threads
  /\ slots = [k \in DOMAIN slots |-> slots[k]]
  /\ \A k \in DOMAIN slots :
       slots[k] = [tensor |-> slots[k].tensor, fp |-> slots[k].fp]

RunInv ==
  /\ TypeOK /\ ShapeInv
  /\ \A t \in Threads : CallInv(t) /\ CompileInv(t)

-----------------------------------------------------------------------------
(* Answers.                                                                *)

\* Callers write what the comment above content_fp lets them.
MemInv == \A b \in Buf : mem[b] \in Contents(b)

\* A fingerprint of a request is that of what its tensor holds; an ADC request has none.
SlotsInv ==
  \A k \in DOMAIN slots :
    /\ k[1] = "adc" => DOMAIN slots[k].fp = {}
    /\ \A i \in DOMAIN slots[k].fp :
         \/ slots[k].fp[i] = NoFingerprint
         \/ LET p == slots[k].tensor[i]
            IN /\ p = [buf |-> p.buf, tile |-> p.tile, val |-> p.val]
               /\ p.buf \in Large /\ p.val \in Contents(p.buf)
               /\ slots[k].fp[i] = Fingerprint(p)

\* A request that is locked to be run and read holds the operands of its caller.
Filling(t) ==
  pc[t] \in {"infer", "read"} => slots[KeyOf(t)].tensor = Request(t).parts

\* The pieces that are not left to run have been answered, a batch's in staging.
Gathered(t) == IF call[t].op = "adc" THEN staged[t] ELSE out[t]
Progress(t) ==
  pc[t] \in {"find", "compile", "fill", "infer", "read", "publish"} =>
    \A i \in Pieces(t) \ todo[t] : Answered(Gathered(t), call[t], i)

AnswerInv ==
  /\ MemInv /\ SlotsInv
  /\ \A t \in Threads : Filling(t) /\ Progress(t)
  /\ AnswersAreOwn
-----------------------------------------------------------------------------
(* What a step of one thread leaves of the others.                         *)

Frame(t) ==
  /\ \A u \in Threads \ {t} :
       /\ pc'[u] = pc[u] /\ call'[u] = call[u] /\ todo'[u] = todo[u] /\ tiled'[u] = tiled[u]
       /\ ok'[u] = ok[u] /\ staged'[u] = staged[u] /\ out'[u] = out[u]
       /\ (gmu' = u) <=> (gmu = u)
       /\ \A k \in Key : smu[k] = u => smu'[k] = u
  /\ DOMAIN slots \subseteq DOMAIN slots' /\ (gmu = t \/ DOMAIN slots' = DOMAIN slots)
  /\ mem' = mem /\ writes' = writes

\* Both requests of a thread that has pieces to run are requests of the device.
LEMMA KeysAreKnown == \A t : AtPieces(t) => KeyOf(t) \in Key
<1> SUFFICES ASSUME NEW t, AtPieces(t) PROVE KeyOf(t) \in Key   OBVIOUS
<1>1. CASE call[t].op = "adc"   BY <1>1, BatchRequest
<1>2. CASE call[t].op # "adc"   BY <1>2, DirectRequest
<1> QED BY <1>1, <1>2

LEMMA KeysStayKnown == \A t : AtPieces(t)' => KeyOf(t)' \in Key
<1>1. (\A t : AtPieces(t) => KeyOf(t) \in Key)'   BY KeysAreKnown, PTL
<1> QED BY <1>1

LEMMA RunningHasPieces ==
  ASSUME RunInv, NEW t \in Threads,
         pc[t] \in {"find", "compile", "fill", "infer", "read"}
  PROVE  AtPieces(t) /\ KeyOf(t) \in Key
BY DEF RunInv, TypeOK, LocksOK, CallInv, AtPieces

LEMMA FailFrame ==
  ASSUME RunInv, NEW t \in Threads, Fail(t)
  PROVE  /\ \A u \in Threads \ {t} : /\ pc'[u] = pc[u] /\ todo'[u] = todo[u]
                                     /\ tiled'[u] = tiled[u] /\ ok'[u] = ok[u]
         /\ pc'[t] \in {"find", "return"}
         /\ pc' \in [Threads -> {"idle", "find", "compile", "fill", "infer", "read", "publish", "return"}]
         /\ tiled' \in [Threads -> BOOLEAN] /\ ok' \in [Threads -> BOOLEAN]
<1>1. /\ pc \in [Threads -> {"idle", "find", "compile", "fill", "infer", "read", "publish", "return"}]
      /\ tiled \in [Threads -> BOOLEAN] /\ ok \in [Threads -> BOOLEAN]
      /\ todo \in [Threads -> SUBSET Nat]
  BY DEF RunInv, TypeOK
<1>2. CASE call[t].op # "adc" /\ ~tiled[t] /\ call[t].tiles > 0
  <2>1. /\ todo' = [todo EXCEPT ![t] = 1 .. call[t].tiles]
        /\ tiled' = [tiled EXCEPT ![t] = TRUE]
        /\ pc' = [pc EXCEPT ![t] = "find"] /\ ok' = ok
    BY <1>2 DEF Fail, Goto
  <2> QED BY <1>1, <2>1
<1>3. CASE ~(call[t].op # "adc" /\ ~tiled[t] /\ call[t].tiles > 0)
  <2>1. /\ ok' = [ok EXCEPT ![t] = FALSE] /\ pc' = [pc EXCEPT ![t] = "return"]
        /\ todo' = todo /\ tiled' = tiled
    BY <1>3 DEF Fail, Goto
  <2> QED BY <1>1, <2>1
<1> QED BY <1>2, <1>3
LEMMA FailKeepsCall ==
  ASSUME RunInv, NEW t \in Threads, pc[t] # "idle", Fail(t), call' = call
  PROVE  /\ CallInv(t)' /\ (pc'[t] = "find" => AtPieces(t)')
         /\ todo' \in [Threads -> SUBSET Nat]
<1>1. /\ call[t] \in Menu /\ (call[t].op = "adc" => Disjoint(call[t]) /\ ~tiled[t])
      /\ todo[t] \subseteq Pieces(t)
      /\ pc[t] = "publish" => todo[t] = {}
  BY DEF RunInv, CallInv
<1>2. /\ t \in DOMAIN pc /\ t \in DOMAIN tiled /\ t \in DOMAIN todo
      /\ todo \in [Threads -> SUBSET Nat]
  BY DEF RunInv, TypeOK
<1>3. Disjoint(call[t])' = Disjoint(call[t])   BY DEF Disjoint, Chunks
<1>4. CASE call[t].op # "adc" /\ ~tiled[t] /\ call[t].tiles > 0
  <2>1. /\ todo' = [todo EXCEPT ![t] = 1 .. call[t].tiles]
        /\ tiled' = [tiled EXCEPT ![t] = TRUE]
        /\ pc' = [pc EXCEPT ![t] = "find"]
    BY <1>4 DEF Fail, Goto
  <2>2. call[t].tiles \in Nat   BY <1>1, <1>4, MenuDirect
  <2>3. todo'[t] = 1 .. call[t].tiles /\ tiled'[t] = TRUE /\ pc'[t] = "find"
    BY <2>1, <1>2
  <2>4. Pieces(t)' = 1 .. call[t].tiles   BY <2>3, <1>4 DEF Pieces
  <2>5. todo'[t] # {}   BY <2>2, <2>3, <1>4
  <2>6. todo' \in [Threads -> SUBSET Nat]   BY <2>1, <2>2, <1>2
  <2> QED BY <1>1, <1>4, <2>3, <2>4, <2>5, <2>6 DEF CallInv, AtPieces
<1>5. CASE ~(call[t].op # "adc" /\ ~tiled[t] /\ call[t].tiles > 0)
  <2>1. /\ pc' = [pc EXCEPT ![t] = "return"] /\ todo' = todo /\ tiled' = tiled
    BY <1>5 DEF Fail, Goto
  <2>2. pc'[t] = "return"   BY <2>1, <1>2
  <2>3. Pieces(t)' = Pieces(t)   BY <2>1, KeyStands
  <2> QED BY <1>1, <1>2, <1>3, <2>1, <2>2, <2>3 DEF CallInv
<1> QED BY <1>4, <1>5

\* What the steps of a thread make of its own locks, request and call.
Owned(t) ==
  /\ pc' \in [Threads -> {"idle", "find", "compile", "fill", "infer", "read", "publish", "return"}]
  /\ call' \in [Threads -> Menu \cup {NoCall}] /\ todo' \in [Threads -> SUBSET Nat]
  /\ tiled' \in [Threads -> BOOLEAN] /\ ok' \in [Threads -> BOOLEAN]
  /\ gmu' \in Threads \cup {NoOne} /\ smu' \in [Key -> Threads \cup {NoOne}]
  /\ calls' \in 0 .. MaxCalls /\ DOMAIN slots' \subseteq Key
  /\ ShapeInv' /\ LocksOK(t)' /\ CallInv(t)' /\ CompileInv(t)'

LEMMA Typed ==
  ASSUME RunInv
  PROVE  /\ pc \in [Threads -> {"idle", "find", "compile", "fill", "infer", "read", "publish", "return"}]
         /\ call \in [Threads -> Menu \cup {NoCall}] /\ todo \in [Threads -> SUBSET Nat]
         /\ tiled \in [Threads -> BOOLEAN] /\ ok \in [Threads -> BOOLEAN]
         /\ gmu \in Threads \cup {NoOne} /\ smu \in [Key -> Threads \cup {NoOne}]
         /\ calls \in 0 .. MaxCalls /\ DOMAIN slots \subseteq Key
         /\ DOMAIN staged = Threads /\ DOMAIN out = Threads
         /\ \A t \in Threads : LocksOK(t) /\ CallInv(t) /\ CompileInv(t)
BY DEF RunInv, TypeOK, ShapeInv

LEMMA StartOwned ==
  ASSUME RunInv, NEW t \in Threads, NEW c \in Menu, NEW pieces \in SUBSET Nat, pieces # {},
         Start(t, c, pieces),
         c.op = "adc" => Disjoint(c) /\ pieces = Chunks(c),
         c.op # "adc" => pieces = {0}
  PROVE  Owned(t) /\ Frame(t)
<1>1. /\ pc[t] = "idle" /\ calls < MaxCalls
      /\ call' = [call EXCEPT ![t] = c] /\ todo' = [todo EXCEPT ![t] = pieces]
      /\ tiled' = [tiled EXCEPT ![t] = FALSE]
      /\ staged' = [staged EXCEPT ![t] = Nothing] /\ out' = [out EXCEPT ![t] = Nothing]
      /\ calls' = calls + 1 /\ pc' = [pc EXCEPT ![t] = "find"]
      /\ UNCHANGED <<mem, slots, gmu, smu, ok, writes>>
  BY DEF Start, Goto
<1>2. Frame(t)   BY <1>1, Typed DEF Frame
<1>3. /\ pc' \in [Threads -> {"idle", "find", "compile", "fill", "infer", "read", "publish", "return"}]
      /\ call' \in [Threads -> Menu \cup {NoCall}] /\ todo' \in [Threads -> SUBSET Nat]
      /\ tiled' \in [Threads -> BOOLEAN] /\ ok' \in [Threads -> BOOLEAN]
      /\ gmu' \in Threads \cup {NoOne} /\ smu' \in [Key -> Threads \cup {NoOne}]
      /\ DOMAIN slots' \subseteq Key
  BY <1>1, Typed
<1>4. calls' \in 0 .. MaxCalls   BY <1>1, Typed, NpuRequestsAssumption
<1>5. ShapeInv'   BY <1>1, Typed DEF ShapeInv, RunInv
<1>6. pc'[t] = "find" /\ call'[t] = c /\ todo'[t] = pieces /\ tiled'[t] = FALSE   BY <1>1, Typed
<1>7. Pieces(t)' = pieces   BY <1>6 DEF Pieces
<1>8. AtPieces(t)'   BY <1>6, <1>7 DEF AtPieces
<1>9. Disjoint(call[t])' = Disjoint(c)   BY <1>6 DEF Disjoint, Chunks
<1>10. CallInv(t)'   BY <1>6, <1>7, <1>9 DEF CallInv
<1>11. LocksOK(t)'
  <2>1. gmu # t   BY <1>1, Typed DEF LocksOK
  <2>2. KeyOf(t)' \in Key   BY <1>8, KeysStayKnown
  <2> QED BY <1>1, <1>6, <2>1, <2>2 DEF LocksOK
<1>12. CompileInv(t)'   BY <1>6 DEF CompileInv
<1> QED BY <1>2, <1>3, <1>4, <1>5, <1>10, <1>11, <1>12 DEF Owned
\* A failed request leaves the locks to the others.
LEMMA FailOwned ==
  ASSUME RunInv, NEW t \in Threads, pc[t] # "idle", Fail(t), call' = call,
         gmu' \in Threads \cup {NoOne}, gmu' # t, smu' \in [Key -> Threads \cup {NoOne}],
         slots' = slots, calls' = calls, DOMAIN staged' = Threads, DOMAIN out' = Threads
  PROVE  Owned(t)
<1>1. /\ CallInv(t)' /\ (pc'[t] = "find" => AtPieces(t)')
      /\ todo' \in [Threads -> SUBSET Nat]
  BY FailKeepsCall
<1>2. /\ pc'[t] \in {"find", "return"}
      /\ pc' \in [Threads -> {"idle", "find", "compile", "fill", "infer", "read", "publish", "return"}]
      /\ tiled' \in [Threads -> BOOLEAN] /\ ok' \in [Threads -> BOOLEAN]
  BY FailFrame
<1>3. pc'[t] = "find" => todo'[t] # {} /\ KeyOf(t)' \in Key
  BY <1>1, KeysStayKnown DEF AtPieces
<1>4. LocksOK(t)'   BY <1>2, <1>3 DEF LocksOK
<1>5. CompileInv(t)'   BY <1>2 DEF CompileInv
<1>6. ShapeInv'   BY DEF RunInv, ShapeInv
<1> QED BY <1>1, <1>2, <1>4, <1>5, <1>6, Typed DEF Owned

LEMMA RefuseOwned ==
  ASSUME RunInv, NEW t \in Threads, Refuse(t) PROVE Owned(t) /\ Frame(t)
<1>1. /\ pc[t] = "find" /\ Fail(t)
      /\ UNCHANGED <<mem, slots, gmu, smu, call, staged, out, calls, writes>>
  BY DEF Refuse
<1>2. gmu # t   BY <1>1, Typed DEF LocksOK
<1>3. Owned(t)   BY <1>1, <1>2, Typed, FailOwned
<1>4. Frame(t)   BY <1>1, FailFrame DEF Frame
<1> QED BY <1>3, <1>4

LEMMA FindOwned ==
  ASSUME RunInv, NEW t \in Threads, Find(t) PROVE Owned(t) /\ Frame(t)
<1>1. /\ pc[t] = "find" /\ gmu = NoOne
      /\ UNCHANGED <<mem, slots, smu, call, todo, tiled, staged, out, ok, calls, writes>>
      /\ \/ KeyOf(t) \in DOMAIN slots /\ pc' = [pc EXCEPT ![t] = "fill"] /\ gmu' = gmu
         \/ KeyOf(t) \notin DOMAIN slots /\ pc' = [pc EXCEPT ![t] = "compile"] /\ gmu' = t
  BY DEF Find, Goto
<1>2. Frame(t)   BY <1>1, Typed, NpuRequestsAssumption DEF Frame
<1>3. AtPieces(t) /\ KeyOf(t) \in Key   BY <1>1, RunningHasPieces
<1>4. KeyOf(t)' = KeyOf(t) /\ Pieces(t)' = Pieces(t)   BY <1>1, KeyStands
<1>5. ShapeInv'   BY <1>1 DEF RunInv, ShapeInv
<1>6. Disjoint(call[t])' = Disjoint(call[t])   BY <1>1 DEF Disjoint, Chunks
<1>7. CASE KeyOf(t) \in DOMAIN slots /\ pc' = [pc EXCEPT ![t] = "fill"] /\ gmu' = gmu
  <2>1. pc'[t] = "fill"   BY <1>7, Typed
  <2>2. LocksOK(t)'   BY <1>1, <1>3, <1>4, <1>7, <2>1, NpuRequestsAssumption DEF LocksOK, AtPieces
  <2>3. CallInv(t)'   BY <1>1, <1>4, <1>6, <2>1, Typed DEF CallInv
  <2>4. CompileInv(t)'   BY <2>1 DEF CompileInv
  <2>5. pc' \in [Threads -> {"idle", "find", "compile", "fill", "infer", "read", "publish", "return"}]
    BY <1>7, Typed
  <2> QED BY <1>1, <1>2, <1>5, <1>7, <2>2, <2>3, <2>4, <2>5, Typed DEF Owned
<1>8. CASE KeyOf(t) \notin DOMAIN slots /\ pc' = [pc EXCEPT ![t] = "compile"] /\ gmu' = t
  <2>1. pc'[t] = "compile"   BY <1>8, Typed
  <2>2. LocksOK(t)'   BY <1>1, <1>3, <1>4, <1>8, <2>1 DEF LocksOK, AtPieces
  <2>3. CallInv(t)'   BY <1>1, <1>4, <1>6, <2>1, Typed DEF CallInv
  <2>4. CompileInv(t)'   BY <1>1, <1>4, <1>8 DEF CompileInv
  <2>5. pc' \in [Threads -> {"idle", "find", "compile", "fill", "infer", "read", "publish", "return"}]
    BY <1>8, Typed
  <2> QED BY <1>1, <1>2, <1>5, <1>8, <2>2, <2>3, <2>4, <2>5, Typed DEF Owned
<1> QED BY <1>1, <1>2, <1>7, <1>8

LEMMA CompileOwned ==
  ASSUME RunInv, NEW t \in Threads, Compile(t) PROVE Owned(t) /\ Frame(t)
<1>1. /\ pc[t] = "compile" /\ gmu' = NoOne
      /\ UNCHANGED <<mem, smu, call, staged, out, calls, writes>>
  BY DEF Compile
<1>2. gmu = t /\ NoOne # t   BY <1>1, Typed, NpuRequestsAssumption DEF LocksOK
<1>3. AtPieces(t) /\ KeyOf(t) \in Key   BY <1>1, RunningHasPieces
<1>4. CASE /\ slots' = Over([k \in {KeyOf(t)} |-> NewSlot], slots)
           /\ pc' = [pc EXCEPT ![t] = "fill"] /\ UNCHANGED <<todo, tiled, ok>>
  <2> DEFINE k == KeyOf(t)
  <2> HIDE DEF k
  <2>1. slots' = [l \in {k} \cup DOMAIN slots |->
                    IF l = k THEN NewSlot ELSE slots[l]]
    BY <1>4 DEF Over, k
  <2>2. DOMAIN slots' = {k} \cup DOMAIN slots   BY <2>1
  <2>3. pc'[t] = "fill"   BY <1>4, Typed
  <2>4. \A l \in DOMAIN slots' : slots'[l] = [tensor |-> slots'[l].tensor, fp |-> slots'[l].fp]
    <3>1. NewSlot = [tensor |-> NewSlot.tensor, fp |-> NewSlot.fp]   BY DEF NewSlot
    <3>2. \A l \in DOMAIN slots : slots[l] = [tensor |-> slots[l].tensor, fp |-> slots[l].fp]
      BY DEF RunInv, ShapeInv
    <3> QED BY <2>1, <3>1, <3>2
  <2>5. slots' = [l \in DOMAIN slots' |-> slots'[l]]   BY <2>1
  <2>6. ShapeInv'   BY <1>1, <2>4, <2>5, Typed DEF ShapeInv
  <2>7. k' = k /\ Pieces(t)' = Pieces(t)   BY <1>1, <1>4, KeyStands DEF k
  <2>8. KeyOf(t)' = k   BY <2>7 DEF k
  <2>9. Disjoint(call[t])' = Disjoint(call[t])   BY <1>1 DEF Disjoint, Chunks
  <2>10. k \in Key   BY <1>3 DEF k
  <2>11. LocksOK(t)'
    BY <1>1, <1>2, <1>3, <1>4, <2>2, <2>3, <2>8, <2>10 DEF LocksOK, AtPieces
  <2>12. CallInv(t)'   BY <1>1, <1>4, <2>3, <2>7, <2>9, Typed DEF CallInv
  <2>13. CompileInv(t)'   BY <2>3 DEF CompileInv
  <2>14. DOMAIN slots' \subseteq Key   BY <2>2, <2>10, Typed
  <2>15. /\ pc' \in [Threads -> {"idle", "find", "compile", "fill", "infer", "read", "publish", "return"}]
         /\ \A u \in Threads \ {t} : pc'[u] = pc[u]
    BY <1>4, Typed
  <2>16. Owned(t)
    BY <1>1, <1>4, <2>6, <2>11, <2>12, <2>13, <2>14, <2>15, Typed DEF Owned
  <2>17. Frame(t)   BY <1>1, <1>2, <1>4, <2>2, <2>15, NpuRequestsAssumption DEF Frame
  <2> QED BY <2>16, <2>17
<1>5. CASE UNCHANGED slots /\ Fail(t)
  <2>1. Owned(t)   BY <1>1, <1>2, <1>5, Typed, FailOwned
  <2>2. Frame(t)   BY <1>1, <1>2, <1>5, FailFrame, NpuRequestsAssumption DEF Frame
  <2> QED BY <2>1, <2>2
<1> QED BY <1>4, <1>5 DEF Compile, Goto
LEMMA SameCall ==
  ASSUME RunInv, NEW t \in Threads, pc[t] # "idle", pc'[t] # "publish",
         call' = call, todo' = todo, tiled' = tiled
  PROVE  CallInv(t)' /\ KeyOf(t)' = KeyOf(t) /\ Pieces(t)' = Pieces(t)
<1>1. KeyOf(t)' = KeyOf(t) /\ Pieces(t)' = Pieces(t)   BY KeyStands
<1>2. Disjoint(call[t])' = Disjoint(call[t])   BY DEF Disjoint, Chunks
<1>3. CallInv(t)   BY Typed
<1>4. CallInv(t)'   BY <1>1, <1>2, <1>3 DEF CallInv
<1> QED BY <1>1, <1>4

LEMMA FillOwned ==
  ASSUME RunInv, NEW t \in Threads, Fill(t) PROVE Owned(t) /\ Frame(t)
<1> DEFINE k == KeyOf(t)
           new == IF call[t].op = "adc" THEN LanesFilled(slots[k], Request(t).parts)
                  ELSE Filled(slots[k], Request(t).parts)
<1>1. /\ pc[t] = "fill" /\ smu[k] = NoOne /\ smu' = [smu EXCEPT ![k] = t]
      /\ slots' = [slots EXCEPT ![k] = new] /\ pc' = [pc EXCEPT ![t] = "infer"]
      /\ UNCHANGED <<mem, gmu, call, todo, tiled, staged, out, ok, calls, writes>>
  BY DEF Fill, TakeSlot, Goto
<1>2. AtPieces(t) /\ k \in Key   BY <1>1, RunningHasPieces
<1>3. k \in DOMAIN slots /\ gmu # t   BY <1>1, Typed DEF LocksOK
<1>4. \A l \in DOMAIN slots : slots[l] = [tensor |-> slots[l].tensor, fp |-> slots[l].fp]
  BY DEF RunInv, ShapeInv
<1>5. new = [tensor |-> new.tensor, fp |-> new.fp]
  <2>1. CASE call[t].op = "adc"
    <3>1. new = LanesFilled(slots[k], Request(t).parts)   BY <2>1
    <3>2. slots[k] = [tensor |-> slots[k].tensor, fp |-> slots[k].fp]   BY <1>3, <1>4
    <3> QED BY <3>1, <3>2 DEF LanesFilled
  <2>2. CASE call[t].op # "adc"   BY <2>2 DEF Filled
  <2> QED BY <2>1, <2>2
<1>6. pc'[t] = "infer"   BY <1>1, Typed
<1>7. CallInv(t)' /\ k' = k   BY <1>1, <1>6, SameCall
<1> HIDE DEF new
<1>8. /\ DOMAIN slots' = DOMAIN slots /\ slots' = [l \in DOMAIN slots' |-> slots'[l]]
      /\ \A l \in DOMAIN slots' : slots'[l] = [tensor |-> slots'[l].tensor, fp |-> slots'[l].fp]
  <2>1. DOMAIN slots' = DOMAIN slots   BY <1>1
  <2>2. slots' = [l \in DOMAIN slots' |-> slots'[l]]   BY <1>1
  <2>3. \A l \in DOMAIN slots : slots'[l] = IF l = k THEN new ELSE slots[l]   BY <1>1, <1>3
  <2> QED BY <2>1, <2>2, <2>3, <1>4, <1>5
<1>9. ShapeInv'   BY <1>1, <1>8, Typed DEF ShapeInv
<1> HIDE DEF k
<1>10. /\ smu' \in [Key -> Threads \cup {NoOne}] /\ smu'[k] = t
       /\ \A l \in Key, u \in Threads : smu[l] = u => smu'[l] = u
  BY <1>1, <1>2, Typed, NpuRequestsAssumption
<1>11. KeyOf(t)' = k   BY <1>7 DEF k
<1>12. LocksOK(t)'   BY <1>1, <1>2, <1>3, <1>6, <1>8, <1>10, <1>11 DEF LocksOK, AtPieces
<1>13. CompileInv(t)'   BY <1>6 DEF CompileInv
<1>14. /\ pc' \in [Threads -> {"idle", "find", "compile", "fill", "infer", "read", "publish", "return"}]
       /\ \A u \in Threads \ {t} : pc'[u] = pc[u]
  BY <1>1, Typed
<1>15. Owned(t)   BY <1>1, <1>7, <1>8, <1>9, <1>10, <1>12, <1>13, <1>14, Typed DEF Owned
<1>16. Frame(t)   BY <1>1, <1>8, <1>10, <1>14 DEF Frame
<1> QED BY <1>15, <1>16

\* Letting a request go.
LEMMA Dropped ==
  ASSUME RunInv, NEW t \in Threads, pc[t] \in {"infer", "read"}, DropSlot(t)
  PROVE  /\ smu' \in [Key -> Threads \cup {NoOne}]
         /\ \A u \in Threads \ {t}, k \in Key : smu[k] = u => smu'[k] = u
         /\ gmu # t
<1> DEFINE k == KeyOf(t)
<1>1. smu' = [smu EXCEPT ![k] = NoOne]   BY DEF DropSlot
<1>2. smu[k] = t /\ gmu # t   BY Typed DEF LocksOK
<1> HIDE DEF k
<1> QED BY <1>1, <1>2, Typed

LEMMA InferOwned ==
  ASSUME RunInv, NEW t \in Threads, Infer(t) PROVE Owned(t) /\ Frame(t)
<1>1. /\ pc[t] = "infer"
      /\ UNCHANGED <<mem, slots, gmu, call, staged, out, calls, writes>>
  BY DEF Infer
<1>2. ShapeInv'   BY <1>1 DEF RunInv, ShapeInv
<1>3. CASE pc' = [pc EXCEPT ![t] = "read"] /\ UNCHANGED <<smu, todo, tiled, ok>>
  <2>1. pc'[t] = "read"   BY <1>3, Typed
  <2>2. CallInv(t)' /\ KeyOf(t)' = KeyOf(t)   BY <1>1, <1>3, <2>1, SameCall
  <2>3. LocksOK(t)'   BY <1>1, <1>3, <2>1, <2>2, Typed DEF LocksOK
  <2>4. CompileInv(t)'   BY <2>1 DEF CompileInv
  <2>5. /\ pc' \in [Threads -> {"idle", "find", "compile", "fill", "infer", "read", "publish", "return"}]
        /\ \A u \in Threads \ {t} : pc'[u] = pc[u]
    BY <1>3, Typed
  <2>6. Owned(t)   BY <1>1, <1>2, <1>3, <2>2, <2>3, <2>4, <2>5, Typed DEF Owned
  <2>7. Frame(t)   BY <1>1, <1>3, <2>5 DEF Frame
  <2> QED BY <2>6, <2>7
<1>4. CASE DropSlot(t) /\ Fail(t)
  <2>1. /\ smu' \in [Key -> Threads \cup {NoOne}] /\ gmu # t
        /\ \A u \in Threads \ {t}, k \in Key : smu[k] = u => smu'[k] = u
    BY <1>1, <1>4, Dropped
  <2>2. Owned(t)   BY <1>1, <1>4, <2>1, Typed, FailOwned
  <2>3. Frame(t)   BY <1>1, <1>4, <2>1, FailFrame DEF Frame
  <2> QED BY <2>2, <2>3
<1> QED BY <1>3, <1>4 DEF Infer, Goto

LEMMA Delivered ==
  ASSUME RunInv, NEW t \in Threads, Deliver(t)
  PROVE  /\ DOMAIN staged' = Threads /\ DOMAIN out' = Threads
         /\ \A u \in Threads \ {t} : staged'[u] = staged[u] /\ out'[u] = out[u]
         /\ call[t].op = "adc" =>
              /\ staged'[t] = Over(Results(t), staged[t]) /\ out'[t] = out[t]
         /\ call[t].op # "adc" =>
              /\ out'[t] = Over(Results(t), out[t]) /\ staged'[t] = staged[t]
<1>1. DOMAIN staged = Threads /\ DOMAIN out = Threads   BY Typed
<1>2. CASE call[t].op = "adc"
  <2>1. staged' = [staged EXCEPT ![t] = Over(Results(t), @)] /\ out' = out   BY <1>2 DEF Deliver
  <2> QED BY <1>1, <1>2, <2>1
<1>3. CASE call[t].op # "adc"
  <2>1. out' = [out EXCEPT ![t] = Over(Results(t), @)] /\ staged' = staged   BY <1>3 DEF Deliver
  <2> QED BY <1>1, <1>3, <2>1
<1> QED BY <1>2, <1>3

LEMMA OutOfRangeOwned ==
  ASSUME RunInv, NEW t \in Threads, OutOfRange(t) PROVE Owned(t) /\ Frame(t)
<1>1. /\ pc[t] = "read" /\ DropSlot(t) /\ Fail(t)
      /\ UNCHANGED <<mem, slots, gmu, call, calls, writes>>
  BY DEF OutOfRange
<1>2. /\ DOMAIN staged' = Threads /\ DOMAIN out' = Threads
      /\ \A u \in Threads \ {t} : staged'[u] = staged[u] /\ out'[u] = out[u]
  <2>1. CASE call[t].op = "adc"   BY <2>1, Typed DEF OutOfRange
  <2>2. CASE call[t].op # "adc"   BY <2>2, Delivered DEF OutOfRange
  <2> QED BY <2>1, <2>2
<1>3. /\ smu' \in [Key -> Threads \cup {NoOne}] /\ gmu # t
      /\ \A u \in Threads \ {t}, k \in Key : smu[k] = u => smu'[k] = u
  BY <1>1, Dropped
<1>4. Owned(t)   BY <1>1, <1>2, <1>3, Typed, FailOwned
<1>5. Frame(t)   BY <1>1, <1>2, <1>3, FailFrame DEF Frame
<1> QED BY <1>4, <1>5
LEMMA ReadOwned ==
  ASSUME RunInv, NEW t \in Threads, Read(t) PROVE Owned(t) /\ Frame(t)
<1> DEFINE left == todo[t] \ Request(t).takes
<1>1. /\ pc[t] = "read" /\ Deliver(t) /\ DropSlot(t)
      /\ todo' = [todo EXCEPT ![t] = left]
      /\ pc' = [pc EXCEPT ![t] = IF left # {} THEN "find" ELSE "publish"]
      /\ UNCHANGED <<mem, slots, gmu, call, tiled, ok, calls, writes>>
  BY DEF Read, Goto
<1>2. /\ DOMAIN staged' = Threads /\ DOMAIN out' = Threads
      /\ \A u \in Threads \ {t} : staged'[u] = staged[u] /\ out'[u] = out[u]
  BY <1>1, Delivered
<1>3. /\ smu' \in [Key -> Threads \cup {NoOne}] /\ gmu # t
      /\ \A u \in Threads \ {t}, k \in Key : smu[k] = u => smu'[k] = u
  BY <1>1, Dropped
<1>4. AtPieces(t)   BY <1>1, RunningHasPieces
<1>5. left \subseteq todo[t]   OBVIOUS
<1> HIDE DEF left
<1>6. /\ todo' \in [Threads -> SUBSET Nat] /\ todo'[t] = left
      /\ \A u \in Threads \ {t} : todo'[u] = todo[u]
  BY <1>1, <1>5, Typed
<1>7. /\ pc' \in [Threads -> {"idle", "find", "compile", "fill", "infer", "read", "publish", "return"}]
      /\ \A u \in Threads \ {t} : pc'[u] = pc[u]
      /\ pc'[t] = IF left # {} THEN "find" ELSE "publish"
  BY <1>1, Typed
<1>8. Pieces(t)' = Pieces(t)   BY <1>1 DEF Pieces
<1>9. Disjoint(call[t])' = Disjoint(call[t])   BY <1>1 DEF Disjoint, Chunks
<1>10. CallInv(t)'
  <2>1. call'[t] \in Menu   BY <1>1, <1>4 DEF AtPieces
  <2>2. todo'[t] \subseteq Pieces(t)'   BY <1>4, <1>5, <1>6, <1>8 DEF AtPieces
  <2>3. pc'[t] = "publish" => todo'[t] = {}   BY <1>6, <1>7
  <2>4. call[t].op = "adc" => Disjoint(call[t]) /\ ~tiled[t]   BY <1>1, Typed DEF CallInv
  <2>5. call'[t].op = "adc" => Disjoint(call[t])' /\ ~tiled'[t]   BY <1>1, <1>9, <2>4
  <2> QED BY <2>1, <2>2, <2>3, <2>5 DEF CallInv
<1>11. pc'[t] = "find" => AtPieces(t)'
  <2>1. SUFFICES ASSUME pc'[t] = "find" PROVE AtPieces(t)'   OBVIOUS
  <2>2. left # {}   BY <2>1, <1>7
  <2>3. call'[t] \in Menu   BY <1>1, <1>4 DEF AtPieces
  <2>4. todo'[t] \subseteq Pieces(t)'   BY <1>4, <1>5, <1>6, <1>8 DEF AtPieces
  <2> QED BY <1>6, <2>2, <2>3, <2>4 DEF AtPieces
<1>12. pc'[t] = "find" => todo'[t] # {} /\ KeyOf(t)' \in Key
  BY <1>11, KeysStayKnown DEF AtPieces
<1>13. LocksOK(t)'   BY <1>1, <1>3, <1>7, <1>12 DEF LocksOK
<1>14. CompileInv(t)'   BY <1>7 DEF CompileInv
<1>15. ShapeInv'   BY <1>1, <1>2 DEF RunInv, ShapeInv
<1>16. Owned(t)   BY <1>1, <1>3, <1>6, <1>7, <1>10, <1>13, <1>14, <1>15, Typed DEF Owned
<1>17. Frame(t)   BY <1>1, <1>2, <1>3, <1>6, <1>7 DEF Frame
<1> QED BY <1>16, <1>17

LEMMA PublishOwned ==
  ASSUME RunInv, NEW t \in Threads, Publish(t) PROVE Owned(t) /\ Frame(t)
<1>1. /\ pc[t] = "publish" /\ ok' = [ok EXCEPT ![t] = TRUE]
      /\ pc' = [pc EXCEPT ![t] = "return"]
      /\ UNCHANGED <<mem, slots, gmu, smu, call, todo, tiled, staged, calls, writes>>
  BY DEF Publish, Goto
<1>2. DOMAIN out' = Threads /\ \A u \in Threads \ {t} : out'[u] = out[u]   BY Typed DEF Publish
<1>3. /\ pc' \in [Threads -> {"idle", "find", "compile", "fill", "infer", "read", "publish", "return"}]
      /\ pc'[t] = "return" /\ ok' \in [Threads -> BOOLEAN]
      /\ \A u \in Threads \ {t} : pc'[u] = pc[u] /\ ok'[u] = ok[u]
  BY <1>1, Typed
<1>4. CallInv(t)'   BY <1>1, <1>3, SameCall
<1>5. gmu # t   BY <1>1, Typed DEF LocksOK
<1>6. LocksOK(t)'   BY <1>1, <1>3, <1>5 DEF LocksOK
<1>7. CompileInv(t)'   BY <1>3 DEF CompileInv
<1>8. ShapeInv'   BY <1>1, <1>2 DEF RunInv, ShapeInv
<1>9. Owned(t)   BY <1>1, <1>3, <1>4, <1>6, <1>7, <1>8, Typed DEF Owned
<1>10. Frame(t)   BY <1>1, <1>2, <1>3 DEF Frame
<1> QED BY <1>9, <1>10

LEMMA ReturnOwned ==
  ASSUME RunInv, NEW t \in Threads, Return(t) PROVE Owned(t) /\ Frame(t)
<1>1. /\ pc[t] = "return" /\ pc' = [pc EXCEPT ![t] = "idle"]
      /\ call' = [call EXCEPT ![t] = NoCall] /\ todo' = [todo EXCEPT ![t] = {}]
      /\ out' = [out EXCEPT ![t] = Nothing] /\ staged' = [staged EXCEPT ![t] = Nothing]
      /\ UNCHANGED <<mem, slots, gmu, smu, tiled, ok, calls, writes>>
  BY DEF Return, Goto
<1>2. /\ pc' \in [Threads -> {"idle", "find", "compile", "fill", "infer", "read", "publish", "return"}]
      /\ call' \in [Threads -> Menu \cup {NoCall}] /\ todo' \in [Threads -> SUBSET Nat]
      /\ DOMAIN staged' = Threads /\ DOMAIN out' = Threads
      /\ pc'[t] = "idle"
  BY <1>1, Typed
<1>3. Frame(t)   BY <1>1, Typed DEF Frame
<1>4. CallInv(t)' /\ CompileInv(t)'   BY <1>2 DEF CallInv, CompileInv
<1>5. gmu # t   BY <1>1, Typed DEF LocksOK
<1>6. LocksOK(t)'   BY <1>1, <1>2, <1>5 DEF LocksOK
<1>7. ShapeInv'   BY <1>1, <1>2 DEF RunInv, ShapeInv
<1>8. Owned(t)   BY <1>1, <1>2, <1>4, <1>6, <1>7, Typed DEF Owned
<1> QED BY <1>3, <1>8

LEMMA ThreadOwned ==
  ASSUME RunInv, NEW t \in Threads, Call(t) \/ CallBatch(t) \/ Step(t)
  PROVE  Owned(t) /\ Frame(t)
<1>1. CASE Call(t)
  <2>1. PICK c \in Menu : c.op # "adc" /\ Start(t, c, {0})   BY <1>1 DEF Call
  <2> QED BY <2>1, StartOwned
<1>2. CASE CallBatch(t)
  <2>1. PICK c \in Menu : c.op = "adc" /\ Disjoint(c) /\ Start(t, c, Chunks(c))
    BY <1>2 DEF CallBatch
  <2>2. Chunks(c) \in SUBSET Nat /\ Chunks(c) # {}   BY <2>1, MenuBatch
  <2> QED BY <2>1, <2>2, StartOwned
<1>3. CASE Step(t)
  BY <1>3, RefuseOwned, FindOwned, CompileOwned, FillOwned, InferOwned, OutOfRangeOwned,
     ReadOwned, PublishOwned, ReturnOwned DEF Step
<1> QED BY <1>1, <1>2, <1>3

LEMMA OthersKeep ==
  ASSUME RunInv, NEW t \in Threads, Frame(t), NEW u \in Threads \ {t}
  PROVE  /\ LocksOK(u)' /\ CallInv(u)' /\ CompileInv(u)'
         /\ KeyOf(u)' = KeyOf(u) /\ Pieces(u)' = Pieces(u)
<1>1. /\ pc'[u] = pc[u] /\ call'[u] = call[u] /\ todo'[u] = todo[u] /\ tiled'[u] = tiled[u]
      /\ (gmu' = u) <=> (gmu = u)
      /\ \A k \in Key : smu[k] = u => smu'[k] = u
      /\ DOMAIN slots \subseteq DOMAIN slots' /\ (gmu = t \/ DOMAIN slots' = DOMAIN slots)
  BY DEF Frame
<1>2. LocksOK(u) /\ CallInv(u) /\ CompileInv(u)   BY Typed
<1>3. KeyOf(u)' = KeyOf(u) /\ Pieces(u)' = Pieces(u)   BY <1>1, KeyStands
<1>4. Disjoint(call[u])' = Disjoint(call[u])   BY <1>1 DEF Disjoint, Chunks
<1>5. LocksOK(u)'   BY <1>1, <1>2, <1>3 DEF LocksOK
<1>6. CallInv(u)'   BY <1>1, <1>2, <1>3, <1>4 DEF CallInv
<1>7. CompileInv(u)'   BY <1>1, <1>2, <1>3 DEF CompileInv, LocksOK
<1> QED BY <1>3, <1>5, <1>6, <1>7

LEMMA RewriteRuns ==
  ASSUME RunInv, NEW b \in Buf, Rewrite(b) PROVE RunInv'
<1>1. /\ writes < MaxWrites /\ writes' = writes + 1
      /\ UNCHANGED <<slots, gmu, smu, pc, call, todo, tiled, staged, out, ok, calls>>
  BY DEF Rewrite
<1>2. PICK v \in Contents(b) : mem' = [mem EXCEPT ![b] = v]   BY DEF Rewrite
<1>3. mem' \in [Buf -> Content] /\ writes' \in 0 .. MaxWrites
  BY <1>1, <1>2, NpuRequestsAssumption DEF RunInv, TypeOK, Contents
<1>4. ASSUME NEW t \in Threads PROVE LocksOK(t)' /\ CallInv(t)' /\ CompileInv(t)'
  <2>1. KeyOf(t)' = KeyOf(t) /\ Pieces(t)' = Pieces(t)   BY <1>1, KeyStands
  <2>2. Disjoint(call[t])' = Disjoint(call[t])   BY <1>1 DEF Disjoint, Chunks
  <2> QED BY <1>1, <2>1, <2>2, Typed DEF LocksOK, CallInv, CompileInv
<1>5. ShapeInv'   BY <1>1 DEF RunInv, ShapeInv
<1>6. TypeOK'   BY <1>1, <1>3, <1>4, Typed DEF TypeOK
<1> QED BY <1>4, <1>5, <1>6 DEF RunInv

LEMMA RunInit == Init => RunInv
<1> SUFFICES ASSUME Init PROVE RunInv   OBVIOUS
<1> USE NpuRequestsAssumption DEF Init
<1>1. mem \in [Buf -> Content]   BY DEF Content
<1>2. DOMAIN slots = {}   BY DEF Nothing
<1>3. ShapeInv   BY <1>2 DEF ShapeInv, Nothing
<1>4. \A t \in Threads : LocksOK(t) /\ CallInv(t) /\ CompileInv(t)
  BY DEF LocksOK, CallInv, CompileInv
<1>5. TypeOK   BY <1>1, <1>2, <1>4 DEF TypeOK
<1> QED BY <1>3, <1>4, <1>5 DEF RunInv

LEMMA RunStep == RunInv /\ [Next]_vars => RunInv'
<1> SUFFICES ASSUME RunInv, [Next]_vars PROVE RunInv'   OBVIOUS
<1>1. ASSUME NEW t \in Threads, Call(t) \/ CallBatch(t) \/ Step(t) PROVE RunInv'
  <2>1. Owned(t) /\ Frame(t)   BY <1>1, ThreadOwned
  <2>2. \A u \in Threads : LocksOK(u)' /\ CallInv(u)' /\ CompileInv(u)'
    BY <2>1, OthersKeep DEF Owned
  <2>3. mem' \in [Buf -> Content] /\ writes' \in 0 .. MaxWrites
    BY <2>1 DEF Frame, RunInv, TypeOK
  <2>4. TypeOK'   BY <2>1, <2>2, <2>3 DEF Owned, TypeOK
  <2> QED BY <2>1, <2>2, <2>4 DEF Owned, RunInv
<1>2. ASSUME NEW b \in Buf, Rewrite(b) PROVE RunInv'   BY <1>2, RewriteRuns
<1>3. CASE UNCHANGED vars
  <2>1. UNCHANGED <<mem, slots, gmu, smu, pc, call, todo, tiled, staged, out, ok, calls, writes>>
    BY <1>3 DEF vars
  <2>2. ASSUME NEW t \in Threads PROVE LocksOK(t)' /\ CallInv(t)' /\ CompileInv(t)'
    <3>1. KeyOf(t)' = KeyOf(t) /\ Pieces(t)' = Pieces(t)   BY <2>1, KeyStands
    <3>2. Disjoint(call[t])' = Disjoint(call[t])   BY <2>1 DEF Disjoint, Chunks
    <3> QED BY <2>1, <3>1, <3>2, Typed DEF LocksOK, CallInv, CompileInv
  <2>3. ShapeInv'   BY <2>1 DEF RunInv, ShapeInv
  <2>4. TypeOK'   BY <2>1, <2>2 DEF RunInv, TypeOK
  <2> QED BY <2>2, <2>3, <2>4 DEF RunInv
<1> QED BY <1>1, <1>2, <1>3 DEF Next

\* Every variable keeps its type, the map and each request are locked by one thread at a
\* time, and a thread that fills, runs or reads a request holds its lock
\* (backend_npu.cpp 285-299, 825).
THEOREM TypesAreKept == Spec => []TypeOK
<1>1. RunInv => TypeOK   BY DEF RunInv
<1> QED BY <1>1, RunInit, RunStep, PTL DEF Spec
-----------------------------------------------------------------------------
(* Batches.                                                                *)

\* Where a failure leaves its thread.
LEMMA FailEnds ==
  ASSUME RunInv, NEW t \in Threads, pc[t] # "idle", Fail(t), call' = call
  PROVE  /\ pc'[t] \in {"find", "return"} /\ (pc'[t] = "return" => ok'[t] = FALSE)
         /\ pc'[t] = "find" => todo'[t] = Pieces(t)' /\ call[t].op # "adc"
<1>1. t \in DOMAIN pc /\ t \in DOMAIN tiled /\ t \in DOMAIN todo /\ t \in DOMAIN ok
  BY Typed
<1>2. CASE call[t].op # "adc" /\ ~tiled[t] /\ call[t].tiles > 0
  <2>1. /\ todo' = [todo EXCEPT ![t] = 1 .. call[t].tiles]
        /\ tiled' = [tiled EXCEPT ![t] = TRUE] /\ pc' = [pc EXCEPT ![t] = "find"]
    BY <1>2 DEF Fail, Goto
  <2>2. todo'[t] = 1 .. call[t].tiles /\ tiled'[t] = TRUE /\ pc'[t] = "find"   BY <1>1, <2>1
  <2>3. Pieces(t)' = 1 .. call[t].tiles   BY <2>2, <1>2 DEF Pieces
  <2> QED BY <1>2, <2>2, <2>3
<1>3. CASE ~(call[t].op # "adc" /\ ~tiled[t] /\ call[t].tiles > 0)
  <2>1. ok' = [ok EXCEPT ![t] = FALSE] /\ pc' = [pc EXCEPT ![t] = "return"]
    BY <1>3 DEF Fail, Goto
  <2> QED BY <1>1, <2>1
<1> QED BY <1>2, <1>3

LEMMA BatchStep == RunInv /\ BatchAllOrNothing /\ [Next]_vars => BatchAllOrNothing'
<1> SUFFICES ASSUME RunInv, BatchAllOrNothing, [Next]_vars,
                    NEW u \in Threads, call'[u].op = "adc", ~(pc'[u] = "return" /\ ok'[u])
             PROVE  out'[u] = Nothing
  BY DEF BatchAllOrNothing
<1>1. CASE \E t \in Threads \ {u} : Call(t) \/ CallBatch(t) \/ Step(t)
  <2>1. PICK t \in Threads \ {u} : Call(t) \/ CallBatch(t) \/ Step(t)   BY <1>1
  <2>2. Frame(t)   BY <2>1, ThreadOwned
  <2>3. call'[u] = call[u] /\ pc'[u] = pc[u] /\ ok'[u] = ok[u] /\ out'[u] = out[u]
    BY <2>1, <2>2 DEF Frame
  <2> QED BY <2>3 DEF BatchAllOrNothing
<1>2. CASE Call(u) \/ CallBatch(u)
  <2>1. out' = [out EXCEPT ![u] = Nothing]   BY <1>2 DEF Call, CallBatch, Start
  <2> QED BY <2>1, Typed
<1>3. ASSUME pc[u] # "return", call' = call PROVE out[u] = Nothing
  BY <1>3 DEF BatchAllOrNothing
<1>4. CASE Step(u)
  <2>1. CASE Refuse(u) \/ Find(u) \/ Compile(u) \/ Fill(u) \/ Infer(u)
    <3>1. pc[u] # "return" /\ call' = call /\ out' = out
      BY <2>1 DEF Refuse, Find, Compile, Fill, Infer
    <3> QED BY <1>3, <3>1
  <2>2. CASE OutOfRange(u)
    <3>1. pc[u] # "return" /\ call' = call   BY <2>2 DEF OutOfRange
    <3>2. out' = out   BY <2>2, <3>1 DEF OutOfRange
    <3> QED BY <1>3, <3>1, <3>2
  <2>3. CASE Read(u)
    <3>1. pc[u] # "return" /\ call' = call /\ Deliver(u)   BY <2>3 DEF Read
    <3>2. out'[u] = out[u]   BY <3>1, Delivered
    <3> QED BY <1>3, <3>1, <3>2
  <2>4. CASE Publish(u)
    <3>1. pc' = [pc EXCEPT ![u] = "return"] /\ ok' = [ok EXCEPT ![u] = TRUE]
      BY <2>4 DEF Publish, Goto
    <3> QED BY <3>1, Typed
  <2>5. CASE Return(u)
    <3>1. call' = [call EXCEPT ![u] = NoCall]   BY <2>5 DEF Return
    <3>2. call'[u].op = "none"   BY <3>1, Typed DEF NoCall
    <3> QED BY <3>2
  <2> QED BY <1>4, <2>1, <2>2, <2>3, <2>4, <2>5 DEF Step
<1>5. CASE \E b \in Buf : Rewrite(b)
  <2>1. UNCHANGED <<call, pc, ok, out>>   BY <1>5 DEF Rewrite
  <2> QED BY <2>1 DEF BatchAllOrNothing
<1>6. CASE UNCHANGED vars
  <2>1. UNCHANGED <<call, pc, ok, out>>   BY <1>6 DEF vars
  <2> QED BY <2>1 DEF BatchAllOrNothing
<1> QED BY <1>1, <1>2, <1>4, <1>5, <1>6 DEF Next

\* A batch of ADC chunks writes nothing to the caller before it succeeds in full, however
\* its requests fail and whoever runs between them (backend_npu.cpp 738-751, 941-948).
THEOREM BatchesAreAllOrNothing == Spec => []BatchAllOrNothing
<1>1. Init => BatchAllOrNothing   BY DEF Init, BatchAllOrNothing, NoCall
<1> QED BY <1>1, RunInit, RunStep, BatchStep, PTL DEF Spec

-----------------------------------------------------------------------------
(* Fingerprints and tensors.                                               *)

FullySampled == "unsampled" \notin Habits

\* If the samples tell contents apart, an operand with the fingerprint of a tensor is
\* what the tensor holds.
LEMMA AlikeIsSame ==
  ASSUME FullySampled, MemInv, NEW k \in DOMAIN slots, SlotsInv,
         NEW b \in Buf, NEW tile \in Nat, NEW i, Holds(slots[k], i, Part(b, tile))
  PROVE  slots[k].tensor[i] = Part(b, tile)
<1> DEFINE p == slots[k].tensor[i]
           q == Part(b, tile)
<1>1. q.buf = b /\ q.tile = tile /\ q.val = mem[b] /\ q = [buf |-> b, tile |-> tile, val |-> mem[b]]
  BY DEF Part
<1>2. b \in Large /\ i \in DOMAIN slots[k].fp /\ slots[k].fp[i] = Fingerprint(q)
  BY <1>1 DEF Holds
<1>3. Fingerprint(q).addr = <<b, tile>> /\ Fingerprint(q).hash = mem[b].seen
  BY <1>1 DEF Fingerprint
<1>4. slots[k].fp[i] # NoFingerprint
  <2>1. Len(NoFingerprint.addr) = 0   BY DEF NoFingerprint
  <2>2. Len(<<b, tile>>) = 2   OBVIOUS
  <2> HIDE DEF q
  <2>3. SUFFICES ASSUME slots[k].fp[i] = NoFingerprint PROVE FALSE   OBVIOUS
  <2>4. Fingerprint(q) = NoFingerprint   BY <1>2, <2>3
  <2>5. NoFingerprint.addr = <<b, tile>>   BY <1>3, <2>4
  <2> QED BY <2>1, <2>2, <2>5
<1>5. /\ p = [buf |-> p.buf, tile |-> p.tile, val |-> p.val]
      /\ p.buf \in Large /\ p.val \in Contents(p.buf)
      /\ slots[k].fp[i] = Fingerprint(p)
  BY <1>2, <1>4 DEF SlotsInv
<1> HIDE DEF p, q
<1>6. Fingerprint(p).addr = <<p.buf, p.tile>> /\ Fingerprint(p).hash = p.val.seen
  BY DEF Fingerprint
<1>7. p.buf = b /\ p.tile = tile /\ p.val.seen = mem[b].seen
  BY <1>2, <1>3, <1>5, <1>6
<1>8. /\ mem[b] \in Content /\ mem[b].rest = mem[b].seen
      /\ p.val \in Content /\ p.val.rest = p.val.seen
  BY <1>2, <1>5 DEF MemInv, Contents, FullySampled
<1>9. p.val = mem[b]   BY <1>7, <1>8 DEF Content
<1>10. p = q   BY <1>1, <1>5, <1>7, <1>9
<1> QED BY <1>10 DEF p, q

LEMMA FillHolds ==
  ASSUME FullySampled, RunInv, MemInv, SlotsInv, NEW t \in Threads, Fill(t)
  PROVE  SlotsInv' /\ slots'[KeyOf(t)].tensor = Request(t).parts
<1> DEFINE k == KeyOf(t)
           parts == Request(t).parts
           new == IF call[t].op = "adc" THEN LanesFilled(slots[k], parts)
                  ELSE Filled(slots[k], parts)
<1>1. pc[t] = "fill" /\ slots' = [slots EXCEPT ![k] = new]   BY DEF Fill
<1>2. AtPieces(t) /\ k \in DOMAIN slots   BY <1>1, RunningHasPieces, Typed DEF LocksOK
<1>3. slots[k] = [tensor |-> slots[k].tensor, fp |-> slots[k].fp]
  BY <1>2 DEF RunInv, ShapeInv
<1>4. CASE call[t].op = "adc"
  <2>1. new.tensor = parts /\ new.fp = slots[k].fp   BY <1>3, <1>4 DEF LanesFilled
  <2>2. k[1] = "adc"   BY <1>2, <1>4, BatchRequest
  <2>3. DOMAIN new.fp = {}   BY <1>2, <2>1, <2>2 DEF SlotsInv
  <2> HIDE DEF new, k, parts
  <2>4. \A l \in DOMAIN slots : slots'[l] = IF l = k THEN new ELSE slots[l]   BY <1>1, <1>2
  <2>5. DOMAIN slots' = DOMAIN slots   BY <1>1
  <2>6. ASSUME NEW l \in DOMAIN slots, l # k
        PROVE  /\ l[1] = "adc" => DOMAIN slots[l].fp = {}
               /\ \A i \in DOMAIN slots[l].fp :
                    \/ slots[l].fp[i] = NoFingerprint
                    \/ LET p == slots[l].tensor[i]
                       IN /\ p = [buf |-> p.buf, tile |-> p.tile, val |-> p.val]
                          /\ p.buf \in Large /\ p.val \in Contents(p.buf)
                          /\ slots[l].fp[i] = Fingerprint(p)
    BY DEF SlotsInv
  <2>7. SlotsInv'   BY <2>3, <2>4, <2>5, <2>6 DEF SlotsInv, Contents, Fingerprint
  <2>8. slots'[k].tensor = parts   BY <1>2, <2>1, <2>4
  <2> QED BY <2>7, <2>8 DEF k, parts
<1>5. CASE call[t].op # "adc"
  <2>1. /\ k[1] # "adc" /\ parts = [i \in DOMAIN parts |-> parts[i]]
        /\ \A i \in DOMAIN parts : \E b \in Buf, tile \in Nat : parts[i] = Part(b, tile)
    BY <1>2, <1>5, DirectRequest
  <2> HIDE DEF k, parts
  <2>2. new = Filled(slots[k], parts)   BY <1>5
  <2>3. /\ new.tensor = [i \in DOMAIN parts |->
                           IF Holds(slots[k], i, parts[i]) THEN slots[k].tensor[i] ELSE parts[i]]
        /\ new.fp = [i \in DOMAIN parts |->
                       IF parts[i].buf \in Large THEN Fingerprint(parts[i]) ELSE NoFingerprint]
    BY <2>2 DEF Filled
  <2>4. ASSUME NEW i \in DOMAIN parts, Holds(slots[k], i, parts[i])
        PROVE  slots[k].tensor[i] = parts[i]
    BY <1>2, <2>1, <2>4, AlikeIsSame
  <2>5. new.tensor = parts   BY <2>1, <2>3, <2>4
  <2>6. ASSUME NEW i \in DOMAIN new.fp, new.fp[i] # NoFingerprint
        PROVE  LET p == new.tensor[i]
               IN /\ p = [buf |-> p.buf, tile |-> p.tile, val |-> p.val]
                  /\ p.buf \in Large /\ p.val \in Contents(p.buf)
                  /\ new.fp[i] = Fingerprint(p)
    <3>1. i \in DOMAIN parts   BY <2>3
    <3>2. parts[i].buf \in Large /\ new.fp[i] = Fingerprint(parts[i])   BY <2>3, <2>6, <3>1
    <3>3. PICK b \in Buf, tile \in Nat : parts[i] = Part(b, tile)   BY <2>1, <3>1
    <3>4. /\ parts[i].buf = b /\ parts[i].tile = tile /\ parts[i].val = mem[b]
          /\ parts[i] = [buf |-> b, tile |-> tile, val |-> mem[b]]
      BY <3>3 DEF Part
    <3>5. mem[b] \in Contents(b)   BY DEF MemInv
    <3> QED BY <2>5, <3>2, <3>4, <3>5
  <2> HIDE DEF new
  <2>7. \A l \in DOMAIN slots : slots'[l] = IF l = k THEN new ELSE slots[l]   BY <1>1, <1>2
  <2>8. DOMAIN slots' = DOMAIN slots   BY <1>1
  <2>9. SlotsInv'
    <3>1. ASSUME NEW l \in DOMAIN slots
          PROVE  /\ l[1] = "adc" => DOMAIN slots'[l].fp = {}
                 /\ \A i \in DOMAIN slots'[l].fp :
                      \/ slots'[l].fp[i] = NoFingerprint
                      \/ LET p == slots'[l].tensor[i]
                         IN /\ p = [buf |-> p.buf, tile |-> p.tile, val |-> p.val]
                            /\ p.buf \in Large /\ p.val \in Contents(p.buf)
                            /\ slots'[l].fp[i] = Fingerprint(p)
      <4>1. CASE l = k
        <5>1. slots'[l] = new   BY <2>7, <4>1
        <5> QED BY <2>1, <2>6, <4>1, <5>1
      <4>2. CASE l # k
        <5>1. slots'[l] = slots[l]   BY <2>7, <4>2
        <5> QED BY <5>1 DEF SlotsInv
      <4> QED BY <4>1, <4>2
    <3> QED BY <2>8, <3>1 DEF SlotsInv, Contents, Fingerprint
  <2>10. slots'[k].tensor = parts   BY <1>2, <2>5, <2>7
  <2> QED BY <2>9, <2>10 DEF k, parts
<1> QED BY <1>4, <1>5
-----------------------------------------------------------------------------
(* What a call has been answered.                                          *)

Returned(t) ==
  pc[t] = "return" /\ ok[t] => \A i \in Pieces(t) : Answered(out[t], call[t], i)

\* A thread keeps its answers and its request while nobody touches its call, its
\* buffers and the request that it holds.
LEMMA ThreadStands ==
  ASSUME RunInv, NEW t \in Threads, Filling(t), Progress(t), Returned(t),
         pc'[t] = pc[t], call'[t] = call[t], todo'[t] = todo[t], tiled'[t] = tiled[t],
         ok'[t] = ok[t], staged'[t] = staged[t], out'[t] = out[t],
         pc[t] # "idle" => \A b \in Reads(call[t]) : mem'[b] = mem[b],
         pc[t] \in {"infer", "read"} => slots'[KeyOf(t)] = slots[KeyOf(t)]
  PROVE  Filling(t)' /\ Progress(t)' /\ Returned(t)'
<1>1. CASE pc[t] = "idle"   BY <1>1 DEF Filling, Progress, Returned
<1>2. CASE pc[t] # "idle"
  <2>1. call[t] \in Menu /\ todo[t] \subseteq Pieces(t)   BY <1>2, Typed DEF CallInv
  <2>2. KeyOf(t)' = KeyOf(t) /\ Pieces(t)' = Pieces(t)   BY KeyStands
  <2>3. Request(t)' = Request(t)   BY <1>2, <2>1, RequestStands DEF Pieces
  <2>4. \A i \in Pieces(t) : Answer(call[t], i)' = Answer(call[t], i)
    BY <1>2, <2>1, AnswersStand
  <2>5. Gathered(t)' = Gathered(t)   BY DEF Gathered
  <2>6. Filling(t)'   BY <2>2, <2>3 DEF Filling
  <2>7. Progress(t)'   BY <2>2, <2>4, <2>5 DEF Progress, Answered, Place
  <2>8. Returned(t)'   BY <2>2, <2>4 DEF Returned, Answered, Place
  <2> QED BY <2>6, <2>7, <2>8
<1> QED BY <1>1, <1>2

\* No step of a thread touches a request that another one holds.
LEMMA SlotsSpared ==
  ASSUME RunInv, NEW t \in Threads, Call(t) \/ CallBatch(t) \/ Step(t),
         NEW k \in DOMAIN slots, smu[k] \in Threads
  PROVE  slots'[k] = slots[k]
<1>1. CASE Fill(t)
  <2>1. smu[KeyOf(t)] = NoOne   BY <1>1 DEF Fill, TakeSlot
  <2>2. k # KeyOf(t)   BY <2>1, NpuRequestsAssumption
  <2> DEFINE l == KeyOf(t)
  <2>3. PICK new : slots' = [slots EXCEPT ![l] = new]   BY <1>1 DEF Fill
  <2> HIDE DEF l
  <2> QED BY <2>2, <2>3 DEF l
<1>2. CASE Compile(t)
  <2>1. CASE slots' = slots   BY <2>1
  <2>2. CASE slots' = Over([l \in {KeyOf(t)} |-> NewSlot], slots)
    <3>1. KeyOf(t) \notin DOMAIN slots   BY <1>2, Typed DEF CompileInv, Compile
    <3> QED BY <2>2, <3>1 DEF Over
  <2> QED BY <1>2, <2>1, <2>2 DEF Compile
<1>3. CASE ~Fill(t) /\ ~Compile(t)
  BY <1>3 DEF Call, CallBatch, Start, Step, Refuse, Find, Infer, OutOfRange, Read, Publish, Return
<1> QED BY <1>1, <1>2, <1>3

\* A missing fingerprint says nothing: a new request, and steps that touch no request.
LEMMA SlotsStand ==
  ASSUME RunInv, NEW t \in Threads, Call(t) \/ CallBatch(t) \/ Step(t), ~Fill(t), SlotsInv
  PROVE  SlotsInv'
<1>1. CASE slots' = slots   BY <1>1 DEF SlotsInv, Contents, Fingerprint
<1>2. CASE slots' # slots
  <2>1. Compile(t)
    BY <1>2 DEF Call, CallBatch, Start, Step, Refuse, Find, Infer, OutOfRange, Read, Publish, Return
  <2> DEFINE k == KeyOf(t)
  <2>2. slots' = Over([l \in {k} |-> NewSlot], slots)   BY <1>2, <2>1 DEF Compile
  <2> HIDE DEF k
  <2>3. /\ DOMAIN slots' = {k} \cup DOMAIN slots
        /\ \A l \in DOMAIN slots' : slots'[l] = IF l = k THEN NewSlot ELSE slots[l]
    BY <2>2 DEF Over
  <2>4. DOMAIN NewSlot.fp = {}   BY DEF NewSlot, Nothing
  <2>5. ASSUME NEW l \in DOMAIN slots', l # k
        PROVE  slots'[l] = slots[l] /\ l \in DOMAIN slots
    BY <2>3, <2>5
  <2>6. slots'[k] = NewSlot   BY <2>3
  <2>7. ASSUME NEW l \in DOMAIN slots'
        PROVE  l[1] = "adc" => DOMAIN slots'[l].fp = {}
    BY <2>4, <2>5, <2>6 DEF SlotsInv
  <2>8. ASSUME NEW l \in DOMAIN slots', NEW i \in DOMAIN slots'[l].fp
        PROVE  \/ slots'[l].fp[i] = NoFingerprint
               \/ LET p == slots'[l].tensor[i]
                  IN /\ p = [buf |-> p.buf, tile |-> p.tile, val |-> p.val]
                     /\ p.buf \in Large /\ p.val \in Contents(p.buf)
                     /\ slots'[l].fp[i] = Fingerprint(p)
    BY <2>4, <2>5, <2>6, <2>8 DEF SlotsInv
  <2> QED BY <2>7, <2>8 DEF SlotsInv, Contents, Fingerprint
<1> QED BY <1>1, <1>2

LEMMA PlacesDiffer ==
  ASSUME RunInv, NEW t \in Threads, pc[t] # "idle",
         NEW i \in Pieces(t), NEW j \in Pieces(t), Place(call[t], i) = Place(call[t], j)
  PROVE  i = j
BY Typed DEF CallInv, Place, Pieces, Disjoint, Chunks

\* The results of a request that held the operands of its caller.
LEMMA ResultsAreRight ==
  ASSUME RunInv, NEW t \in Threads, pc[t] = "read", Filling(t)
  PROVE  /\ DOMAIN Results(t) = {Place(call[t], i) : i \in Request(t).takes}
         /\ \A i \in Request(t).takes : Results(t)[Place(call[t], i)] = Answer(call[t], i)
<1> DEFINE c == call[t]
           takes == Request(t).takes
           tensor == slots[KeyOf(t)].tensor
           piece(at) == CHOOSE i \in takes : Place(c, i) = at
<1>1. AtPieces(t)   BY RunningHasPieces
<1>2. tensor = Request(t).parts   BY DEF Filling
<1>3. takes \subseteq Pieces(t)   BY <1>1, BatchRequest, DirectRequest DEF AtPieces
<1>4. Results(t) = [at \in {Place(c, i) : i \in takes} |->
                      IF c.op = "adc" THEN <<tensor[LaneOf(c, todo[t], piece(at))]>> ELSE tensor]
  BY DEF Results
<1>5. ASSUME NEW i \in takes PROVE piece(Place(c, i)) = i
  <2>1. piece(Place(c, i)) \in takes /\ Place(c, piece(Place(c, i))) = Place(c, i)   OBVIOUS
  <2> HIDE DEF piece, takes
  <2> QED BY <2>1, <1>3, PlacesDiffer
<1>6. CASE c.op = "adc"
  <2>1. \A i \in takes : tensor[LaneOf(c, todo[t], i)] = Lane(c, i)
    BY <1>1, <1>2, <1>6, BatchRequest
  <2>2. ASSUME NEW i \in takes PROVE Results(t)[Place(c, i)] = <<Lane(c, i)>>
    <3> HIDE DEF piece, takes, tensor
    <3> QED BY <1>4, <1>5, <1>6, <2>1
  <2> HIDE DEF takes, tensor, piece
  <2> QED BY <1>4, <1>6, <2>2 DEF Answer, takes
<1>7. CASE c.op # "adc"
  <2>1. \A i \in takes : tensor = Answer(c, i)   BY <1>1, <1>2, <1>7, DirectRequest
  <2> HIDE DEF takes, tensor, piece
  <2> QED BY <1>4, <1>7, <2>1 DEF takes
<1> QED BY <1>6, <1>7
\* The steps that leave the call, its pieces and its answers as they are.
LEMMA SameProgress ==
  ASSUME RunInv, NEW t \in Threads, Progress(t), pc[t] \notin {"idle", "return"},
         pc'[t] # "return",
         call' = call, todo' = todo, tiled' = tiled, staged' = staged, out' = out, mem' = mem
  PROVE  Progress(t)' /\ Returned(t)' /\ Request(t)' = Request(t) /\ KeyOf(t)' = KeyOf(t)
<1>1. call[t] \in Menu /\ todo[t] \subseteq Pieces(t)   BY Typed DEF CallInv
<1>2. KeyOf(t)' = KeyOf(t) /\ Pieces(t)' = Pieces(t)   BY KeyStands
<1>3. Request(t)' = Request(t)   BY <1>1, RequestStands DEF Pieces
<1>4. \A i \in Pieces(t) : Answer(call[t], i)' = Answer(call[t], i)   BY <1>1, AnswersStand
<1>5. Gathered(t)' = Gathered(t)   BY DEF Gathered
<1>6. pc[t] \in {"find", "compile", "fill", "infer", "read", "publish"}   BY Typed
<1>7. Progress(t)'   BY <1>2, <1>4, <1>5, <1>6 DEF Progress, Answered, Place
<1>8. Returned(t)'   BY DEF Returned
<1> QED BY <1>2, <1>3, <1>7, <1>8

\* A failure leaves nothing to be answered: the call failed, or starts again in tiles.
LEMMA FailAnswers ==
  ASSUME RunInv, NEW t \in Threads, pc[t] # "idle", Fail(t), call' = call
  PROVE  Filling(t)' /\ Progress(t)' /\ Returned(t)'
<1>1. /\ pc'[t] \in {"find", "return"} /\ (pc'[t] = "return" => ok'[t] = FALSE)
      /\ pc'[t] = "find" => todo'[t] = Pieces(t)'
  BY FailEnds
<1> QED BY <1>1 DEF Filling, Progress, Returned

LEMMA ReadAnswers ==
  ASSUME RunInv, NEW t \in Threads, Filling(t), Progress(t), Read(t)
  PROVE  Filling(t)' /\ Progress(t)' /\ Returned(t)'
<1> DEFINE takes == Request(t).takes
           c == call[t]
<1>1. /\ pc[t] = "read" /\ Deliver(t)
      /\ todo' = [todo EXCEPT ![t] = @ \ takes]
      /\ pc' = [pc EXCEPT ![t] = IF todo[t] \ takes # {} THEN "find" ELSE "publish"]
      /\ UNCHANGED <<mem, call, tiled>>
  BY DEF Read, Goto
<1>2. AtPieces(t)   BY <1>1, RunningHasPieces
<1>3. takes \subseteq todo[t]   BY <1>2, BatchRequest, DirectRequest
<1>4. /\ DOMAIN Results(t) = {Place(c, i) : i \in takes}
      /\ \A i \in takes : Results(t)[Place(c, i)] = Answer(c, i)
  BY <1>1, ResultsAreRight
<1>5. Gathered(t)' = Over(Results(t), Gathered(t))
  BY <1>1, Delivered DEF Gathered
<1> HIDE DEF takes
<1>6. todo'[t] = todo[t] \ takes /\ pc'[t] \in {"find", "publish"}   BY <1>1, Typed
<1>7. Pieces(t)' = Pieces(t)   BY <1>1 DEF Pieces
<1>8. \A i \in Pieces(t) : Answer(c, i)' = Answer(c, i)
  BY <1>1, <1>2, AnswersStand DEF AtPieces
<1>9. ASSUME NEW i \in Pieces(t) \ todo'[t]
      PROVE  /\ Place(c, i) \in DOMAIN Over(Results(t), Gathered(t))
             /\ Over(Results(t), Gathered(t))[Place(c, i)] = Answer(c, i)
  <2>1. CASE i \in takes   BY <2>1, <1>4 DEF Over
  <2>2. CASE i \notin takes
    <3>1. i \in Pieces(t) \ todo[t]   BY <1>6, <2>2
    <3>2. Place(c, i) \in DOMAIN Gathered(t) /\ Gathered(t)[Place(c, i)] = Answer(c, i)
      BY <1>1, <3>1 DEF Progress, Answered
    <3>3. \A j \in takes : Place(c, j) # Place(c, i)
      BY <1>1, <1>2, <1>3, <2>2, PlacesDiffer DEF AtPieces
    <3>4. Place(c, i) \notin DOMAIN Results(t)   BY <1>4, <3>3
    <3> QED BY <3>2, <3>4 DEF Over
  <2> QED BY <2>1, <2>2
<1>10. Progress(t)'   BY <1>1, <1>5, <1>7, <1>8, <1>9 DEF Progress, Answered, Place
<1>11. Filling(t)' /\ Returned(t)'   BY <1>6 DEF Filling, Returned
<1> QED BY <1>10, <1>11

LEMMA PublishAnswers ==
  ASSUME RunInv, NEW t \in Threads, Progress(t), Publish(t)
  PROVE  Filling(t)' /\ Progress(t)' /\ Returned(t)'
<1>1. /\ pc[t] = "publish" /\ pc' = [pc EXCEPT ![t] = "return"]
      /\ UNCHANGED <<mem, call, todo, tiled, staged>>
  BY DEF Publish, Goto
<1>2. call[t] \in Menu /\ todo[t] = {}   BY <1>1, Typed DEF CallInv
<1>3. pc'[t] = "return"   BY <1>1, Typed
<1>4. out'[t] = Gathered(t)   BY Typed DEF Publish, Gathered
<1>5. Pieces(t)' = Pieces(t)   BY <1>1, KeyStands
<1>6. \A i \in Pieces(t) : Answer(call[t], i)' = Answer(call[t], i)
  BY <1>1, <1>2, AnswersStand
<1>7. \A i \in Pieces(t) : Answered(Gathered(t), call[t], i)   BY <1>1, <1>2 DEF Progress
<1>8. Returned(t)'   BY <1>1, <1>4, <1>5, <1>6, <1>7 DEF Returned, Answered, Place
<1>9. Filling(t)' /\ Progress(t)'   BY <1>3 DEF Filling, Progress
<1> QED BY <1>8, <1>9

LEMMA OwnAnswers ==
  ASSUME FullySampled, RunInv, AnswerInv, NEW t \in Threads, Call(t) \/ CallBatch(t) \/ Step(t)
  PROVE  Filling(t)' /\ Progress(t)' /\ Returned(t)'
<1>1. Filling(t) /\ Progress(t)   BY DEF AnswerInv
<1>2. ASSUME NEW c \in Menu, NEW pieces, Start(t, c, pieces),
             pieces = IF c.op = "adc" THEN Chunks(c) ELSE {0}
      PROVE  Filling(t)' /\ Progress(t)' /\ Returned(t)'
  <2>1. /\ call' = [call EXCEPT ![t] = c] /\ todo' = [todo EXCEPT ![t] = pieces]
        /\ tiled' = [tiled EXCEPT ![t] = FALSE] /\ pc' = [pc EXCEPT ![t] = "find"]
    BY <1>2 DEF Start, Goto
  <2>2. call'[t] = c /\ todo'[t] = pieces /\ tiled'[t] = FALSE /\ pc'[t] = "find"
    BY <2>1, Typed
  <2>3. Pieces(t)' = todo'[t]   BY <1>2, <2>2 DEF Pieces
  <2> QED BY <2>2, <2>3 DEF Filling, Progress, Returned
<1>3. CASE Call(t)   BY <1>2, <1>3 DEF Call
<1>4. CASE CallBatch(t)   BY <1>2, <1>4 DEF CallBatch
<1>5. CASE Refuse(t)
  <2>1. pc[t] # "idle" /\ Fail(t) /\ call' = call   BY <1>5 DEF Refuse
  <2> QED BY <2>1, FailAnswers
<1>6. CASE Find(t)
  <2>1. /\ pc[t] = "find" /\ UNCHANGED <<mem, call, todo, tiled, staged, out>>
        /\ pc' = [pc EXCEPT ![t] = "fill"] \/ pc' = [pc EXCEPT ![t] = "compile"]
    BY <1>6 DEF Find, Goto
  <2>2. pc'[t] \in {"fill", "compile"}   BY <2>1, Typed
  <2>3. Progress(t)' /\ Returned(t)'   BY <1>1, <2>1, <2>2, SameProgress
  <2> QED BY <2>2, <2>3 DEF Filling
<1>7. CASE Compile(t)
  <2>1. pc[t] = "compile" /\ UNCHANGED <<mem, call, staged, out>>   BY <1>7 DEF Compile
  <2>2. CASE Fail(t)   BY <2>1, <2>2, FailAnswers
  <2>3. CASE pc' = [pc EXCEPT ![t] = "fill"] /\ UNCHANGED <<todo, tiled, ok>>
    <3>1. pc'[t] = "fill"   BY <2>3, Typed
    <3>2. Progress(t)' /\ Returned(t)'   BY <1>1, <2>1, <2>3, <3>1, SameProgress
    <3> QED BY <3>1, <3>2 DEF Filling
  <2> QED BY <1>7, <2>2, <2>3 DEF Compile, Goto
<1>8. CASE Fill(t)
  <2>1. /\ pc[t] = "fill" /\ pc' = [pc EXCEPT ![t] = "infer"]
        /\ UNCHANGED <<mem, call, todo, tiled, staged, out>>
    BY <1>8 DEF Fill, Goto
  <2>2. pc'[t] = "infer"   BY <2>1, Typed
  <2>3. /\ Progress(t)' /\ Returned(t)'
        /\ Request(t)' = Request(t) /\ KeyOf(t)' = KeyOf(t)
    BY <1>1, <2>1, <2>2, SameProgress
  <2>4. slots'[KeyOf(t)].tensor = Request(t).parts   BY <1>8, FillHolds DEF AnswerInv
  <2> QED BY <2>3, <2>4 DEF Filling
<1>9. CASE Infer(t)
  <2>1. pc[t] = "infer" /\ UNCHANGED <<mem, slots, call, staged, out>>   BY <1>9 DEF Infer
  <2>2. CASE Fail(t)   BY <2>1, <2>2, FailAnswers
  <2>3. CASE pc' = [pc EXCEPT ![t] = "read"] /\ UNCHANGED <<todo, tiled>>
    <3>1. pc'[t] = "read"   BY <2>3, Typed
    <3>2. /\ Progress(t)' /\ Returned(t)'
          /\ Request(t)' = Request(t) /\ KeyOf(t)' = KeyOf(t)
      BY <1>1, <2>1, <2>3, <3>1, SameProgress
    <3> QED BY <1>1, <2>1, <3>2 DEF Filling
  <2> QED BY <1>9, <2>2, <2>3 DEF Infer, Goto
<1>10. CASE OutOfRange(t)
  <2>1. pc[t] # "idle" /\ Fail(t) /\ call' = call   BY <1>10 DEF OutOfRange
  <2> QED BY <2>1, FailAnswers
<1>11. CASE Read(t)   BY <1>1, <1>11, ReadAnswers
<1>12. CASE Publish(t)   BY <1>1, <1>12, PublishAnswers
<1>13. CASE Return(t)
  <2>1. pc' = [pc EXCEPT ![t] = "idle"]   BY <1>13 DEF Return, Goto
  <2>2. pc'[t] = "idle"   BY <2>1, Typed
  <2> QED BY <2>2 DEF Filling, Progress, Returned
<1> QED BY <1>3, <1>4, <1>5, <1>6, <1>7, <1>8, <1>9, <1>10, <1>11, <1>12, <1>13 DEF Step

-----------------------------------------------------------------------------
(* The theorem.                                                            *)

LEMMA AnswerInit == Init => AnswerInv
<1> SUFFICES ASSUME Init PROVE AnswerInv   OBVIOUS
<1>1. MemInv   BY DEF Init, MemInv, Contents, Content
<1>2. SlotsInv   BY DEF Init, SlotsInv, Nothing
<1>3. \A t \in Threads : Filling(t) /\ Progress(t)   BY DEF Init, Filling, Progress
<1>4. AnswersAreOwn   BY DEF Init, AnswersAreOwn
<1> QED BY <1>1, <1>2, <1>3, <1>4 DEF AnswerInv

LEMMA AnswerStep ==
  ASSUME FullySampled, RunInv, AnswerInv, [Next]_vars PROVE AnswerInv'
<1>1. \A t \in Threads : Filling(t) /\ Progress(t) /\ Returned(t)
  BY DEF AnswerInv, AnswersAreOwn, Returned
<1>2. ASSUME NEW t \in Threads, Call(t) \/ CallBatch(t) \/ Step(t) PROVE AnswerInv'
  <2>1. Frame(t)   BY <1>2, ThreadOwned
  <2>2. ASSUME NEW u \in Threads \ {t} PROVE Filling(u)' /\ Progress(u)' /\ Returned(u)'
    <3>1. /\ pc'[u] = pc[u] /\ call'[u] = call[u] /\ todo'[u] = todo[u] /\ tiled'[u] = tiled[u]
          /\ ok'[u] = ok[u] /\ staged'[u] = staged[u] /\ out'[u] = out[u] /\ mem' = mem
      BY <2>1 DEF Frame
    <3>2. pc[u] \in {"infer", "read"} => slots'[KeyOf(u)] = slots[KeyOf(u)]
      BY <1>2, SlotsSpared, Typed DEF LocksOK
    <3> QED BY <1>1, <3>1, <3>2, ThreadStands
  <2>3. Filling(t)' /\ Progress(t)' /\ Returned(t)'   BY <1>2, OwnAnswers
  <2>4. SlotsInv'   BY <1>2, SlotsStand, FillHolds DEF AnswerInv
  <2>5. MemInv'   BY <2>1 DEF AnswerInv, MemInv, Contents, Frame
  <2> QED BY <2>2, <2>3, <2>4, <2>5 DEF AnswerInv, AnswersAreOwn, Returned
<1>3. ASSUME NEW b \in Buf, Rewrite(b) PROVE AnswerInv'
  <2>1. /\ ~InUse(b)
        /\ UNCHANGED <<slots, gmu, smu, pc, call, todo, tiled, staged, out, ok, calls>>
    BY <1>3 DEF Rewrite
  <2>2. PICK v \in Contents(b) : mem' = [mem EXCEPT ![b] = v]   BY <1>3 DEF Rewrite
  <2>3. mem \in [Buf -> Content]   BY DEF RunInv, TypeOK
  <2>4. ASSUME NEW t \in Threads PROVE Filling(t)' /\ Progress(t)' /\ Returned(t)'
    <3>1. pc[t] # "idle" => b \notin Reads(call[t])   BY <2>1 DEF InUse, InCall, Reads
    <3>2. pc[t] # "idle" => \A a \in Reads(call[t]) : mem'[a] = mem[a]   BY <2>2, <3>1
    <3> QED BY <1>1, <2>1, <3>2, ThreadStands
  <2>5. MemInv'   BY <2>2, <2>3 DEF AnswerInv, MemInv, Contents
  <2>6. SlotsInv'   BY <2>1 DEF AnswerInv, SlotsInv, Contents, Fingerprint
  <2> QED BY <2>4, <2>5, <2>6 DEF AnswerInv, AnswersAreOwn, Returned
<1>4. CASE UNCHANGED vars
  <2>1. UNCHANGED <<mem, slots, pc, call, todo, tiled, staged, out, ok>>   BY <1>4 DEF vars
  <2>2. ASSUME NEW t \in Threads PROVE Filling(t)' /\ Progress(t)' /\ Returned(t)'
    BY <1>1, <2>1, ThreadStands
  <2>3. MemInv' /\ SlotsInv'   BY <2>1 DEF AnswerInv, MemInv, SlotsInv, Contents, Fingerprint
  <2> QED BY <2>2, <2>3 DEF AnswerInv, AnswersAreOwn, Returned
<1> QED BY <1>2, <1>3, <1>4 DEF Next

\* If callers write only contents that the samples tell apart, a call that succeeds gives
\* the answers of its own operands, whatever the requests held before and whoever runs
\* them meanwhile (backend_npu.cpp 197-253, 285-299, 788-948).
THEOREM AnswersAreAlwaysOwn == ASSUME FullySampled PROVE Spec => []AnswersAreOwn
<1>1. RunInv /\ AnswerInv /\ [Next]_vars => AnswerInv'   BY AnswerStep
<1>2. AnswerInv => AnswersAreOwn   BY DEF AnswerInv
<1> QED BY <1>1, <1>2, RunInit, RunStep, AnswerInit, PTL DEF Spec

-----------------------------------------------------------------------------
(* The chunk plan: its invariant.                                          *)

Before(c, d) == c.out + c.valid <= d.out

\* What is planned covers the rows of the output below this one.
Planned == expected_output + consumed

TypesOk ==
  /\ tasks \in Seq([rows : Int, output_offset : Int]) /\ output_rows \in Int
  /\ task_index \in Nat \ {0} /\ consumed \in Nat /\ expected_output \in Nat
  /\ plan \in {"idle", "planning", "planned", "refused"}
  /\ planned \subseteq [task : Int, code : Int, valid : Int, bucket : Int, out : Int]

\* The arguments are looked at before the first chunk, and those of a task
\* before its first chunk.
GuardsHeld ==
  /\ plan = "idle" =>
       task_index = 1 /\ consumed = 0 /\ expected_output = 0 /\ planned = {}
  /\ consumed > 0 =>
       /\ task_index <= Len(tasks) /\ consumed <= Task.rows
       /\ Task.output_offset = expected_output
       /\ Task.rows <= output_rows - expected_output
  /\ plan = "planned" => consumed = 0 /\ expected_output = output_rows

ChunksOk ==
  \A c \in planned :
    /\ c.task \in 1 .. Len(tasks) /\ c.out = tasks[c.task].output_offset + c.code
    /\ 0 < c.valid /\ c.valid <= c.bucket
    /\ 0 <= c.out /\ c.out + c.valid <= Planned

Covered ==
  \A r \in 0 .. Planned - 1 : \E c \in planned : c.out <= r /\ r < c.out + c.valid

Apart == \A c, d \in planned : c = d \/ Before(c, d) \/ Before(d, c)

PlanInv == TypesOk /\ GuardsHeld /\ ChunksOk /\ Covered /\ Apart

-----------------------------------------------------------------------------
(* One step of the plan.                                                   *)

\* What the chunk of a turn holds.
LEMMA CutSize ==
  ASSUME NEW remaining \in Int, remaining > 0
  PROVE  /\ pq_adc_bucket_rows(remaining) \in Int
         /\ pq_adc_bucket_rows(remaining) > 0
         /\ Lesser(remaining, pq_adc_bucket_rows(remaining)) \in Int
         /\ Lesser(remaining, pq_adc_bucket_rows(remaining)) > 0
         /\ Lesser(remaining, pq_adc_bucket_rows(remaining)) <= remaining
         /\ Lesser(remaining, pq_adc_bucket_rows(remaining))
              <= pq_adc_bucket_rows(remaining)
<1>1. /\ pq_adc_bucket_rows(remaining) \in Int
      /\ pq_adc_bucket_rows(remaining) > 0
  BY DEF pq_adc_bucket_rows
<1> QED BY <1>1 DEF Lesser

\* The task at hand.
LEMMA TaskType ==
  ASSUME TypesOk, task_index <= Len(tasks)
  PROVE  Task.rows \in Int /\ Task.output_offset \in Int
<1> DEFINE T == [rows : Int, output_offset : Int]
<1>1. tasks \in Seq(T) /\ task_index \in 1 .. Len(tasks)
  BY DEF TypesOk
<1>2. Task \in T
  <2> HIDE DEF T
  <2> QED BY <1>1 DEF Task
<1> QED BY <1>2

\* Nothing is planned at first.
LEMMA InitHolds == PlanInit => PlanInv
BY DEF PlanInit, PlanInv, TypesOk, GuardsHeld, ChunksOk, Covered, Apart, Planned

\* Handing over the arguments plans nothing.
LEMMA BeginHolds == PlanInv /\ Begin => PlanInv'
<1> SUFFICES ASSUME PlanInv, Begin PROVE PlanInv'
  OBVIOUS
<1> USE DEF PlanInv
<1>1. plan = "idle" /\ planned = {} /\ task_index = 1 /\ consumed = 0 /\ expected_output = 0
  BY DEF Begin, GuardsHeld
<1>2. /\ task_index' = 1 /\ consumed' = 0 /\ expected_output' = 0 /\ planned' = {}
      /\ plan' \in {"planning", "refused"}
  BY <1>1 DEF Begin
<1>3. TypesOk'
  BY <1>2, AdcPlanAssumption DEF Begin, TypesOk
<1>4. GuardsHeld'
  BY <1>2 DEF GuardsHeld
<1>5. ChunksOk' /\ Covered' /\ Apart'
  BY <1>2 DEF ChunksOk, Covered, Apart, Planned
<1> QED BY <1>3, <1>4, <1>5

\* A turn plans the rows that follow those already planned.
LEMMA CutHolds == PlanInv /\ Cut => PlanInv'
<1> SUFFICES ASSUME PlanInv, Cut PROVE PlanInv'
  OBVIOUS
<1> USE DEF PlanInv
<1> DEFINE remaining == Task.rows - consumed
           bucket == pq_adc_bucket_rows(remaining)
           valid == Lesser(remaining, bucket)
           chunk == [task |-> task_index, code |-> consumed, valid |-> valid,
                     bucket |-> bucket, out |-> Task.output_offset + consumed]
<1>1. /\ Task.rows \in Int /\ Task.output_offset \in Int
      /\ task_index \in 1 .. Len(tasks) /\ consumed < Task.rows
      /\ Task.output_offset = expected_output
      /\ Task.rows <= output_rows - expected_output /\ plan = "planning"
  BY TaskType DEF Cut, TypesOk
<1>2. remaining \in Int /\ remaining > 0
  BY <1>1 DEF TypesOk
<1> HIDE DEF remaining
<1>3. /\ bucket \in Int /\ valid \in Int /\ valid > 0 /\ valid <= remaining
      /\ valid <= bucket
  BY <1>2, CutSize
<1> HIDE DEF bucket, valid
<1>4. /\ planned' = planned \cup {chunk} /\ consumed' = consumed + valid
      /\ tasks' = tasks /\ output_rows' = output_rows /\ task_index' = task_index
      /\ expected_output' = expected_output /\ plan' = plan
  BY DEF Cut, remaining, bucket, valid
<1>5. /\ chunk.task = task_index /\ chunk.code = consumed /\ chunk.valid = valid
      /\ chunk.bucket = bucket /\ chunk.out = Planned
      /\ chunk \in [task : Int, code : Int, valid : Int, bucket : Int, out : Int]
  BY <1>1, <1>3 DEF Planned, TypesOk
<1>6. Planned \in Nat /\ Planned' = Planned + valid
  BY <1>3, <1>4 DEF Planned, TypesOk
<1>7. TypesOk'
  <2>1. consumed' \in Nat
    BY <1>3, <1>4 DEF TypesOk
  <2>2. planned' \subseteq [task : Int, code : Int, valid : Int, bucket : Int, out : Int]
    <3> HIDE DEF chunk
    <3> QED BY <1>4, <1>5 DEF TypesOk
  <2> HIDE DEF chunk
  <2> QED BY <1>4, <2>1, <2>2 DEF TypesOk
<1>8. GuardsHeld'
  BY <1>1, <1>3, <1>4 DEF GuardsHeld, TypesOk, Task, remaining
<1>9. ChunksOk'
  <2>1. \A c \in planned : c.out + c.valid <= Planned'
    BY <1>3, <1>6 DEF ChunksOk, TypesOk
  <2>2. /\ chunk.task \in 1 .. Len(tasks)
        /\ chunk.out = tasks[chunk.task].output_offset + chunk.code
        /\ 0 <= chunk.out /\ chunk.out + chunk.valid <= Planned'
    BY <1>1, <1>3, <1>5, <1>6 DEF Task, Planned
  <2> HIDE DEF chunk
  <2> QED BY <1>3, <1>4, <1>5, <2>1, <2>2 DEF ChunksOk
<1>10. Covered'
  <2> SUFFICES ASSUME NEW r \in 0 .. Planned' - 1
               PROVE  \E c \in planned' : c.out <= r /\ r < c.out + c.valid
    BY DEF Covered
  <2>1. CASE r < Planned
    <3>1. PICK c \in planned : c.out <= r /\ r < c.out + c.valid
      BY <2>1, <1>3, <1>6 DEF Covered
    <3> HIDE DEF chunk
    <3> QED BY <3>1, <1>4
  <2>2. CASE ~(r < Planned)
    <3>1. chunk.out <= r /\ r < chunk.out + chunk.valid
      BY <2>2, <1>3, <1>5, <1>6
    <3> HIDE DEF chunk
    <3> QED BY <3>1, <1>4
  <2> QED BY <2>1, <2>2
<1>11. Apart'
  <2>1. \A c \in planned : Before(c, chunk)
    BY <1>5 DEF ChunksOk, Before
  <2> HIDE DEF chunk
  <2> QED BY <1>4, <2>1 DEF Apart
<1> QED BY <1>7, <1>8, <1>9, <1>10, <1>11

\* The next task starts where the last one ended.
LEMMA NextTaskHolds == PlanInv /\ NextTask => PlanInv'
<1> SUFFICES ASSUME PlanInv, NextTask PROVE PlanInv'
  OBVIOUS
<1> USE DEF PlanInv
<1>1. Task.rows \in Int /\ consumed > 0 /\ plan = "planning"
  BY TaskType DEF NextTask
<1>2. consumed = Task.rows
  BY <1>1 DEF NextTask, GuardsHeld, TypesOk
<1>3. /\ expected_output' = expected_output + consumed /\ consumed' = 0
      /\ task_index' = task_index + 1
      /\ tasks' = tasks /\ output_rows' = output_rows /\ planned' = planned /\ plan' = plan
  BY <1>2 DEF NextTask
<1>4. Planned' = Planned
  BY <1>3 DEF Planned, TypesOk
<1>5. TypesOk'
  BY <1>3 DEF TypesOk
<1>6. GuardsHeld'
  BY <1>1, <1>3 DEF GuardsHeld
<1>7. ChunksOk' /\ Covered' /\ Apart'
  BY <1>3, <1>4 DEF ChunksOk, Covered, Apart
<1> QED BY <1>5, <1>6, <1>7

\* A refusal drops the plan, the end publishes it.
LEMMA EndHolds == PlanInv /\ (RefuseTask \/ Finish) => PlanInv'
<1> SUFFICES ASSUME PlanInv, RefuseTask \/ Finish PROVE PlanInv'
  OBVIOUS
<1> USE DEF PlanInv
<1>1. /\ tasks' = tasks /\ output_rows' = output_rows /\ task_index' = task_index
      /\ consumed' = consumed /\ expected_output' = expected_output /\ planned' = planned
      /\ plan' \in {"planned", "refused"}
  BY DEF RefuseTask, Finish
<1>2. plan' = "planned" => expected_output = output_rows /\ consumed = 0
  BY DEF RefuseTask, Finish, GuardsHeld, TypesOk
<1>3. TypesOk'
  BY <1>1 DEF TypesOk
<1>4. GuardsHeld'
  <2>1. Task' = Task
    BY <1>1 DEF Task
  <2> QED BY <1>1, <1>2, <2>1 DEF GuardsHeld
<1>5. ChunksOk' /\ Covered' /\ Apart'
  BY <1>1 DEF ChunksOk, Covered, Apart, Planned
<1> QED BY <1>3, <1>4, <1>5

\* PlanInv holds in every state.
LEMMA Invariance == PlanSpec => []PlanInv
<1>1. PlanInv /\ UNCHANGED planVars => PlanInv'
  BY DEF planVars, PlanInv, TypesOk, GuardsHeld, ChunksOk, Covered, Apart, Planned, Task
<1>2. PlanInv /\ [PlanNext]_planVars => PlanInv'
  BY <1>1, BeginHolds, CutHolds, NextTaskHolds, EndHolds DEF PlanNext
<1> QED BY InitHolds, <1>2, PTL DEF PlanSpec

-----------------------------------------------------------------------------
\* plan_pq_adc_chunks: whatever tasks it accepts, its chunks give every row of
\* the output to exactly one graph, which is large enough for it.
THEOREM ChunksTile == PlanSpec => []PlanTilesTheOutput
<1>1. PlanInv => PlanTilesTheOutput
  <2> SUFFICES ASSUME PlanInv, plan = "planned"
               PROVE  /\ \A r \in 0 .. output_rows - 1 : \E c \in planned : r \in Places(c)
                      /\ \A c \in planned :
                           /\ Places(c) \subseteq 0 .. output_rows - 1 /\ c.valid <= c.bucket
                           /\ c.out = tasks[c.task].output_offset + c.code
                      /\ \A c, d \in planned : Places(c) \cap Places(d) # {} => c = d
    BY DEF PlanTilesTheOutput
  <2> USE DEF PlanInv
  <2>1. /\ Planned = output_rows /\ output_rows \in Nat
        /\ \A c \in planned : c.out \in Int /\ c.valid \in Int
    BY DEF GuardsHeld, Planned, TypesOk
  <2>2. \A c \in planned : \A r \in Int :
          c.out <= r /\ r < c.out + c.valid <=> r \in Places(c)
    BY <2>1 DEF Places
  <2>3. \A r \in 0 .. output_rows - 1 : \E c \in planned : r \in Places(c)
    BY <2>1, <2>2 DEF Covered
  <2>4. \A c \in planned : Places(c) \subseteq 0 .. output_rows - 1
    BY <2>1 DEF ChunksOk, Places
  <2>5. \A c \in planned : c.valid <= c.bucket /\ c.out = tasks[c.task].output_offset + c.code
    BY DEF ChunksOk
  <2>6. ASSUME NEW c \in planned, NEW d \in planned, Places(c) \cap Places(d) # {}
        PROVE  c = d
    <3>1. PICK r : r \in Places(c) /\ r \in Places(d)
      BY <2>6
    <3>2. r \in Int
      BY <3>1, <2>1 DEF Places
    <3>3. ~Before(c, d) /\ ~Before(d, c)
      BY <3>1, <3>2, <2>1, <2>2 DEF Before
    <3> QED BY <3>3 DEF Apart
  <2> QED BY <2>3, <2>4, <2>5, <2>6
<1> QED BY Invariance, <1>1, PTL

=============================================================================
