----------------------------- MODULE NpuRequests -----------------------------
(***************************************************************************)
(* The NPU requests (src/prim/npu/backend_npu.cpp).  A primitive on the    *)
(* NPU looks its compiled request up by shape, or compiles it, locks it,   *)
(* fills its input tensors, infers, and reads its output.  An operand that *)
(* is large, lies at the address of the last one and hashes alike at 34    *)
(* sampled places is taken to be in its tensor already.  A call that fails *)
(* in full is retried in tiles; a batch of PQ-ADC chunks is packed into    *)
(* the lanes of fixed-size requests and staged until all of it succeeded.  *)
(*                                                                         *)
(* Abstracted: the content of a buffer is what its samples see and the     *)
(* rest; a result is the tensors it was computed of; whether the values    *)
(* are in the range of the device is left open.  A call is made of pieces: *)
(* piece 0 is the whole of it, pieces 1, 2, ... are its tiles, and those   *)
(* of a batch are its chunks.                                              *)
(***************************************************************************)
EXTENDS Integers, Sequences, FiniteSets

CONSTANTS
  Threads,     \* the callers
  NoOne,       \* nobody holds a mutex
  Buf, Large,  \* buffers of callers; those of at least 65536 bytes
  Menu,        \* the calls that callers make
  Buckets,     \* rows of an ADC chunk, padded (128 .. 2048 in the code)
  Lanes,       \* most chunks in one request (32)
  IndexLimit,  \* most indices in one request (65536), per subspace
  MaxCalls,    \* bound: calls of all threads
  MaxWrites,   \* bound: buffers rewritten
  Habits       \* "unsampled": contents of a large buffer may differ where nobody samples

ASSUME NpuRequestsAssumption ==
  /\ NoOne \notin Threads
  /\ Large \subseteq Buf
  /\ \A c \in Menu :
       \/ /\ c.op \in {"gemm", "topk", "gather", "pairwise"}
          /\ {c.a, c.b} \subseteq Buf /\ c.tiles \in Nat
          /\ c.op = "gather" => c.a \notin Large   \* indices are always copied
       \/ /\ c.op = "adc"
          /\ c.chunks \in Seq([buf : Buf, bucket : Buckets, at : Nat]) /\ c.chunks # <<>>
  /\ Buckets \subseteq Nat \ {0}
  /\ Lanes \in Nat \ {0} /\ IndexLimit \in Nat
  /\ MaxCalls \in Nat /\ MaxWrites \in Nat
  /\ Habits \subseteq {"unsampled"}

VARIABLES
  mem,         \* the contents of the callers' buffers
  slots,       \* the published requests: key -> tensors and fingerprints
  gmu, smu,    \* who holds the map's mutex; who holds each request's
  pc, call,    \* what each thread is at, and its call
  todo,        \* the pieces its call still has to run
  tiled,       \* whether the call was split into tiles
  staged, out, \* answers that are staged; answers in the caller's memory
  ok,          \* what the last call of each thread returned
  calls, writes

vars == <<mem, slots, gmu, smu, pc, call, todo, tiled, staged, out, ok, calls, writes>>

Content == [seen : {0, 1}, rest : {0, 1}]
NoFingerprint == [addr |-> <<>>, hash |-> 0]
NoCall == [op |-> "none"]
Nothing == <<>>

\* g, except where f has a value.
Over(f, g) == [x \in DOMAIN f \cup DOMAIN g |-> IF x \in DOMAIN f THEN f[x] ELSE g[x]]

\* What a caller may write: "In-place mutation that misses every sample is not
\* detected - reallocate the buffer if you mutate a large operand" asks that the
\* samples tell two contents of a large buffer apart.
Contents(b) ==
  {v \in Content : b \in Large /\ "unsampled" \notin Habits => v.rest = v.seen}

-----------------------------------------------------------------------------
(* Calls and their requests.                                               *)

\* The part of a buffer that one tile reads.
Part(b, tile) == [buf |-> b, tile |-> tile, val |-> mem[b]]

\* The operands of one request in the order of its tensors: gemm and pairwise
\* walk over their first operand, gather over its indices.
Operands(c, tile) ==
  CASE c.op \in {"gemm", "pairwise"} -> <<Part(c.a, tile), Part(c.b, 0)>>
    [] c.op = "gather" -> <<Part(c.b, 0), Part(c.a, tile)>>
    [] c.op = "topk" -> <<Part(c.a, tile)>>

\* The pieces of a batch.
Chunks(c) == DOMAIN c.chunks
Lane(c, i) == Part(c.chunks[i].buf, c.chunks[i].at)

\* The request of the whole of a call or of one tile.  Its key names its operation
\* and its shape.
Whole(c) == [key |-> <<c.op, "whole", c.tiles, 0>>, parts |-> Operands(c, 0), takes |-> {0}]
Tile(c, i) == [key |-> <<c.op, "tile", 1, 0>>, parts |-> Operands(c, i), takes |-> {i}]

PowersOfTwo == {1, 2, 4, 8, 16, 32}
Largest(S) == CHOOSE x \in S : \A y \in S : y <= x
Least(S) == CHOOSE x \in S : \A y \in S : x <= y

\* How many chunks of a bucket fit one request, rounded down to a power of two.
Limit(bucket) ==
  LET raw == IF IndexLimit \div bucket > Lanes THEN Lanes ELSE IndexLimit \div bucket
  IN Largest({1} \cup {p \in PowersOfTwo : p <= raw})

\* Lanes of the request that takes the first of m remaining chunks.
Capacity(m, bucket) ==
  Least({p \in PowersOfTwo : p >= (IF m < Limit(bucket) THEN m ELSE Limit(bucket))})

\* The buckets are run smallest first, and the chunks of one in order.
NextBucket(c, left) == Least({c.chunks[i].bucket : i \in left})
Group(c, left) == {i \in left : c.chunks[i].bucket = NextBucket(c, left)}

\* The lane of a chunk, if the request has one for it.
LaneOf(c, left, i) == Cardinality({j \in Group(c, left) : j <= i})
Taken(c, left) ==
  {i \in Group(c, left) : LaneOf(c, left, i) <= Limit(NextBucket(c, left))}
ChunkIn(c, left, l) == CHOOSE i \in Taken(c, left) : LaneOf(c, left, i) = l

\* The next request of a batch of which some chunks are left.
Packed(c, left) ==
  [key |-> <<"adc", "lanes", NextBucket(c, left),
             Capacity(Cardinality(Group(c, left)), NextBucket(c, left))>>,
   parts |-> [l \in {LaneOf(c, left, i) : i \in Taken(c, left)} |->
                Lane(c, ChunkIn(c, left, l))],
   takes |-> Taken(c, left)]

\* No two chunks of a batch write one output, or it is refused.
Disjoint(c) == \A i, j \in Chunks(c) : c.chunks[i].at = c.chunks[j].at => i = j

Key == {<<c.op, "whole", c.tiles, 0>> : c \in {d \in Menu : d.op # "adc"}}
       \cup {<<c.op, "tile", 1, 0>> : c \in {d \in Menu : d.op # "adc"}}
       \cup {<<"adc", "lanes", bucket, p>> : bucket \in Buckets, p \in PowersOfTwo}

InCall(t) == pc[t] # "idle"
InUse(b) ==
  \E t \in Threads : InCall(t) /\
    IF call[t].op = "adc" THEN \E i \in Chunks(call[t]) : call[t].chunks[i].buf = b
    ELSE b \in {call[t].a, call[t].b}

Init ==
  /\ mem = [b \in Buf |-> [seen |-> 0, rest |-> 0]]
  /\ slots = Nothing
  /\ gmu = NoOne /\ smu = [k \in Key |-> NoOne]
  /\ pc = [t \in Threads |-> "idle"] /\ call = [t \in Threads |-> NoCall]
  /\ todo = [t \in Threads |-> {}] /\ tiled = [t \in Threads |-> FALSE]
  /\ staged = [t \in Threads |-> Nothing] /\ out = [t \in Threads |-> Nothing]
  /\ ok = [t \in Threads |-> FALSE]
  /\ calls = 0 /\ writes = 0

-----------------------------------------------------------------------------
(* One call.                                                               *)

Goto(t, where) == pc' = [pc EXCEPT ![t] = where]

\* A caller rewrites a buffer that no call reads, or frees it and gets another at
\* its address.
Rewrite(b) ==
  /\ writes < MaxWrites /\ ~InUse(b)
  /\ \E v \in Contents(b) \ {mem[b]} : mem' = [mem EXCEPT ![b] = v]
  /\ writes' = writes + 1
  /\ UNCHANGED <<slots, gmu, smu, pc, call, todo, tiled, staged, out, ok, calls>>

Start(t, c, pieces) ==
  /\ pc[t] = "idle" /\ calls < MaxCalls
  /\ call' = [call EXCEPT ![t] = c]
  /\ todo' = [todo EXCEPT ![t] = pieces]
  /\ tiled' = [tiled EXCEPT ![t] = FALSE]
  /\ staged' = [staged EXCEPT ![t] = Nothing]
  /\ out' = [out EXCEPT ![t] = Nothing]
  /\ calls' = calls + 1
  /\ Goto(t, "find")
  /\ UNCHANGED <<mem, slots, gmu, smu, ok, writes>>

\* npu_gemm_compute, npu_topk, npu_gather_rows, npu_pairwise: in full first.
Call(t) ==
  \E c \in Menu : c.op # "adc" /\ Start(t, c, {0})

\* npu_pq_adc_batch: the whole batch is validated before anything is compiled.
CallBatch(t) ==
  \E c \in Menu : c.op = "adc" /\ Disjoint(c) /\ Start(t, c, Chunks(c))

Request(t) ==
  IF call[t].op = "adc" THEN Packed(call[t], todo[t])
  ELSE IF tiled[t] THEN Tile(call[t], Least(todo[t])) ELSE Whole(call[t])
KeyOf(t) == Request(t).key

\* Where a failed request leaves its call: a whole request is retried in tiles, a
\* tile or an ADC request fails the call.
Fail(t) ==
  IF call[t].op # "adc" /\ ~tiled[t] /\ call[t].tiles > 0
  THEN /\ todo' = [todo EXCEPT ![t] = 1 .. call[t].tiles]
       /\ tiled' = [tiled EXCEPT ![t] = TRUE]
       /\ Goto(t, "find")
       /\ UNCHANGED ok
  ELSE /\ ok' = [ok EXCEPT ![t] = FALSE]
       /\ Goto(t, "return")
       /\ UNCHANGED <<todo, tiled>>
\* The primitives whose operands and results must be in the device's fp16 range; an
\* ADC table beyond it may be shifted and scaled into it.
RangeChecked == {"gemm", "topk", "adc"}

\* Operands beyond the range of the device: refused before a request is looked up.
Refuse(t) ==
  /\ pc[t] = "find" /\ call[t].op \in RangeChecked
  /\ call[t].op = "adc" => todo[t] = Chunks(call[t])
  /\ Fail(t)
  /\ UNCHANGED <<mem, slots, gmu, smu, call, staged, out, calls, writes>>

\* cached_req: the map is searched under its mutex.
Find(t) ==
  /\ pc[t] = "find" /\ gmu = NoOne
  /\ \/ KeyOf(t) \in DOMAIN slots /\ Goto(t, "fill") /\ UNCHANGED gmu
     \/ KeyOf(t) \notin DOMAIN slots /\ Goto(t, "compile") /\ gmu' = t
  /\ UNCHANGED <<mem, slots, smu, call, todo, tiled, staged, out, ok, calls, writes>>

NewSlot == [tensor |-> Nothing, fp |-> Nothing]

\* It is compiled with the mutex held, and published only when that succeeded.
Compile(t) ==
  /\ pc[t] = "compile"
  /\ gmu' = NoOne
  /\ \/ /\ slots' = Over([k \in {KeyOf(t)} |-> NewSlot], slots)
        /\ Goto(t, "fill")
        /\ UNCHANGED <<todo, tiled, ok>>
     \/ UNCHANGED slots /\ Fail(t)
  /\ UNCHANGED <<mem, smu, call, staged, out, calls, writes>>

\* content_fp and the address that goes with it.
Fingerprint(p) == [addr |-> <<p.buf, p.tile>>, hash |-> p.val.seen]

\* fill_in: the operand is taken to be in its tensor.
Holds(slot, i, p) ==
  /\ p.buf \in Large /\ i \in DOMAIN slot.fp
  /\ slot.fp[i] = Fingerprint(p)

\* fill_in, for each tensor; a small payload leaves no fingerprint.
Filled(slot, parts) ==
  [tensor |-> [i \in DOMAIN parts |->
                 IF Holds(slot, i, parts[i]) THEN slot.tensor[i] ELSE parts[i]],
   fp |-> [i \in DOMAIN parts |->
                IF parts[i].buf \in Large THEN Fingerprint(parts[i]) ELSE NoFingerprint]]

\* The ADC request is reset before its lanes are filled.
LanesFilled(slot, parts) == [slot EXCEPT !.tensor = parts]

\* Mutant: the request is not locked while it is filled, run and read.
TakeSlotUnlocked(t) == UNCHANGED smu

\* The lock on the request.
TakeSlot(t) == smu[KeyOf(t)] = NoOne /\ smu' = [smu EXCEPT ![KeyOf(t)] = t]

DropSlot(t) == smu' = [smu EXCEPT ![KeyOf(t)] = NoOne]

Fill(t) ==
  /\ pc[t] = "fill"
  /\ TakeSlot(t)
  /\ slots' = [slots EXCEPT ![KeyOf(t)] =
                 IF call[t].op = "adc" THEN LanesFilled(@, Request(t).parts)
                 ELSE Filled(@, Request(t).parts)]
  /\ Goto(t, "infer")
  /\ UNCHANGED <<mem, gmu, call, todo, tiled, staged, out, ok, calls, writes>>

\* The device runs, or throws; the lock goes with the frame.
Infer(t) ==
  /\ pc[t] = "infer"
  /\ \/ Goto(t, "read") /\ UNCHANGED <<smu, todo, tiled, ok>>
     \/ DropSlot(t) /\ Fail(t)
  /\ UNCHANGED <<mem, slots, gmu, call, staged, out, calls, writes>>

\* Where the answer of a piece goes: an offset of the output, or a tile of it.
Place(c, i) == IF c.op = "adc" THEN c.chunks[i].at ELSE i

\* What the request computed, by the place of the answer.
Results(t) ==
  LET tensor == slots[KeyOf(t)].tensor
      c == call[t]
      takes == Request(t).takes
      piece(at) == CHOOSE i \in takes : Place(c, i) = at
  IN [at \in {Place(c, i) : i \in takes} |->
        IF c.op = "adc" THEN <<tensor[LaneOf(c, todo[t], piece(at))]>> ELSE tensor]

\* Mutant: answers of an ADC request go straight to the caller.
DeliverNow(t) ==
  out' = [out EXCEPT ![t] = Over(Results(t), @)] /\ staged' = [staged EXCEPT ![t] = Over(Results(t), @)]

\* read_out writes to the caller, an ADC request to the staging buffer.
Deliver(t) ==
  IF call[t].op = "adc"
  THEN staged' = [staged EXCEPT ![t] = Over(Results(t), @)] /\ UNCHANGED out
  ELSE out' = [out EXCEPT ![t] = Over(Results(t), @)] /\ UNCHANGED staged

\* A result beyond the range of the device: an ADC result is not staged, another
\* has been written by then.
OutOfRange(t) ==
  /\ pc[t] = "read" /\ call[t].op \in RangeChecked
  /\ IF call[t].op = "adc" THEN UNCHANGED <<staged, out>> ELSE Deliver(t)
  /\ DropSlot(t)
  /\ Fail(t)
  /\ UNCHANGED <<mem, slots, gmu, call, calls, writes>>

Read(t) ==
  /\ pc[t] = "read"
  /\ Deliver(t)
  /\ DropSlot(t)
  /\ todo' = [todo EXCEPT ![t] = @ \ Request(t).takes]
  /\ Goto(t, IF todo[t] \ Request(t).takes # {} THEN "find" ELSE "publish")
  /\ UNCHANGED <<mem, slots, gmu, call, tiled, ok, calls, writes>>

\* The call succeeds; the staged answers of an ADC batch are copied out.
Publish(t) ==
  /\ pc[t] = "publish"
  /\ out' = IF call[t].op = "adc" THEN [out EXCEPT ![t] = staged[t]] ELSE out
  /\ ok' = [ok EXCEPT ![t] = TRUE]
  /\ Goto(t, "return")
  /\ UNCHANGED <<mem, slots, gmu, smu, call, todo, tiled, staged, calls, writes>>

Return(t) ==
  /\ pc[t] = "return"
  /\ Goto(t, "idle")
  /\ call' = [call EXCEPT ![t] = NoCall]
  /\ todo' = [todo EXCEPT ![t] = {}]
  /\ out' = [out EXCEPT ![t] = Nothing] /\ staged' = [staged EXCEPT ![t] = Nothing]
  /\ UNCHANGED <<mem, slots, gmu, smu, tiled, ok, calls, writes>>

Step(t) ==
  \/ Refuse(t) \/ Find(t) \/ Compile(t) \/ Fill(t) \/ Infer(t)
  \/ OutOfRange(t) \/ Read(t) \/ Publish(t) \/ Return(t)

Next ==
  \/ \E t \in Threads : Call(t) \/ CallBatch(t) \/ Step(t)
  \/ \E b \in Buf : Rewrite(b)

Spec == Init /\ [][Next]_vars

-----------------------------------------------------------------------------
(* Properties.                                                             *)

\* The thread that compiles holds the map, and the one that fills a request, runs it
\* and reads it holds that request.
LocksOK(t) ==
  /\ pc[t] = "compile" <=> gmu = t
  /\ pc[t] \in {"find", "compile", "fill", "infer", "read"} => todo[t] # {} /\ KeyOf(t) \in Key
  /\ pc[t] \in {"fill", "infer", "read"} => KeyOf(t) \in DOMAIN slots
  /\ pc[t] \in {"infer", "read"} => smu[KeyOf(t)] = t

\* Every variable keeps its type, and the locks are held by who may hold them.
TypeOK ==
  /\ mem \in [Buf -> Content]
  /\ DOMAIN slots \subseteq Key
  /\ gmu \in Threads \cup {NoOne} /\ smu \in [Key -> Threads \cup {NoOne}]
  /\ pc \in [Threads -> {"idle", "find", "compile", "fill", "infer", "read", "publish", "return"}]
  /\ call \in [Threads -> Menu \cup {NoCall}]
  /\ todo \in [Threads -> SUBSET Nat]
  /\ tiled \in [Threads -> BOOLEAN] /\ ok \in [Threads -> BOOLEAN]
  /\ calls \in 0 .. MaxCalls /\ writes \in 0 .. MaxWrites
  /\ \A t \in Threads : LocksOK(t)

\* The pieces of a call, and the answer that each should give.
Pieces(t) ==
  IF call[t].op = "adc" THEN Chunks(call[t])
  ELSE IF tiled[t] THEN 1 .. call[t].tiles ELSE {0}
Answer(c, i) == IF c.op = "adc" THEN <<Lane(c, i)>> ELSE Operands(c, i)

\* The answer of a piece is where it belongs.
Answered(where, c, i) ==
  Place(c, i) \in DOMAIN where /\ where[Place(c, i)] = Answer(c, i)

\* A call that succeeds gives exactly the answers of its own operands, as they are
\* now: whatever other calls ran the same requests before and meanwhile, whatever
\* their tensors still hold, however the call was tiled or packed.
AnswersAreOwn ==
  \A t \in Threads : pc[t] = "return" /\ ok[t] =>
    \A i \in Pieces(t) : Answered(out[t], call[t], i)

\* An ADC batch writes all of its answers or none (backend_npu.cpp 751: it fails
\* "without partially executing a safe prefix" as far as the caller can see).
BatchAllOrNothing ==
  \A t \in Threads : call[t].op = "adc" /\ ~(pc[t] = "return" /\ ok[t]) => out[t] = Nothing
=============================================================================
