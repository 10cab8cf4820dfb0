-------------------------- MODULE GraphWalkProofs --------------------------
(***************************************************************************)
(* Proofs about GraphWalk, for any threads, policies, split, rows, samples *)
(* and numbers of queries and calls, and whatever fails; and about the     *)
(* walk of one of its queries by a sub-group, in BeamWalk.                 *)
(***************************************************************************)
EXTENDS GraphWalk, BeamWalk, FiniteSetTheorems, SequenceTheorems, WellFoundedInduction, TLAPS

-----------------------------------------------------------------------------
(* The inductive invariant.                                                *)

Cpu(t) == leg[<<t, "cpu">>]
Gpu(t) == leg[<<t, "gpu">>]

Samples == UNION {[S -> Values] : S \in SUBSET Nat}
Prints == {NoPrint} \cup (Nat \X Nat \X Samples)
Answers == UNION {[Q -> {"none", "cpu", "gpu"}] : Q \in SUBSET (1 .. MaxNq)}
Places == {"off", "lock", "print", "look", "stage", "ready", "walk", "ok", "failed"}
Over == {"off", "ok", "failed"}

Routes == {"none", "auto", "npu_if_faster", "gpu_if_faster", "hetero", "force_npu", "force_gpu",
           "force_cpu"}
Statuses == {"none", "success", "unavailable"}

LegType ==
  [at : Places, todo : SUBSET (1 .. MaxNq), fp : Prints, sure : BOOLEAN, buf : Nat,
   img : Seq(Values), freedBy : {"nobody", "cpu", "gpu"}]

MirrorType ==
  [src : {0, 1, 2}, rows : Nat, fp : Prints, usable : BOOLEAN, buf : Nat, img : Seq(Values),
   made : Nat]

DataType ==
  /\ storage \in {"f32", "f16"}
  /\ data \in Seq(Values) /\ wprev \in Seq(Values)
  /\ Len(data) \in 1 .. MaxRows /\ Len(wprev) \in 1 .. MaxRows
  /\ src \in {1, 2} /\ gen \in Nat /\ built \in Nat /\ bumps \in Nat
  /\ dirty \in BOOLEAN
  /\ wpc \in {"idle", "grown", "written", "repair", "search"}
  /\ mirror \in MirrorType

CallType ==
  /\ pc \in [Threads -> {"idle", "gpu", "cpu", "join"}]
  /\ pol \in [Threads -> Routes]
  /\ split \in [Threads -> 0 .. MaxNq]
  /\ leg \in [Legs -> LegType]
  /\ by \in [Threads -> Answers]
  /\ gpuOk \in [Threads -> BOOLEAN]
  /\ outcome \in [Threads -> Statuses]
  /\ walkMutex \in Legs \cup {NoOne}
  /\ ws \in 0 .. MaxNq

\* Vectors change only while no walk is inside: the mutator walks in its repair.
QuietInv ==
  /\ wpc # "search" => pc[Writer] = "idle"
  /\ wpc = "grown" => Len(data) < MaxRows

\* The legs of a call are where its thread says.
CallOk(t) ==
  /\ pc[t] = "idle" => /\ Cpu(t).at = "off" /\ Gpu(t).at = "off"
                       /\ pol[t] = "none" /\ split[t] = 0 /\ DOMAIN by[t] = {}
  /\ pc[t] # "idle" => outcome[t] = "none"
  /\ pc[t] = "gpu" => Cpu(t).at = "off" /\ split[t] = 0
  /\ pc[t] = "cpu" /\ split[t] = 0 => Gpu(t).at \in {"off", "failed"}
  /\ pc[t] = "join" => Cpu(t).at = "ok" /\ split[t] > 0
  /\ gpuOk[t] <=> Gpu(t).at = "ok"
  /\ pol[t] = "force_gpu" => pc[t] = "gpu"

\* What a leg has to do and what it reads, by where it stands.
LegOk(l) ==
  /\ leg[l].todo = {} <=> leg[l].at \in Over
  /\ leg[l].at \in {"off", "lock", "print", "look", "failed"} => leg[l].buf = 0
  /\ l[2] = "gpu" /\ leg[l].at = "ok" => leg[l].buf = 0
  /\ leg[l].buf <= built
  /\ leg[l].at \in {"lock", "stage", "ready"} => l[2] = "gpu"
  /\ leg[l].at = "walk" => l[2] = "cpu"
  /\ leg[l].at \in {"lock", "print", "look"} => storage = "f32"
  /\ l[2] = "gpu" => leg[l].freedBy # "gpu"
  /\ leg[l].buf # 0 /\ leg[l].sure => leg[l].img = data

\* Each query is one leg's: of the two, the one that is to answer it.
OfGpu(t, q) == pc[t] = "gpu" \/ q <= split[t]

AnswersOk(t) ==
  /\ Cpu(t).todo \cup Gpu(t).todo \cup (1 .. split[t]) \subseteq DOMAIN by[t]
  /\ \A q \in DOMAIN by[t] :
       /\ q \in Gpu(t).todo => OfGpu(t, q)
       /\ q \in Cpu(t).todo => ~OfGpu(t, q)
       /\ pc[t] # "idle" /\ OfGpu(t, q) =>
            Gpu(t).at = "failed" \/ q \in Gpu(t).todo \/ by[t][q] = "gpu"
       /\ pc[t] # "idle" /\ ~OfGpu(t, q) => q \in Cpu(t).todo \/ by[t][q] = "cpu"
       /\ pol[t] = "force_gpu" => by[t][q] # "cpu"
  /\ pc[t] # "idle" => DOMAIN by[t] # {}

\* A mirror with a fingerprint of this generation is a copy of the vectors,
\* unless they were written since.
MirrorInv ==
  /\ mirror.buf <= built
  /\ mirror.usable <=> mirror.buf # 0
  /\ mirror.buf # 0 => mirror.fp # NoPrint /\ mirror.fp[1] <= gen
  /\ mirror.buf # 0 /\ mirror.fp[1] = gen /\ ~dirty => mirror.img = data

\* So is the one that a lookup of that fingerprint is about to accept.
LookOk(l) ==
  leg[l].at = "look" =>
    /\ leg[l].fp # NoPrint /\ leg[l].fp[1] <= gen
    /\ leg[l].sure /\ mirror.buf # 0 /\ mirror.fp[1] = leg[l].fp[1] => mirror.img = data

\* gpu_walk_mutex is held by the one fp32 walk on the GPU from its lookup on.
MutexInv ==
  /\ walkMutex # NoOne => walkMutex[2] = "gpu" /\ leg[walkMutex].at \notin Over \cup {"lock"}
  /\ \A t \in Threads :
       storage = "f32" /\ Gpu(t).at \in {"print", "look", "stage", "ready"}
         => walkMutex = <<t, "gpu">>

IInv ==
  /\ DataType /\ CallType
  /\ QuietInv /\ MirrorInv /\ MutexInv
  /\ \A t \in Threads : CallOk(t) /\ AnswersOk(t)
  /\ \A l \in Legs : LegOk(l) /\ LookOk(l)

-----------------------------------------------------------------------------
(* Types, and what follows from the invariant.                             *)

LEMMA Sides == ASSUME NEW t \in Threads PROVE <<t, "cpu">> \in Legs /\ <<t, "gpu">> \in Legs
BY DEF Legs

LEMMA Pairs ==
  ASSUME NEW l \in Legs
  PROVE  \E t \in Threads : l = <<t, "cpu">> \/ l = <<t, "gpu">>
BY DEF Legs

\* A new leg, or one that is over.
LEMMA NewLeg ==
  ASSUME NEW at \in Places, NEW todo \in SUBSET (1 .. MaxNq)
  PROVE  Leg(at, todo) \in LegType
BY DEF Leg, LegType, Prints, NoPrint

LEMMA NoAnswers == <<>> \in Answers /\ DOMAIN <<>> = {}
<1>1. DOMAIN <<>> = {}
  OBVIOUS
<1>2. <<>> \in [{} -> {"none", "cpu", "gpu"}]
  OBVIOUS
<1>3. QED
  BY <1>1, <1>2 DEF Answers

LEMMA PrintType ==
  ASSUME DataType
  PROVE  Fingerprint \in Prints /\ Fingerprint # NoPrint /\ Fingerprint[1] = gen
<1> DEFINE S == Sampled \cap DOMAIN data
<1>1. S \in SUBSET Nat
  BY DEF DataType
<1>2. [i \in S |-> data[i]] \in [S -> Values]
  BY DEF DataType
<1>3. [i \in S |-> data[i]] \in Samples
  BY <1>1, <1>2 DEF Samples
<1>4. Fingerprint = <<gen, Len(data), [i \in S |-> data[i]]>>
  BY DEF Fingerprint
<1>5. gen \in Nat /\ Len(data) \in Nat
  BY DEF DataType
<1> HIDE DEF S
<1>6. Fingerprint \in Nat \X Nat \X Samples
  BY <1>3, <1>4, <1>5
<1>7. Fingerprint # NoPrint /\ Fingerprint[1] = gen
  BY <1>4 DEF NoPrint
<1>8. QED
  BY <1>6, <1>7 DEF Prints

\* The generation of a fingerprint.
LEMMA PrintGen == ASSUME NEW p \in Prints, p # NoPrint PROVE p[1] \in Nat
BY DEF Prints

\* A mirror as a lookup makes it: none, or one of these very vectors.
LEMMA NewKey ==
  ASSUME DataType, NEW fp \in Prints, NEW m,
         m = [NoMirror EXCEPT !.src = src, !.rows = Len(data), !.fp = fp]
  PROVE  m \in MirrorType /\ m.fp = fp /\ m.buf = 0 /\ ~m.usable
<1>1. m = [src |-> m.src, rows |-> m.rows, fp |-> m.fp, usable |-> m.usable, buf |-> m.buf,
           img |-> m.img, made |-> m.made]
  BY DEF NoMirror
<1>2. /\ m.src = src /\ m.rows = Len(data) /\ m.fp = fp /\ m.buf = 0 /\ m.img = <<>>
      /\ m.made = 0
  BY DEF NoMirror
<1>3. ~m.usable /\ m.usable \in BOOLEAN
  BY DEF NoMirror
<1>4. m.src \in {0, 1, 2} /\ m.rows \in Nat /\ m.made \in Nat
  BY <1>2 DEF DataType
<1>5. <<>> \in Seq(Values)
  OBVIOUS
<1>6. m.img \in Seq(Values)
  BY <1>2, <1>5
<1>7. QED
  BY <1>1, <1>2, <1>3, <1>4, <1>6 DEF MirrorType

\* A split leaves at least one query to each leg.
LEMMA Cut ==
  ASSUME NEW nq \in Nat, nq >= 2
  PROVE  CpuBegin(nq) \in 1 .. nq - 1
<1> DEFINE share == (HybridPercent * nq + 50) \div 100
<1>1. HybridPercent * nq \in Int
  BY GraphWalkAssumption
<1>2. share \in Int
  BY <1>1
<1> HIDE DEF share
<1>3. QED
  BY <1>2 DEF CpuBegin, share

-----------------------------------------------------------------------------
(* What most steps leave alone.                                            *)

\* A step of one call: the data, the mirror and the other calls stay.
LEMMA CallStep ==
  ASSUME IInv, NEW t \in Threads,
         UNCHANGED <<storage, data, src, dirty, gen, mirror, built, bumps, wprev>>,
         wpc' \in {"idle", "grown", "written", "repair", "search"},
         CallType', QuietInv', MutexInv',
         \A x \in Threads \ {t} :
           /\ pc'[x] = pc[x] /\ pol'[x] = pol[x] /\ split'[x] = split[x] /\ by'[x] = by[x]
           /\ gpuOk'[x] = gpuOk[x] /\ outcome'[x] = outcome[x]
           /\ leg'[<<x, "cpu">>] = leg[<<x, "cpu">>] /\ leg'[<<x, "gpu">>] = leg[<<x, "gpu">>],
         CallOk(t)', AnswersOk(t)',
         LegOk(<<t, "cpu">>)', LegOk(<<t, "gpu">>)',
         LookOk(<<t, "cpu">>)', LookOk(<<t, "gpu">>)'
  PROVE  IInv'
<1>1. DataType'
  BY DEF IInv, DataType
<1>2. MirrorInv'
  BY DEF IInv, MirrorInv
<1>3. ASSUME NEW x \in Threads \ {t} PROVE CallOk(x)'
  BY <1>3 DEF IInv, CallOk, Cpu, Gpu
<1>4. ASSUME NEW x \in Threads \ {t} PROVE AnswersOk(x)'
  BY <1>4 DEF IInv, AnswersOk, OfGpu, Cpu, Gpu
<1>5. ASSUME NEW x \in Threads \ {t}, NEW l \in Legs, l = <<x, "cpu">> \/ l = <<x, "gpu">>
      PROVE  LegOk(l)' /\ LookOk(l)'
  <2>1. leg'[l] = leg[l]
    BY <1>5
  <2>2. LegOk(l) /\ LookOk(l)
    BY DEF IInv
  <2>3. QED
    BY <2>1, <2>2 DEF LegOk, LookOk
<1>6. \A l \in Legs : LegOk(l)' /\ LookOk(l)'
  BY <1>5, Pairs
<1>7. \A x \in Threads : CallOk(x)' /\ AnswersOk(x)'
  BY <1>3, <1>4
<1>8. Threads' = Threads /\ Legs' = Legs
  BY DEF Threads, Legs
<1>9. QED
  BY <1>1, <1>2, <1>6, <1>7, <1>8 DEF IInv

\* A step of the data: the calls stay.
LEMMA DataStep ==
  ASSUME IInv, UNCHANGED <<storage, built, gpuVars, callVars, leg>>,
         DataType', QuietInv', MirrorInv',
         \A l \in Legs : LookOk(l)',
         \A l \in Legs : leg[l].buf # 0 /\ leg[l].sure => leg[l].img = data'
  PROVE  IInv'
<1> USE DEF gpuVars, callVars
<1>1. CallType'
  BY DEF IInv, CallType, Legs, Threads
<1>2. MutexInv'
  BY DEF IInv, MutexInv, Gpu
<1>3. \A x \in Threads : CallOk(x)'
  BY DEF IInv, CallOk, Cpu, Gpu
<1>4. \A x \in Threads : AnswersOk(x)'
  BY DEF IInv, AnswersOk, OfGpu, Cpu, Gpu
<1>5. \A l \in Legs : LegOk(l)'
  BY DEF IInv, LegOk
<1>6. QED
  BY <1>1, <1>2, <1>3, <1>4, <1>5 DEF IInv, Threads, Legs

\* Nobody walks while rw is held exclusively and the mutator is not in its repair.
LEMMA NobodyWalks ==
  ASSUME IInv, Exclusive, pc[Writer] = "idle", NEW l \in Legs
  PROVE  leg[l].at = "off" /\ leg[l].buf = 0
<1>1. PICK t \in Threads : l = <<t, "cpu">> \/ l = <<t, "gpu">>
  BY Pairs
<1>2. pc[t] = "idle"
  BY DEF Threads, Exclusive
<1>3. leg[l].at = "off"
  BY <1>1, <1>2 DEF IInv, CallOk, Cpu, Gpu
<1>4. QED
  BY <1>3 DEF IInv, LegOk

\* The mutex stays where it is while GPU legs stay inside or outside.
Inside == {"print", "look", "stage", "ready"}

LEMMA MutexStays ==
  ASSUME IInv, UNCHANGED <<storage, walkMutex>>,
         \A x \in Threads :
           /\ leg[<<x, "gpu">>].at \in Inside => leg'[<<x, "gpu">>].at \in Inside
           /\ storage = "f32" /\ leg'[<<x, "gpu">>].at \in Inside => leg[<<x, "gpu">>].at \in Inside
  PROVE  MutexInv'
<1>1. ASSUME walkMutex # NoOne
      PROVE  walkMutex[2] = "gpu" /\ leg'[walkMutex].at \notin Over \cup {"lock"}
  <2>1. walkMutex \in Legs /\ walkMutex[2] = "gpu" /\ leg[walkMutex] \in LegType
        /\ leg[walkMutex].at \notin Over \cup {"lock"} /\ LegOk(walkMutex)
    BY <1>1 DEF IInv, MutexInv, CallType
  <2>2. PICK x \in Threads : walkMutex = <<x, "gpu">>
    BY <2>1, Pairs
  <2>3. leg[walkMutex].at \in Inside
    BY <2>1 DEF LegType, Places, Over, Inside, LegOk
  <2>4. leg'[walkMutex].at \in Inside
    BY <2>2, <2>3
  <2>5. QED
    BY <2>1, <2>4 DEF Inside, Over
<1>2. ASSUME NEW x \in Threads, storage = "f32", leg'[<<x, "gpu">>].at \in Inside
      PROVE  walkMutex = <<x, "gpu">>
  <2>1. leg[<<x, "gpu">>].at \in Inside
    BY <1>2
  <2>2. QED
    BY <1>2, <2>1 DEF IInv, MutexInv, Gpu, Inside
<1>3. QED
  BY <1>1, <1>2 DEF MutexInv, Gpu, Threads, Inside

LEMMA MutexGivenBack ==
  ASSUME IInv, NEW t \in Threads, Unlock(t), storage' = storage,
         leg'[<<t, "gpu">>].at \in Over,
         \A x \in Threads \ {t} : leg'[<<x, "gpu">>] = leg[<<x, "gpu">>]
  PROVE  MutexInv' /\ walkMutex' \in Legs \cup {NoOne}
<1> DEFINE g == <<t, "gpu">>
<1>1. walkMutex' = IF walkMutex = g THEN NoOne ELSE walkMutex
  BY DEF Unlock
<1>2. walkMutex \in Legs \cup {NoOne}
  BY DEF IInv, CallType
<1>3. ASSUME walkMutex' # NoOne
      PROVE  walkMutex'[2] = "gpu" /\ leg'[walkMutex'].at \notin Over \cup {"lock"}
  <2>1. walkMutex' = walkMutex /\ walkMutex # g /\ walkMutex \in Legs
    BY <1>1, <1>2, <1>3
  <2>2. walkMutex[2] = "gpu" /\ leg[walkMutex].at \notin Over \cup {"lock"}
    BY <1>3, <2>1 DEF IInv, MutexInv
  <2>3. PICK x \in Threads : walkMutex = <<x, "gpu">>
    BY <2>1, <2>2, Pairs
  <2>4. QED
    BY <2>1, <2>2, <2>3
<1>4. ASSUME NEW x \in Threads, storage = "f32", leg'[<<x, "gpu">>].at \in Inside
      PROVE  walkMutex' = <<x, "gpu">>
  <2>1. x # t
    BY <1>4 DEF Inside, Over
  <2>2. walkMutex = <<x, "gpu">>
    BY <1>4, <2>1 DEF IInv, MutexInv, Gpu, Inside
  <2>3. QED
    BY <1>1, <2>1, <2>2
<1>5. QED
  BY <1>1, <1>2, <1>3, <1>4 DEF MutexInv, Gpu, Threads, Inside

-----------------------------------------------------------------------------
(* The data.                                                               *)

\* The generation is counted up: no fingerprint taken so far is of the new one.
LEMMA CountUpStep ==
  ASSUME IInv, gen' = gen + 1, UNCHANGED <<storage, data, mirror, built, gpuVars, callVars, leg>>,
         DataType', QuietInv'
  PROVE  IInv'
<1>1. gen \in Nat /\ mirror.fp \in Prints /\ \A l \in Legs : leg[l].fp \in Prints
  BY DEF IInv, DataType, MirrorType, CallType, LegType
<1>2. MirrorInv'
  BY <1>1, PrintGen DEF IInv, MirrorInv
<1>3. ASSUME NEW l \in Legs PROVE LookOk(l)'
  <2>1. LookOk(l)
    BY DEF IInv
  <2>2. QED
    BY <1>1, <2>1, PrintGen DEF LookOk
<1>4. \A l \in Legs : leg[l].buf # 0 /\ leg[l].sure => leg[l].img = data'
  BY DEF IInv, LegOk
<1>5. QED
  BY <1>2, <1>3, <1>4, DataStep

LEMMA OtherFreeStep == ASSUME IInv, OtherFree PROVE IInv'
<1> USE DEF OtherFree, dataVars, writerVars
<1>1. DataType'
  BY DEF IInv, DataType, MirrorType
<1>2. QuietInv'
  BY DEF IInv, QuietInv, callVars
<1>3. QED
  BY <1>1, <1>2, CountUpStep

LEMMA InvalidateStep == ASSUME IInv, Invalidate PROVE IInv'
<1> USE DEF Invalidate
<1>0. dirty' \in BOOLEAN
  OBVIOUS
<1>1. DataType'
  BY <1>0 DEF IInv, DataType, MirrorType
<1>2. QuietInv'
  BY DEF IInv, QuietInv, callVars
<1>3. QED
  BY <1>1, <1>2, CountUpStep

LEMMA GrowStep == ASSUME IInv, Grow PROVE IInv'
<1> USE DEF Grow, BeginWrite
<1>1. DataType'
  BY SMTT(30) DEF IInv, DataType, MirrorType
<1>2. QuietInv'
  BY DEF IInv, QuietInv, callVars
<1>3. CASE gen' = gen + 1
  BY <1>1, <1>2, <1>3, CountUpStep
<1>4. CASE UNCHANGED gen
  <2>1. MirrorInv' /\ \A l \in Legs : LookOk(l)'
    BY <1>4 DEF IInv, MirrorInv, LookOk
  <2>2. \A l \in Legs : leg[l].buf # 0 /\ leg[l].sure => leg[l].img = data'
    BY DEF IInv, LegOk
  <2>3. QED
    BY <1>1, <1>2, <2>1, <2>2, DataStep
<1>5. QED
  BY <1>3, <1>4

\* A chunk is written, or written back, while nobody walks.
LEMMA WriteStep ==
  ASSUME IInv, Exclusive, pc[Writer] = "idle", DataType', QuietInv', dirty' = TRUE,
         UNCHANGED <<storage, cacheVars, gpuVars, callVars, leg>>
  PROVE  IInv'
<1>1. MirrorInv'
  BY DEF IInv, MirrorInv, cacheVars
<1>2. ASSUME NEW l \in Legs PROVE LookOk(l)'
  BY NobodyWalks DEF LookOk
<1>3. \A l \in Legs : leg[l].buf # 0 /\ leg[l].sure => leg[l].img = data'
  BY NobodyWalks
<1>4. QED
  BY <1>1, <1>2, <1>3, DataStep DEF cacheVars

LEMMA UpdateRowStep == ASSUME IInv, UpdateRow PROVE IInv'
<1> USE DEF UpdateRow, BeginWrite, cacheVars
<1>1. PICK i \in DOMAIN data, v \in Values : data' = [data EXCEPT ![i] = v]
  OBVIOUS
<1>2. data' \in Seq(Values) /\ Len(data') = Len(data)
  BY <1>1 DEF IInv, DataType
<1>3. DataType'
  BY <1>2 DEF IInv, DataType
<1>4. pc[Writer] = "idle" /\ QuietInv'
  BY DEF IInv, QuietInv, callVars
<1>5. QED
  BY <1>3, <1>4, WriteStep

LEMMA AppendRowStep == ASSUME IInv, AppendRow PROVE IInv'
<1> USE DEF AppendRow, cacheVars
<1>1. PICK v \in Values : data' = Append(data, v)
  OBVIOUS
<1>2. data' \in Seq(Values) /\ Len(data') = Len(data) + 1
  BY <1>1 DEF IInv, DataType
<1>3. DataType'
  BY <1>2, GraphWalkAssumption DEF IInv, DataType, QuietInv
<1>4. pc[Writer] = "idle" /\ QuietInv'
  BY DEF IInv, QuietInv, callVars
<1>5. QED
  BY <1>3, <1>4, WriteStep

LEMMA WriteBackStep == ASSUME IInv, WriteBack PROVE IInv'
<1> USE DEF WriteBack, cacheVars
<1>1. DataType'
  BY DEF IInv, DataType
<1>2. pc[Writer] = "idle" /\ QuietInv'
  BY DEF IInv, QuietInv, callVars
<1>3. QED
  BY <1>1, <1>2, WriteStep

LEMMA WriteEndsStep == ASSUME IInv, WriteEnds PROVE IInv'
<1> USE DEF WriteEnds, dataVars, cacheVars
<1>1. DataType'
  BY DEF IInv, DataType
<1>2. QuietInv'
  BY DEF IInv, QuietInv, callVars
<1>3. MirrorInv'
  BY DEF IInv, MirrorInv
<1>4. ASSUME NEW l \in Legs PROVE LookOk(l)'
  BY DEF IInv, LookOk
<1>5. \A l \in Legs : leg[l].buf # 0 /\ leg[l].sure => leg[l].img = data'
  BY DEF IInv, LegOk
<1>6. QED
  BY <1>1, <1>2, <1>3, <1>4, <1>5, DataStep

-----------------------------------------------------------------------------
(* The legs that go on: the lookup, the mutex, the workspace.              *)

Busy == Places \ Over

\* A leg with queries that keeps them and stays busy leaves its call in order.
LEMMA BusyStep ==
  ASSUME IInv, UNCHANGED callVars,
         \A x \in Legs : /\ leg'[x].todo = leg[x].todo
                         /\ leg'[x].at = leg[x].at \/ (leg[x].at \in Busy /\ leg'[x].at \in Busy)
  PROVE  \A t \in Threads : CallOk(t)' /\ AnswersOk(t)'
<1> SUFFICES ASSUME NEW t \in Threads PROVE CallOk(t)' /\ AnswersOk(t)'
  OBVIOUS
<1> USE Sides DEF callVars, Cpu, Gpu
<1>1. CallOk(t) /\ AnswersOk(t) /\ LegOk(<<t, "cpu">>) /\ LegOk(<<t, "gpu">>)
  BY DEF IInv
<1>2. CallOk(t)'
  BY <1>1 DEF CallOk, Busy, Over
<1>3. AnswersOk(t)'
  BY <1>1 DEF AnswersOk, OfGpu, Busy, Over
<1>4. QED
  BY <1>2, <1>3

LEMMA TakeFingerprintStep == ASSUME IInv, NEW l \in Legs, TakeFingerprint(l) PROVE IInv'
<1>a. /\ leg' = [leg EXCEPT ![l].fp = Fingerprint, ![l].sure = ~dirty, ![l].at = "look"]
      /\ leg[l].at = "print"
  BY DEF TakeFingerprint
<1>b. UNCHANGED <<storage, data, src, dirty, gen, mirror, built, bumps, gpuVars, callVars, wpc, wprev>>
  BY DEF TakeFingerprint, dataVars, cacheVars, writerVars
<1>1. leg \in [Legs -> LegType] /\ leg[l] \in LegType /\ leg[l].at = "print"
  BY <1>a DEF IInv, CallType
<1>2. Fingerprint \in Prints /\ Fingerprint # NoPrint /\ Fingerprint[1] = gen
  BY PrintType DEF IInv
<1>3. leg'[l] = [leg[l] EXCEPT !.fp = Fingerprint, !.sure = ~dirty, !.at = "look"]
  BY <1>a, <1>1
<1>4. leg'[l] \in LegType /\ leg'[l].at = "look" /\ leg'[l].fp = Fingerprint
      /\ leg'[l].buf = leg[l].buf /\ leg'[l].todo = leg[l].todo
      /\ leg'[l].freedBy = leg[l].freedBy /\ leg'[l].img = leg[l].img
  BY <1>1, <1>2, <1>3 DEF LegType, Places
<1>5. leg'[l].sure => ~dirty
  BY <1>1, <1>3 DEF LegType
<1>6. \A x \in Legs : x # l => leg'[x] = leg[x]
  BY <1>a, <1>1
<1>7. CallType'
  <2>1. leg' \in [Legs -> LegType]
    BY <1>a, <1>1, <1>4
  <2>2. QED
    BY <1>b, <2>1 DEF IInv, CallType, callVars, gpuVars, Legs, Threads
<1>8. DataType' /\ QuietInv' /\ MirrorInv'
  BY <1>b DEF IInv, DataType, QuietInv, MirrorInv, callVars
<1>9. MutexInv'
  BY <1>1, <1>b, <1>4, <1>6, Sides DEF gpuVars, IInv, MutexInv, CallType, Gpu, Over
<1>10. \A t \in Threads : CallOk(t)' /\ AnswersOk(t)'
  BY <1>1, <1>b, <1>4, <1>6, BusyStep DEF Busy, Places, Over
<1>11. ASSUME NEW x \in Legs PROVE LegOk(x)' /\ LookOk(x)'
  <2>1. LegOk(x) /\ LookOk(x) /\ MirrorInv /\ gen \in Nat
    BY DEF IInv, DataType
  <2>2. CASE x # l
    BY <1>b, <1>6, <2>1, <2>2 DEF LegOk, LookOk
  <2>3. CASE x = l
    <3>1. LegOk(x)'
      BY <1>b, <1>1, <1>4, <2>1, <2>3 DEF LegOk, Over
    <3>2. LookOk(x)'
      BY <1>b, <1>2, <1>4, <1>5, <2>1, <2>3 DEF LookOk, MirrorInv
    <3>3. QED
      BY <3>1, <3>2
  <2>4. QED
    BY <2>2, <2>3
<1>12. QED
  BY <1>7, <1>8, <1>9, <1>10, <1>11 DEF IInv, Threads, Legs

\* A lookup that ends with a mirror: of these very vectors, or the one it found
\* under the fingerprint of the leg.
LEMMA LookupStep ==
  ASSUME IInv, NEW l \in Legs, leg[l].at = "look",
         NEW freed \in {0, mirror.buf}, leg' = Holding(l, mirror', freed),
         UNCHANGED <<dataVars, gpuVars, callVars, writerVars>>,
         DataType', built' >= built, gen' >= gen, MirrorInv',
         \/ mirror'.buf = 0
         \/ mirror'.img = data
         \/ mirror'.buf = mirror.buf /\ mirror'.img = mirror.img /\ mirror'.fp = mirror.fp
            /\ mirror.fp = leg[l].fp
  PROVE  IInv'
<1>1. /\ UNCHANGED <<storage, data, src, dirty, wpc, wprev, walkMutex, ws>>
      /\ UNCHANGED callVars
  BY DEF dataVars, gpuVars, writerVars
<1>2. leg \in [Legs -> LegType] /\ mirror' \in MirrorType
      /\ gen \in Nat /\ gen' \in Nat /\ built \in Nat /\ built' \in Nat
  BY DEF IInv, DataType, CallType
<1>3. l[2] \in {"cpu", "gpu"}
  BY DEF Legs
<1>4. /\ leg'[l].at = IF l[2] = "gpu" THEN "stage" ELSE "walk"
      /\ leg'[l].todo = leg[l].todo /\ leg'[l].buf = mirror'.buf /\ leg'[l].img = mirror'.img
      /\ leg'[l].freedBy = leg[l].freedBy
      /\ leg'[l].sure => leg[l].sure
      /\ leg'[l] \in LegType
  <2>1. leg'[l] = [leg[l] EXCEPT !.at = IF l[2] = "gpu" THEN "stage" ELSE "walk",
                                 !.fp = NoPrint, !.buf = mirror'.buf, !.img = mirror'.img]
    BY DEF Holding
  <2>2. leg[l] \in LegType
    BY <1>2
  <2>3. mirror'.buf \in Nat /\ mirror'.img \in Seq(Values)
    BY <1>2 DEF MirrorType
  <2>4. QED
    BY ZenonT(40), <2>1, <2>2, <2>3 DEF LegType, Places, Prints
<1>5. ASSUME NEW x \in Legs, x # l
      PROVE  /\ leg'[x].at = leg[x].at /\ leg'[x].todo = leg[x].todo /\ leg'[x].fp = leg[x].fp
             /\ leg'[x].buf = leg[x].buf /\ leg'[x].img = leg[x].img
             /\ leg'[x].sure => leg[x].sure
             /\ \/ leg'[x].freedBy = leg[x].freedBy
                \/ leg'[x].freedBy = l[2] /\ leg[x].buf = freed /\ freed # 0
             /\ leg'[x] \in LegType
  <2>1. leg'[x] = IF freed # 0 /\ leg[x].buf = freed THEN [leg[x] EXCEPT !.freedBy = l[2]]
                  ELSE leg[x]
    BY <1>5 DEF Holding
  <2>2. leg[x] \in LegType
    BY <1>2
  <2>3. CASE freed # 0 /\ leg[x].buf = freed
    <3>1. leg'[x] = [leg[x] EXCEPT !.freedBy = l[2]]
      BY <2>1, <2>3
    <3>2. QED
      BY <1>3, <2>2, <2>3, <3>1 DEF LegType
  <2>4. CASE ~(freed # 0 /\ leg[x].buf = freed)
    <3>1. leg'[x] = leg[x]
      BY <2>1, <2>4
    <3>2. QED
      BY <2>2, <3>1
  <2>5. QED
    BY <2>3, <2>4
<1>6. CallType'
  <2>1. leg' \in [Legs -> LegType]
    <3>1. \A x \in Legs : leg'[x] \in LegType
      BY <1>4, <1>5
    <3>2. leg' = [x \in Legs |-> leg'[x]]
      BY DEF Holding
    <3>3. QED
      BY <3>1, <3>2
  <2>2. QED
    BY <1>1, <2>1 DEF IInv, CallType, callVars, Legs, Threads
<1>7. QuietInv'
  BY <1>1 DEF IInv, QuietInv, callVars
<1>8. MutexInv'
  <2>1. \A x \in Legs : x[2] = "gpu" => (leg'[x].at \in Inside <=> leg[x].at \in Inside)
    BY <1>4, <1>5 DEF Inside
  <2>2. QED
    BY <1>1, <2>1, Sides, MutexStays
<1>9. \A t \in Threads : CallOk(t)' /\ AnswersOk(t)'
  BY <1>1, <1>4, <1>5, BusyStep DEF Busy, Places, Over
<1>10. LegOk(l)' /\ LookOk(l)'
  <2>1. LegOk(l) /\ LookOk(l) /\ mirror'.buf <= built'
    BY DEF IInv, MirrorInv
  <2>2. mirror'.buf # 0 /\ leg[l].sure => mirror'.img = data
    BY <2>1 DEF LookOk
  <2>3. LookOk(l)'
    BY <1>4 DEF LookOk
  <2>4. LegOk(l)'
    BY <1>1, <1>3, <1>4, <2>1, <2>2 DEF LegOk, Over
  <2>5. QED
    BY <2>3, <2>4
<1>11. ASSUME NEW x \in Legs, x # l PROVE LegOk(x)' /\ LookOk(x)'
  <2>1. LegOk(x) /\ LegOk(l) /\ LookOk(x)
    BY DEF IInv
  <2>2. LookOk(x)'
    BY <1>1, <1>2, <1>5, <1>11, <2>1, PrintGen DEF LookOk, LegType
  <2>3. ASSUME x[2] = "gpu", leg'[x].freedBy = "gpu" PROVE FALSE
    <3>1. l[2] = "gpu" /\ leg[x].buf # 0
      BY <1>5, <1>11, <2>1, <2>3 DEF LegOk
    <3>2. storage = "f32" /\ leg[x].at \in {"stage", "ready"}
      BY <1>2, <2>1, <2>3, <3>1 DEF LegOk, LegType, Places
    <3>3. walkMutex = x /\ walkMutex = l
      BY <2>3, <3>1, <3>2, Pairs DEF IInv, MutexInv, Gpu
    <3>4. QED
      BY <1>11, <3>3
  <2>4. LegOk(x)'
    <3>1. leg[x].buf \in Nat
      BY <1>2 DEF LegType
    <3>2. QED
      BY <1>1, <1>2, <1>5, <1>11, <2>1, <2>3, <3>1 DEF LegOk
  <2>5. QED
    BY <2>2, <2>4
<1>12. \A x \in Legs : LegOk(x)' /\ LookOk(x)'
  BY <1>10, <1>11
<1>13. QED
  BY <1>6, <1>7, <1>8, <1>9, <1>12 DEF IInv, Threads, Legs

LEMMA LookupHitsStep == ASSUME IInv, NEW l \in Legs, LookupHits(l) PROVE IInv'
<1>1. /\ leg[l].at = "look" /\ (Hit(l) \/ Rejected)
      /\ mirror' = [mirror EXCEPT !.fp = leg[l].fp] /\ leg' = Holding(l, mirror, 0)
      /\ UNCHANGED <<dataVars, gen, built, bumps, gpuVars, callVars, writerVars>>
  BY DEF LookupHits
<1>2. mirror \in MirrorType /\ leg[l].fp \in Prints
  BY DEF IInv, DataType, CallType, LegType
<1>3. /\ mirror' \in MirrorType /\ mirror'.fp = leg[l].fp /\ mirror'.buf = mirror.buf
      /\ mirror'.img = mirror.img
      /\ mirror.buf # 0 => mirror.fp = leg[l].fp
  BY <1>1, <1>2 DEF MirrorType, Hit, Rejected
<1>4. mirror'.usable = mirror.usable
  BY <1>1, <1>2 DEF MirrorType
<1>5. DataType'
  BY <1>1, <1>3 DEF IInv, DataType, dataVars, writerVars
<1>6. MirrorInv'
  BY <1>1, <1>3, <1>4 DEF IInv, MirrorInv, dataVars
<1>7. built' >= built /\ gen' >= gen
  BY <1>1 DEF IInv, DataType
<1>8. leg' = Holding(l, mirror', 0)
  BY <1>1, <1>3 DEF Holding
<1>9. QED
  BY <1>1, <1>3, <1>5, <1>6, <1>7, <1>8, LookupStep

LEMMA LookupBuildsStep == ASSUME IInv, NEW l \in Legs, LookupBuilds(l) PROVE IInv'
<1> DEFINE key == [NoMirror EXCEPT !.src = src, !.rows = Len(data), !.fp = leg[l].fp]
           drop == IF mirror.buf # 0 THEN 1 ELSE 0
<1>1. /\ leg[l].at = "look" /\ leg' = Holding(l, mirror', mirror.buf)
      /\ UNCHANGED <<dataVars, bumps, gpuVars, callVars, writerVars>>
  BY DEF LookupBuilds
<1>2. /\ src \in {1, 2} /\ Len(data) \in Nat /\ gen \in Nat /\ built \in Nat /\ bumps \in Nat
      /\ data \in Seq(Values) /\ leg[l].fp \in Prints /\ drop \in {0, 1}
      /\ leg[l].fp # NoPrint /\ leg[l].fp[1] \in Nat /\ leg[l].fp[1] <= gen
  BY <1>1, PrintGen DEF IInv, DataType, CallType, LegType, LookOk
<1>3. key \in MirrorType /\ key.fp = leg[l].fp /\ key.buf = 0 /\ ~key.usable
  BY <1>2, NewKey DEF IInv
<1> HIDE DEF key
<1>4. CASE /\ built' = built + 1
           /\ mirror' = [key EXCEPT !.usable = TRUE, !.buf = built + 1, !.img = data,
                                    !.made = bumps]
           /\ gen' = gen + drop
  <2>1. built + 1 \in Nat
    BY <1>2
  <2>2. mirror' \in MirrorType /\ mirror'.fp = leg[l].fp /\ mirror'.buf = built + 1
        /\ mirror'.img = data /\ mirror'.usable
    BY <1>2, <1>3, <1>4, <2>1 DEF MirrorType
  <2>3. gen' \in Nat /\ built' \in Nat /\ gen' >= gen /\ built' >= built
    BY <1>2, <1>4
  <2>4. DataType'
    BY <1>1, <2>2, <2>3 DEF IInv, DataType, dataVars, writerVars
  <2>5. MirrorInv'
    BY <1>1, <1>2, <1>4, <2>2 DEF MirrorInv, dataVars
  <2>6. QED
    BY <1>1, <2>2, <2>3, <2>4, <2>5, LookupStep
<1>5. CASE mirror' = key /\ gen' = gen + drop + 1 /\ UNCHANGED built
  <2>1. gen' \in Nat /\ built' \in Nat /\ gen' >= gen /\ built' >= built
    BY <1>2, <1>5
  <2>2. DataType'
    BY <1>1, <1>3, <1>5, <2>1 DEF IInv, DataType, dataVars, writerVars
  <2>3. MirrorInv'
    BY <1>1, <1>2, <1>3, <1>5 DEF MirrorInv, dataVars
  <2>4. QED
    BY <1>1, <1>3, <1>5, <2>1, <2>2, <2>3, LookupStep
<1>6. QED
  BY <1>4, <1>5 DEF LookupBuilds, key

\* A leg that moves on keeps everything but its place.
LEMMA MovedLeg ==
  ASSUME NEW old \in LegType, NEW at \in Places, NEW new, new = [old EXCEPT !.at = at]
  PROVE  /\ new \in LegType /\ new.at = at /\ new.todo = old.todo
         /\ new.buf = old.buf /\ new.img = old.img /\ new.freedBy = old.freedBy
         /\ new.sure => old.sure
<1>1. /\ new.at = at /\ new.todo = old.todo
      /\ new.buf = old.buf /\ new.img = old.img /\ new.freedBy = old.freedBy
  BY DEF LegType
<1>2. new.sure = old.sure /\ new.fp = old.fp
  BY DEF LegType
<1>3. new \in LegType
  BY DEF LegType
<1>4. QED
  BY <1>1, <1>2, <1>3

\* Steps that move the GPU leg of a call on, with the queries it has.
LEMMA GpuMoves ==
  ASSUME IInv, NEW t \in Threads, NEW at \in Busy,
         leg' = [leg EXCEPT ![<<t, "gpu">>].at = at],
         Gpu(t).at \in Busy, at \notin {"look", "walk"},
         Gpu(t).at \in {"lock", "print", "look"} \/ at \notin {"lock", "print", "look"},
         at \in {"lock", "print", "look"} => Gpu(t).buf = 0,
         UNCHANGED <<dataVars, cacheVars, callVars, writerVars>>,
         walkMutex' \in Legs \cup {NoOne}, ws' \in 0 .. MaxNq, MutexInv'
  PROVE  IInv'
<1> DEFINE g == <<t, "gpu">>
           c == <<t, "cpu">>
<1>1. UNCHANGED <<storage, data, src, dirty, gen, mirror, built, bumps, wpc, wprev,
                  pc, pol, split, by, gpuOk, outcome>>
  BY DEF dataVars, cacheVars, callVars, writerVars
<1>2. leg \in [Legs -> LegType] /\ g \in Legs /\ c \in Legs /\ c # g
  BY Sides DEF IInv, CallType
<1>3. leg'[g] = [leg[g] EXCEPT !.at = at] /\ \A x \in Legs : x # g => leg'[x] = leg[x]
  BY <1>2
<1>4. /\ leg'[g] \in LegType /\ leg'[g].at = at /\ leg'[g].todo = leg[g].todo
      /\ leg'[g].buf = leg[g].buf /\ leg'[g].img = leg[g].img
      /\ leg'[g].freedBy = leg[g].freedBy
      /\ leg'[g].sure => leg[g].sure
  <2>1. leg[g] \in LegType /\ at \in Places
    BY <1>2 DEF Busy
  <2>2. leg'[g] = [leg[g] EXCEPT !.at = at]
    BY <1>3
  <2>3. QED
    BY <2>1, <2>2, MovedLeg
<1>5. CallType'
  <2>1. leg' \in [Legs -> LegType]
    BY <1>2, <1>4
  <2>2. QED
    BY <1>1, <2>1 DEF IInv, CallType, Legs, Threads
<1>6. QuietInv' /\ wpc' \in {"idle", "grown", "written", "repair", "search"}
  BY <1>1 DEF IInv, QuietInv, DataType
<1>7. CallOk(t)' /\ AnswersOk(t)'
  BY <1>3, <1>4, BusyStep DEF Gpu
<1>8. LegOk(c)' /\ LookOk(c)'
  <2>1. LegOk(c) /\ LookOk(c) /\ leg'[c] = leg[c]
    BY <1>2, <1>3 DEF IInv
  <2>2. QED
    BY <1>1, <2>1 DEF LegOk, LookOk
<1>9. LookOk(g)'
  BY <1>4 DEF LookOk
<1>10. LegOk(g)'
  <2>1. LegOk(g) /\ leg[g].at \in Busy /\ g[2] = "gpu"
    BY <1>2 DEF IInv, Gpu
  <2>2. QED
    BY <1>1, <1>4, <2>1 DEF LegOk, Busy, Over, Places, Gpu
<1>11. QED
  BY <1>1, <1>2, <1>3, <1>5, <1>6, <1>7, <1>8, <1>9, <1>10, Sides, CallStep

LEMMA LockStep == ASSUME IInv, NEW t \in Threads, Lock(t) PROVE IInv'
<1> DEFINE g == <<t, "gpu">>
<1>1. /\ leg[g].at = "lock" /\ walkMutex = NoOne /\ walkMutex' = g
      /\ leg' = [leg EXCEPT ![g].at = "print"]
      /\ UNCHANGED <<dataVars, cacheVars, ws, callVars, writerVars>>
  BY DEF Lock
<1>2. leg \in [Legs -> LegType] /\ g \in Legs /\ LegOk(g) /\ ws \in 0 .. MaxNq
  BY Sides DEF IInv, CallType
<1>3. leg'[g].at = "print" /\ \A x \in Legs : x # g => leg'[x] = leg[x]
  BY <1>1, <1>2 DEF LegType
<1>4. MutexInv'
  <2>1. ASSUME NEW x \in Threads, storage = "f32",
               leg'[<<x, "gpu">>].at \in {"print", "look", "stage", "ready"}
        PROVE  walkMutex' = <<x, "gpu">>
    <3>1. CASE x = t
      BY <1>1, <3>1
    <3>2. CASE x # t
      <4>1. leg'[<<x, "gpu">>] = leg[<<x, "gpu">>]
        BY <1>3, <3>2, Sides
      <4>2. walkMutex = <<x, "gpu">>
        BY <2>1, <4>1 DEF IInv, MutexInv, Gpu
      <4>3. QED
        BY <1>1, <4>2 DEF NoOne
    <3>3. QED
      BY <3>1, <3>2
  <2>2. QED
    BY <1>1, <1>3, <2>1 DEF MutexInv, Gpu, Threads, Over, dataVars
<1>5. "print" \in Busy /\ "lock" \in Busy /\ leg[g].buf = 0
  BY <1>1, <1>2 DEF Busy, Places, Over, LegOk
<1>6. QED
  BY <1>1, <1>2, <1>4, <1>5, GpuMoves DEF Gpu

LEMMA TodoIsFinite ==
  ASSUME NEW Q \in SUBSET (1 .. MaxNq)
  PROVE  IsFiniteSet(Q) /\ Cardinality(Q) \in 0 .. MaxNq
<1>1. MaxNq \in Nat
  BY GraphWalkAssumption
<1>2. IsFiniteSet(1 .. MaxNq) /\ Cardinality(1 .. MaxNq) = MaxNq
  BY <1>1, FS_Interval
<1>3. IsFiniteSet(Q) /\ Cardinality(Q) <= MaxNq
  BY <1>2, FS_Subset
<1>4. Cardinality(Q) \in Nat
  BY <1>3, FS_CardinalityType
<1>5. QED
  BY <1>1, <1>3, <1>4

LEMMA StageStep == ASSUME IInv, NEW t \in Threads, Stage(t) PROVE IInv'
<1> DEFINE g == <<t, "gpu">>
           need == Cardinality(leg[g].todo)
<1>1. /\ leg[g].at = "stage" /\ ws' = IF ws < need THEN need ELSE ws
      /\ leg' = [leg EXCEPT ![g].at = "ready"]
      /\ UNCHANGED <<dataVars, cacheVars, walkMutex, callVars, writerVars>>
  BY DEF Stage
<1>2. /\ leg \in [Legs -> LegType] /\ g \in Legs /\ LegOk(g) /\ ws \in 0 .. MaxNq
      /\ walkMutex \in Legs \cup {NoOne}
  BY Sides DEF IInv, CallType
<1>3. leg'[g].at = "ready" /\ \A x \in Legs : x # g => leg'[x] = leg[x]
  BY <1>1, <1>2 DEF LegType
<1>4. ws' \in 0 .. MaxNq
  <2>1. need \in 0 .. MaxNq
    BY <1>2, TodoIsFinite DEF LegType
  <2>2. QED
    BY <1>1, <1>2, <2>1
<1>5. MutexInv'
  BY <1>1, <1>3, Sides, MutexStays DEF Inside, Places, dataVars
<1>6. "ready" \in Busy /\ "stage" \in Busy
  BY DEF Busy, Places, Over
<1>7. QED
  BY <1>1, <1>2, <1>4, <1>5, <1>6, GpuMoves DEF Gpu

-----------------------------------------------------------------------------
(* The answers.                                                            *)

LEMMA AnswersType ==
  /\ \A b \in Answers : DOMAIN b \in SUBSET (1 .. MaxNq)
                        /\ \A q \in DOMAIN b : b[q] \in {"none", "cpu", "gpu"}
  /\ \A Q \in SUBSET (1 .. MaxNq) : [Q -> {"none", "cpu", "gpu"}] \subseteq Answers
BY DEF Answers

\* A leg answers the queries in part.
LEMMA Answered ==
  ASSUME CallType, NEW t \in Threads, NEW part, NEW who \in {"cpu", "gpu"},
         by' = [by EXCEPT ![t] = [q \in DOMAIN @ |-> IF q \in part THEN who ELSE @[q]]]
  PROVE  /\ by' \in [Threads -> Answers]
         /\ \A x \in Threads \ {t} : by'[x] = by[x]
         /\ DOMAIN by'[t] = DOMAIN by[t]
         /\ \A q \in DOMAIN by[t] : by'[t][q] = IF q \in part THEN who ELSE by[t][q]
<1> DEFINE f == [q \in DOMAIN by[t] |-> IF q \in part THEN who ELSE by[t][q]]
<1>1. by \in [Threads -> Answers] /\ by[t] \in Answers
  BY DEF CallType
<1>2. by'[t] = f /\ \A x \in Threads \ {t} : by'[x] = by[x]
  BY <1>1
<1>3. f \in [DOMAIN by[t] -> {"none", "cpu", "gpu"}]
  BY <1>1, AnswersType
<1>4. f \in Answers
  BY <1>1, <1>3, AnswersType
<1>5. QED
  BY <1>1, <1>2, <1>4

LEMMA CpuWalksStep == ASSUME IInv, NEW t \in Threads, NEW q, CpuWalks(t, q) PROVE IInv'
<1> DEFINE c == <<t, "cpu">>
           g == <<t, "gpu">>
<1>1. /\ leg[c].at = "walk" /\ q \in leg[c].todo
      /\ by' = [by EXCEPT ![t][q] = "cpu"]
      /\ leg' = [leg EXCEPT ![c].todo = @ \ {q},
                            ![c].at = IF leg[c].todo = {q} THEN "ok" ELSE "walk"]
      /\ UNCHANGED <<storage, data, src, dirty, gen, mirror, built, bumps, walkMutex, ws,
                     wpc, wprev, pc, pol, split, gpuOk, outcome>>
  BY DEF CpuWalks, dataVars, cacheVars, gpuVars, writerVars
<1>2. /\ leg \in [Legs -> LegType] /\ c \in Legs /\ g \in Legs /\ c # g
      /\ leg[c] \in LegType
      /\ LegOk(c) /\ LegOk(g) /\ LookOk(g) /\ CallOk(t) /\ AnswersOk(t)
      /\ by \in [Threads -> Answers]
  BY Sides DEF IInv, CallType
<1>3. /\ \A x \in Legs : x # c => leg'[x] = leg[x]
      /\ leg'[c] = [leg[c] EXCEPT !.todo = @ \ {q},
                                  !.at = IF leg[c].todo = {q} THEN "ok" ELSE "walk"]
  BY <1>1, <1>2
<1>4. /\ leg'[c] \in LegType /\ leg'[c].todo = leg[c].todo \ {q}
      /\ leg'[c].at = IF leg[c].todo = {q} THEN "ok" ELSE "walk"
      /\ leg'[c].buf = leg[c].buf /\ leg'[c].img = leg[c].img
      /\ leg'[c].sure => leg[c].sure
  BY ZenonT(40), <1>2, <1>3 DEF LegType, Places
<1>5. q \in DOMAIN by[t] /\ pc[t] = "cpu" /\ ~OfGpu(t, q)
  <2>1. q \in DOMAIN by[t] /\ ~OfGpu(t, q)
    BY <1>1, <1>2 DEF AnswersOk, Cpu
  <2>2. pc[t] \in {"idle", "gpu", "cpu", "join"}
    BY DEF IInv, CallType
  <2>3. QED
    BY <1>1, <1>2, <2>1, <2>2 DEF CallOk, Cpu
<1>6. /\ by' \in [Threads -> Answers]
      /\ \A x \in Threads \ {t} : by'[x] = by[x]
      /\ DOMAIN by'[t] = DOMAIN by[t]
      /\ \A r \in DOMAIN by[t] : by'[t][r] = IF r = q THEN "cpu" ELSE by[t][r]
  <2>1. by' = [by EXCEPT ![t] = [r \in DOMAIN @ |-> IF r \in {q} THEN "cpu" ELSE @[r]]]
    BY <1>1, <1>2, <1>5 DEF Answers
  <2>2. QED
    BY <2>1, Answered DEF IInv
<1>7. CallType'
  <2>1. leg' \in [Legs -> LegType]
    BY <1>1, <1>2, <1>4
  <2>2. QED
    BY <1>1, <1>6, <2>1 DEF IInv, CallType, Legs, Threads
<1>8. QuietInv' /\ wpc' \in {"idle", "grown", "written", "repair", "search"}
  BY <1>1 DEF IInv, QuietInv, DataType
<1>9. MutexInv'
  BY <1>1, <1>3, Sides, MutexStays
<1>10. CallOk(t)'
  BY <1>1, <1>2, <1>3, <1>4, <1>5 DEF CallOk, Cpu, Gpu
<1>11. AnswersOk(t)'
  BY ZenonT(40), <1>1, <1>2, <1>3, <1>4, <1>5, <1>6 DEF AnswersOk, OfGpu, Cpu, Gpu, CallOk
<1>12. LegOk(g)' /\ LookOk(g)'
  BY <1>1, <1>2, <1>3 DEF LegOk, LookOk
<1>13. LegOk(c)' /\ LookOk(c)'
  BY <1>1, <1>2, <1>4 DEF LegOk, LookOk, Over
<1>14. QED
  BY <1>1, <1>3, <1>6, <1>7, <1>8, <1>9, <1>10, <1>11, <1>12, <1>13, Sides, CallStep

\* The GPU writes the answers in part; its leg goes on, ends well or fails.
LEMMA GpuAnswers ==
  ASSUME IInv, NEW t \in Threads, Gpu(t).at \in Busy,
         NEW part \in SUBSET Gpu(t).todo,
         by' = [by EXCEPT ![t] = [q \in DOMAIN @ |-> IF q \in part THEN "gpu" ELSE @[q]]],
         NEW after \in LegType, leg' = [leg EXCEPT ![<<t, "gpu">>] = after],
         \/ after = Leg("failed", {})
         \/ after = Leg("ok", {}) /\ part = Gpu(t).todo
         \/ /\ after = [Gpu(t) EXCEPT !.todo = Gpu(t).todo \ part]
            /\ Gpu(t).at = "ready" /\ part # Gpu(t).todo,
         gpuOk' \in [Threads -> BOOLEAN],
         gpuOk'[t] <=> after.at = "ok", \A x \in Threads \ {t} : gpuOk'[x] = gpuOk[x],
         walkMutex' \in Legs \cup {NoOne}, MutexInv',
         UNCHANGED <<dataVars, cacheVars, ws, pc, pol, split, outcome, writerVars>>
  PROVE  IInv'
<1> DEFINE c == <<t, "cpu">>
           g == <<t, "gpu">>
<1>1. UNCHANGED <<storage, data, src, dirty, gen, mirror, built, bumps, ws, wpc, wprev,
                  pc, pol, split, outcome>>
  BY DEF dataVars, cacheVars, writerVars
<1>2. /\ leg \in [Legs -> LegType] /\ c \in Legs /\ g \in Legs /\ c # g
      /\ leg[g] \in LegType /\ leg[g].at \in Busy /\ g[2] = "gpu"
      /\ LegOk(c) /\ LookOk(c) /\ LegOk(g) /\ CallOk(t) /\ AnswersOk(t)
      /\ part \subseteq leg[g].todo
  BY Sides DEF IInv, CallType, Gpu
<1>3. leg'[g] = after /\ \A x \in Legs : x # g => leg'[x] = leg[x]
  BY <1>2
<1>4. /\ after.at \in {"failed", "ok", "ready"}
      /\ after.at # "ready" => after.todo = {} /\ after.buf = 0 /\ after.freedBy = "nobody"
      /\ after.at = "ok" => part = leg[g].todo
      /\ after.at = "ready" =>
           /\ leg[g].at = "ready" /\ after.todo = leg[g].todo \ part /\ after.todo # {}
           /\ after.buf = leg[g].buf /\ after.img = leg[g].img
           /\ after.freedBy = leg[g].freedBy
           /\ after.sure => leg[g].sure
  <2>1. CASE after = Leg("failed", {})
    BY <2>1 DEF Leg
  <2>2. CASE after = Leg("ok", {}) /\ part = leg[g].todo
    BY <2>2 DEF Leg
  <2>3. CASE /\ after = [leg[g] EXCEPT !.todo = leg[g].todo \ part]
             /\ leg[g].at = "ready" /\ part # leg[g].todo
    <3>1. leg[g].todo \ part # {}
      BY <1>2, <2>3
    <3>2. QED
      BY <1>2, <2>3, <3>1 DEF LegType
  <2>4. QED
    BY <2>1, <2>2, <2>3 DEF Gpu
<1>5. /\ by' \in [Threads -> Answers]
      /\ \A x \in Threads \ {t} : by'[x] = by[x]
      /\ DOMAIN by'[t] = DOMAIN by[t]
      /\ \A q \in DOMAIN by[t] : by'[t][q] = IF q \in part THEN "gpu" ELSE by[t][q]
  BY Answered DEF IInv
<1>6. CallType'
  <2>1. leg' \in [Legs -> LegType]
    BY <1>2
  <2>2. QED
    BY <1>1, <1>5, <2>1 DEF IInv, CallType, Legs, Threads
<1>7. QuietInv' /\ wpc' \in {"idle", "grown", "written", "repair", "search"}
  BY <1>1 DEF IInv, QuietInv, DataType
<1>8. pc[t] # "idle" /\ (pc[t] = "gpu" \/ split[t] > 0)
  <2>1. pc[t] \in {"idle", "gpu", "cpu", "join"} /\ split[t] \in 0 .. MaxNq
    BY DEF IInv, CallType
  <2>2. QED
    BY <1>2, <2>1 DEF CallOk, Gpu, Busy, Over
<1>9. CallOk(t)'
  BY <1>1, <1>2, <1>3, <1>4, <1>5, <1>8 DEF CallOk, Cpu, Gpu
<1>10. AnswersOk(t)'
  <2>1. leg'[g].todo \subseteq leg[g].todo /\ leg'[c] = leg[c]
    BY <1>2, <1>3, <1>4
  <2>2. ASSUME NEW q \in DOMAIN by[t], OfGpu(t, q)
        PROVE  leg'[g].at = "failed" \/ q \in leg'[g].todo \/ by'[t][q] = "gpu"
    <3>1. leg[g].at # "failed"
      BY <1>2 DEF Busy, Over
    <3>2. q \in leg[g].todo \/ by[t][q] = "gpu"
      BY <1>2, <1>8, <2>2, <3>1 DEF AnswersOk, Gpu
    <3>3. QED
      BY <1>3, <1>4, <1>5, <3>2
  <2>3. ASSUME NEW q \in DOMAIN by[t], q \in part PROVE OfGpu(t, q)
    BY <1>2, <2>3 DEF AnswersOk, Gpu
  <2>4. QED
    BY <1>1, <1>2, <1>5, <2>1, <2>2, <2>3 DEF AnswersOk, OfGpu, Cpu, Gpu
<1>11. LegOk(c)' /\ LookOk(c)'
  BY <1>1, <1>2, <1>3 DEF LegOk, LookOk
<1>12. LookOk(g)'
  BY <1>3, <1>4 DEF LookOk
<1>13. LegOk(g)'
  <2>1. built \in Nat
    BY DEF IInv, DataType
  <2>2. QED
    BY <1>1, <1>2, <1>3, <1>4, <2>1 DEF LegOk, Over
<1>14. QED
  BY <1>1, <1>3, <1>5, <1>6, <1>7, <1>9, <1>10, <1>11, <1>12, <1>13, Sides, CallStep

LEMMA LaunchStep == ASSUME IInv, NEW t \in Threads, Launch(t) PROVE IInv'
<1> DEFINE g == <<t, "gpu">>
<1>1. leg[g].at = "ready" /\ leg \in [Legs -> LegType] /\ g \in Legs /\ leg[g] \in LegType
      /\ LegOk(g) /\ CallOk(t) /\ gpuOk \in [Threads -> BOOLEAN]
      /\ walkMutex \in Legs \cup {NoOne}
  BY Sides DEF Launch, IInv, CallType
<1>2. UNCHANGED <<dataVars, cacheVars, ws, pc, pol, split, outcome, writerVars>>
  BY DEF Launch
<1>3. PICK m \in leg[g].todo :
        LET part == {q \in leg[g].todo : q <= m}
            rest == leg[g].todo \ part
        IN  /\ by' = [by EXCEPT ![t] = [q \in DOMAIN @ |-> IF q \in part THEN "gpu" ELSE @[q]]]
            /\ IF rest = {}
                 THEN /\ leg' = [leg EXCEPT ![g] = Leg("ok", {})]
                      /\ gpuOk' = [gpuOk EXCEPT ![t] = TRUE]
                      /\ Unlock(t)
                 ELSE /\ leg' = [leg EXCEPT ![g].todo = rest]
                      /\ UNCHANGED <<gpuOk, walkMutex>>
  BY DEF Launch
<1> DEFINE part == {q \in leg[g].todo : q <= m}
           rest == leg[g].todo \ part
<1>4. by' = [by EXCEPT ![t] = [q \in DOMAIN @ |-> IF q \in part THEN "gpu" ELSE @[q]]]
  BY <1>3
<1>5. part \subseteq leg[g].todo
  OBVIOUS
<1>6. CASE rest = {}
  <2>1. /\ leg' = [leg EXCEPT ![g] = Leg("ok", {})] /\ gpuOk' = [gpuOk EXCEPT ![t] = TRUE]
        /\ Unlock(t)
    BY <1>3, <1>6
  <2>2. part = leg[g].todo
    BY <1>6
  <2> HIDE DEF part, rest
  <2>3. Leg("ok", {}) \in LegType /\ Leg("ok", {}).at = "ok"
    BY NewLeg DEF Leg, Places
  <2>4. leg'[g].at = "ok" /\ \A x \in Legs : x # g => leg'[x] = leg[x]
    BY <1>1, <2>1, <2>3
  <2>5. gpuOk' \in [Threads -> BOOLEAN] /\ gpuOk'[t] /\ \A x \in Threads \ {t} : gpuOk'[x] = gpuOk[x]
    BY <1>1, <2>1
  <2>6. MutexInv' /\ walkMutex' \in Legs \cup {NoOne}
    BY <1>2, <2>1, <2>4, Sides, MutexGivenBack DEF Over, dataVars
  <2>7. QED
    BY <1>1, <1>2, <1>4, <1>5, <2>1, <2>2, <2>3, <2>5, <2>6, GpuAnswers DEF Gpu, Busy, Places, Over
<1>7. CASE rest # {}
  <2>1. leg' = [leg EXCEPT ![g].todo = rest] /\ UNCHANGED <<gpuOk, walkMutex>>
    BY <1>3, <1>7
  <2>2. part # leg[g].todo /\ rest = leg[g].todo \ part
    BY <1>7
  <2> HIDE DEF part, rest
  <2> DEFINE after == [leg[g] EXCEPT !.todo = rest]
  <2>3. after \in LegType /\ after.at = "ready"
    BY <1>1, <2>2 DEF LegType
  <2>4. leg' = [leg EXCEPT ![g] = after]
    BY <2>1
  <2>5. leg'[g].at = "ready" /\ \A x \in Legs : x # g => leg'[x] = leg[x]
    BY <1>1, <2>3, <2>4
  <2>6. MutexInv'
    BY <1>1, <1>2, <2>1, <2>5, Sides, MutexStays DEF dataVars
  <2>7. ~gpuOk[t]
    BY <1>1 DEF CallOk, Gpu
  <2> HIDE DEF after
  <2>8. QED
    BY <1>1, <1>2, <1>4, <1>5, <2>1, <2>2, <2>3, <2>4, <2>6, <2>7, GpuAnswers
    DEF Gpu, Busy, Places, Over, after
<1>8. QED
  BY <1>6, <1>7

LEMMA GpuFailsStep == ASSUME IInv, NEW t \in Threads, GpuFails(t) PROVE IInv'
<1> DEFINE g == <<t, "gpu">>
           after == Leg("failed", {})
<1>1. /\ leg[g].at \in {"print", "look", "stage", "ready"} /\ leg' = [leg EXCEPT ![g] = after]
      /\ Unlock(t)
      /\ UNCHANGED <<dataVars, cacheVars, ws, pc, pol, split, gpuOk, outcome, writerVars>>
  BY DEF GpuFails
<1>2. PICK part \in SUBSET leg[g].todo :
        by' = [by EXCEPT ![t] = [q \in DOMAIN @ |-> IF q \in part THEN "gpu" ELSE @[q]]]
  BY DEF GpuFails
<1>3. leg \in [Legs -> LegType] /\ g \in Legs /\ CallOk(t) /\ gpuOk \in [Threads -> BOOLEAN]
  BY Sides DEF IInv, CallType
<1>4. after \in LegType /\ after.at = "failed"
  BY NewLeg DEF Leg, Places
<1>5. leg'[g].at = "failed" /\ \A x \in Legs : x # g => leg'[x] = leg[x]
  BY <1>1, <1>3, <1>4
<1>6. MutexInv' /\ walkMutex' \in Legs \cup {NoOne}
  BY <1>1, <1>5, Sides, MutexGivenBack DEF Over, dataVars
<1>7. ~gpuOk[t]
  BY <1>1, <1>3 DEF CallOk, Gpu
<1>8. QED
  BY <1>1, <1>2, <1>3, <1>4, <1>6, <1>7, GpuAnswers DEF Gpu, Busy, Places, Over

-----------------------------------------------------------------------------
(* The thread of a call.                                                   *)

LEMMA ReturnStep ==
  ASSUME IInv, NEW t \in Threads, NEW status \in Statuses, Return(t, status),
         pc[t] # "idle", Gpu(t).at \in Over,
         UNCHANGED <<dataVars, cacheVars, gpuVars, writerVars>>
  PROVE  IInv'
<1> DEFINE c == <<t, "cpu">>
           g == <<t, "gpu">>
           off == Leg("off", {})
<1>1. UNCHANGED <<storage, data, src, dirty, gen, mirror, built, bumps, walkMutex, ws, wpc, wprev>>
  BY DEF dataVars, cacheVars, gpuVars, writerVars
<1>2. /\ pc' = [pc EXCEPT ![t] = "idle"] /\ leg' = [leg EXCEPT ![c] = off, ![g] = off]
      /\ outcome' = [outcome EXCEPT ![t] = status] /\ pol' = [pol EXCEPT ![t] = "none"]
      /\ split' = [split EXCEPT ![t] = 0] /\ by' = [by EXCEPT ![t] = <<>>]
      /\ gpuOk' = [gpuOk EXCEPT ![t] = FALSE]
  BY DEF Return, Legs2
<1>3. leg \in [Legs -> LegType] /\ c \in Legs /\ g \in Legs /\ c # g
  BY Sides DEF IInv, CallType
<1>4. off \in LegType /\ off.at = "off" /\ off.todo = {} /\ off.buf = 0 /\ off.freedBy = "nobody"
  BY NewLeg DEF Leg, Places
<1>5. leg'[c] = off /\ leg'[g] = off /\ leg' \in [Legs -> LegType]
      /\ \A x \in Legs \ {c, g} : leg'[x] = leg[x]
  <2> HIDE DEF off
  <2>1. QED
    BY <1>2, <1>3, <1>4
<1>6. /\ pc \in [Threads -> {"idle", "gpu", "cpu", "join"}] /\ pol \in [Threads -> Routes]
      /\ split \in [Threads -> 0 .. MaxNq] /\ by \in [Threads -> Answers]
      /\ outcome \in [Threads -> Statuses]
  BY DEF IInv, CallType
<1>7. gpuOk' \in [Threads -> BOOLEAN] /\ ~gpuOk'[t] /\ \A x \in Threads \ {t} : gpuOk'[x] = gpuOk[x]
  BY <1>2 DEF IInv, CallType
<1>8. 0 \in 0 .. MaxNq /\ <<>> \in Answers /\ DOMAIN <<>> = {}
  BY GraphWalkAssumption, NoAnswers
<1>9. /\ pc'[t] = "idle" /\ pol'[t] = "none" /\ split'[t] = 0 /\ DOMAIN by'[t] = {}
      /\ \A x \in Threads \ {t} :
           /\ pc'[x] = pc[x] /\ pol'[x] = pol[x] /\ split'[x] = split[x] /\ by'[x] = by[x]
           /\ outcome'[x] = outcome[x]
  BY <1>2, <1>6, <1>8
<1>10. CallType'
  <2>1. pc' \in [Threads -> {"idle", "gpu", "cpu", "join"}] /\ pol' \in [Threads -> Routes]
        /\ outcome' \in [Threads -> Statuses]
    BY <1>2, <1>6 DEF Routes
  <2>2. split' \in [Threads -> 0 .. MaxNq] /\ by' \in [Threads -> Answers]
    BY <1>2, <1>6, <1>8
  <2>3. QED
    BY <1>1, <1>5, <1>7, <2>1, <2>2 DEF IInv, CallType, Legs, Threads
<1>11. wpc' \in {"idle", "grown", "written", "repair", "search"}
  BY <1>1 DEF IInv, DataType
<1>12. QuietInv'
  <2>1. wpc # "search" => pc'[Writer] = "idle"
    BY <1>9 DEF IInv, QuietInv, Threads
  <2>2. QED
    BY <1>1, <2>1 DEF IInv, QuietInv
<1>13. MutexInv'
  <2>1. ASSUME NEW x \in Threads
        PROVE  leg'[<<x, "gpu">>].at \in Inside <=> leg[<<x, "gpu">>].at \in Inside
    BY <1>4, <1>5, Sides DEF Gpu, Inside, Over
  <2>2. QED
    BY <1>1, <2>1, MutexStays
<1>14. CallOk(t)' /\ AnswersOk(t)'
  BY <1>4, <1>5, <1>7, <1>9 DEF CallOk, AnswersOk, Cpu, Gpu
<1>15. LegOk(c)' /\ LegOk(g)' /\ LookOk(c)' /\ LookOk(g)'
  <2>1. built \in Nat
    BY DEF IInv, DataType
  <2>2. QED
    BY <1>1, <1>4, <1>5, <2>1 DEF LegOk, LookOk, Over
<1>16. QED
  BY <1>1, <1>5, <1>7, <1>9, <1>10, <1>11, <1>12, <1>13, <1>14, <1>15, Sides, CallStep

\* The CPU takes over the queries of a GPU leg that failed.
LEMMA FallbackStep ==
  ASSUME IInv, NEW t \in Threads, Gpu(t).at = "failed", pc[t] # "idle", pol[t] # "force_gpu",
         Cpu(t).todo = {},
         NEW after \in LegType, leg' = [leg EXCEPT ![<<t, "cpu">>] = after],
         after.todo # {}, after.todo = {q \in DOMAIN by[t] : OfGpu(t, q)},
         \/ after.at = "walk" /\ after.buf = Cpu(t).buf /\ after.img = Cpu(t).img
              /\ (after.sure => Cpu(t).sure)
         \/ after.at = "print" /\ storage = "f32" /\ after.buf = 0
         \/ after.at = "walk" /\ after.buf = 0,
         pc' = [pc EXCEPT ![t] = "cpu"], split' \in [Threads -> 0 .. MaxNq], split'[t] = 0,
         \A x \in Threads \ {t} : split'[x] = split[x],
         UNCHANGED <<dataVars, cacheVars, gpuVars, pol, by, gpuOk, outcome, writerVars>>
  PROVE  IInv'
<1> DEFINE c == <<t, "cpu">>
           g == <<t, "gpu">>
<1>1. UNCHANGED <<storage, data, src, dirty, gen, mirror, built, bumps, walkMutex, ws, wpc, wprev,
                  pol, by, gpuOk, outcome>>
  BY DEF dataVars, cacheVars, gpuVars, writerVars
<1>2. /\ leg \in [Legs -> LegType] /\ c \in Legs /\ g \in Legs /\ c # g
      /\ LegOk(c) /\ LegOk(g) /\ LookOk(g) /\ CallOk(t) /\ AnswersOk(t)
      /\ pc \in [Threads -> {"idle", "gpu", "cpu", "join"}] /\ c[2] = "cpu"
  BY Sides DEF IInv, CallType
<1>3. leg'[c] = after /\ leg' \in [Legs -> LegType] /\ \A x \in Legs : x # c => leg'[x] = leg[x]
  BY <1>2
<1>4. pc'[t] = "cpu" /\ \A x \in Threads \ {t} : pc'[x] = pc[x]
  BY <1>2
<1>5. CallType'
  <2>1. pc' \in [Threads -> {"idle", "gpu", "cpu", "join"}]
    BY <1>2
  <2>2. QED
    BY <1>1, <1>3, <2>1 DEF IInv, CallType, Legs, Threads
<1>6. wpc' \in {"idle", "grown", "written", "repair", "search"}
  BY <1>1 DEF IInv, DataType
<1>7. QuietInv'
  <2>1. wpc # "search" => pc'[Writer] = "idle"
    BY <1>4 DEF IInv, QuietInv, Threads
  <2>2. QED
    BY <1>1, <2>1 DEF IInv, QuietInv
<1>8. MutexInv'
  BY <1>1, <1>3, Sides, MutexStays
<1>9. CallOk(t)'
  BY <1>1, <1>2, <1>3, <1>4 DEF CallOk, Cpu, Gpu
<1>10. AnswersOk(t)'
  <2>1. Gpu(t).todo = {}
    BY <1>2 DEF LegOk, Gpu, Over
  <2>2. ASSUME NEW q \in DOMAIN by[t] PROVE ~OfGpu(t, q)'
    <3>1. DOMAIN by[t] \subseteq 1 .. MaxNq
      BY AnswersType DEF IInv, CallType
    <3>2. q > 0
      BY <2>2, <3>1
    <3>3. QED
      BY <1>4, <3>2, <3>1 DEF OfGpu
  <2>3. ASSUME NEW q \in DOMAIN by[t], ~OfGpu(t, q) PROVE by[t][q] = "cpu"
    BY <1>2, <2>3 DEF AnswersOk
  <2>4. QED
    BY <1>1, <1>2, <1>3, <2>1, <2>2, <2>3 DEF AnswersOk, Cpu, Gpu
<1>11. LegOk(g)' /\ LookOk(g)'
  BY <1>1, <1>2, <1>3 DEF LegOk, LookOk
<1>12. LookOk(c)'
  BY <1>3 DEF LookOk
<1>13. LegOk(c)'
  <2>1. built \in Nat
    BY DEF IInv, DataType
  <2>2. QED
    BY <1>1, <1>2, <1>3, <2>1 DEF LegOk, Over, Cpu
<1>14. QED
  BY <1>1, <1>3, <1>4, <1>5, <1>6, <1>7, <1>8, <1>9, <1>10, <1>11, <1>12, <1>13, Sides, CallStep

LEMMA GpuReturnedStep == ASSUME IInv, NEW t \in Threads, GpuReturned(t) PROVE IInv'
<1> DEFINE c == <<t, "cpu">>
           g == <<t, "gpu">>
<1>1. /\ pc[t] = "gpu" /\ Gpu(t).at \in {"ok", "failed"}
      /\ UNCHANGED <<dataVars, cacheVars, gpuVars, writerVars>>
  BY DEF GpuReturned, Gpu
<1>2. CASE \E status \in {"success", "unavailable"} : Return(t, status)
  BY <1>1, <1>2, ReturnStep DEF Statuses, Over
<1>3. CASE /\ Gpu(t).at = "failed" /\ pol[t] # "force_gpu"
           /\ leg' = [leg EXCEPT ![c] = CpuLeg(DOMAIN by[t])]
           /\ pc' = [pc EXCEPT ![t] = "cpu"]
           /\ UNCHANGED <<pol, split, by, gpuOk, outcome>>
  <2> DEFINE after == CpuLeg(DOMAIN by[t])
  <2>1. /\ Cpu(t).todo = {} /\ split[t] = 0 /\ DOMAIN by[t] # {} /\ DOMAIN by[t] \in SUBSET (1 .. MaxNq)
        /\ storage \in {"f32", "f16"} /\ split \in [Threads -> 0 .. MaxNq]
    BY <1>1, Sides, AnswersType DEF IInv, CallType, DataType, CallOk, AnswersOk, LegOk, Cpu, Over
  <2>2. after = Leg(IF storage = "f32" THEN "print" ELSE "walk", DOMAIN by[t])
    BY DEF CpuLeg
  <2>3. after \in LegType
    BY <2>1, <2>2, NewLeg DEF Places
  <2>4. /\ after.todo = DOMAIN by[t] /\ after.buf = 0
        /\ (after.at = "print" /\ storage = "f32") \/ after.at = "walk"
    BY <2>2 DEF Leg
  <2>5. DOMAIN by[t] = {q \in DOMAIN by[t] : OfGpu(t, q)}
    BY <1>1 DEF OfGpu
  <2> HIDE DEF after
  <2>6. leg' = [leg EXCEPT ![c] = after]
    BY <1>3 DEF after
  <2>7. QED
    BY <1>1, <1>3, <2>1, <2>3, <2>4, <2>5, <2>6, FallbackStep
<1>4. QED
  BY <1>2, <1>3 DEF GpuReturned, Gpu

LEMMA CpuReturnedStep == ASSUME IInv, NEW t \in Threads, CpuReturned(t) PROVE IInv'
<1> DEFINE c == <<t, "cpu">>
           g == <<t, "gpu">>
<1>1. /\ pc[t] = "cpu" /\ leg[c].at = "ok"
      /\ UNCHANGED <<dataVars, cacheVars, gpuVars, writerVars>>
  BY DEF CpuReturned
<1>2. /\ CallOk(t) /\ AnswersOk(t) /\ LegOk(c) /\ LegOk(g) /\ LookOk(c) /\ LookOk(g)
      /\ split[t] \in 0 .. MaxNq /\ pc \in [Threads -> {"idle", "gpu", "cpu", "join"}]
  BY Sides DEF IInv, CallType
<1>3. CASE split[t] > 0
  <2>1. pc' = [pc EXCEPT ![t] = "join"] /\ UNCHANGED <<pol, split, leg, by, gpuOk, outcome>>
    BY <1>3 DEF CpuReturned
  <2>2. /\ pc'[t] = "join" /\ \A x \in Threads \ {t} : pc'[x] = pc[x]
        /\ pc' \in [Threads -> {"idle", "gpu", "cpu", "join"}]
    BY <1>2, <2>1
  <2>3. UNCHANGED <<storage, data, src, dirty, gen, mirror, built, bumps, walkMutex, ws, wpc, wprev>>
    BY <1>1 DEF dataVars, cacheVars, gpuVars, writerVars
  <2>4. CallType'
    BY <2>1, <2>2, <2>3 DEF IInv, CallType, Legs, Threads
  <2>5. QuietInv' /\ wpc' \in {"idle", "grown", "written", "repair", "search"}
    <3>1. wpc # "search" => pc'[Writer] = "idle"
      BY <1>1, <2>2 DEF IInv, QuietInv, Threads
    <3>2. QED
      BY <2>3, <3>1 DEF IInv, QuietInv, DataType
  <2>6. MutexInv'
    BY <2>1, <2>3, MutexStays
  <2>7. CallOk(t)' /\ AnswersOk(t)'
    BY <1>1, <1>2, <1>3, <2>1, <2>2 DEF CallOk, AnswersOk, OfGpu, Cpu, Gpu
  <2>8. LegOk(c)' /\ LegOk(g)' /\ LookOk(c)' /\ LookOk(g)'
    BY <1>2, <2>1, <2>3 DEF LegOk, LookOk
  <2>9. QED
    BY <2>1, <2>2, <2>3, <2>4, <2>5, <2>6, <2>7, <2>8, CallStep
<1>4. CASE ~(split[t] > 0)
  <2>1. Return(t, "success")
    BY <1>4 DEF CpuReturned
  <2>2. Gpu(t).at \in Over
    BY <1>1, <1>2, <1>4 DEF CallOk, Over
  <2>3. QED
    BY <1>1, <2>1, <2>2, ReturnStep DEF Statuses
<1>5. QED
  BY <1>3, <1>4

LEMMA JoinStep == ASSUME IInv, NEW t \in Threads, Join(t) PROVE IInv'
<1> DEFINE c == <<t, "cpu">>
<1>1. /\ pc[t] = "join" /\ Gpu(t).at \in {"ok", "failed"}
      /\ UNCHANGED <<dataVars, cacheVars, gpuVars, writerVars>>
  BY DEF Join, Gpu
<1>2. /\ CallOk(t) /\ AnswersOk(t) /\ LegOk(c) /\ leg \in [Legs -> LegType] /\ c \in Legs
      /\ split \in [Threads -> 0 .. MaxNq]
  BY Sides DEF IInv, CallType
<1>3. CASE gpuOk[t]
  <2>1. Return(t, "success")
    BY <1>3 DEF Join
  <2>2. QED
    BY <1>1, <2>1, ReturnStep DEF Statuses, Over
<1>4. CASE ~gpuOk[t]
  <2> DEFINE after == [leg[c] EXCEPT !.at = "walk", !.todo = 1 .. split[t]]
  <2>1. /\ leg' = [leg EXCEPT ![c] = after] /\ pc' = [pc EXCEPT ![t] = "cpu"]
        /\ split' = [split EXCEPT ![t] = 0] /\ UNCHANGED <<pol, by, gpuOk, outcome>>
    BY <1>4 DEF Join
  <2>2. Gpu(t).at = "failed" /\ Cpu(t).todo = {} /\ split[t] > 0 /\ pol[t] # "force_gpu"
    BY <1>1, <1>2, <1>4 DEF CallOk, LegOk, Cpu, Over
  <2>3. split[t] \in 1 .. MaxNq /\ MaxNq \in Nat
    BY <1>2, <2>2, GraphWalkAssumption
  <2>4. 1 .. split[t] \in SUBSET (1 .. MaxNq) /\ 1 \in 1 .. split[t]
    BY <2>3
  <2>5. /\ after \in LegType /\ after.todo = 1 .. split[t] /\ after.at = "walk"
        /\ after.buf = leg[c].buf /\ after.img = leg[c].img
        /\ after.sure => leg[c].sure
    <3>1. leg[c] \in LegType
      BY <1>2
    <3>2. QED
      BY <2>4, <3>1 DEF LegType, Places
  <2>6. 1 .. split[t] = {q \in DOMAIN by[t] : OfGpu(t, q)}
    <3>1. DOMAIN by[t] = DOMAIN by[t] \cap (1 .. MaxNq)
      BY AnswersType DEF IInv, CallType
    <3>2. \A q \in 1 .. split[t] : q \in DOMAIN by[t]
      BY <1>2 DEF AnswersOk
    <3>3. QED
      BY <1>1, <2>3, <3>1, <3>2 DEF OfGpu
  <2> HIDE DEF after
  <2>7. split' \in [Threads -> 0 .. MaxNq] /\ split'[t] = 0 /\ \A x \in Threads \ {t} : split'[x] = split[x]
    BY <1>2, <2>1, <2>3, GraphWalkAssumption
  <2>8. QED
    BY <1>1, <2>1, <2>2, <2>4, <2>5, <2>6, <2>7, FallbackStep DEF Cpu
<1>5. QED
  BY <1>3, <1>4

\* A call starts with the queries of cq on the CPU and those of gq on the GPU.
Starts(t, p, nq, cut, on, ca, cq, ga, gq) ==
  /\ \/ on = "gpu" /\ cut = 0 /\ cq = {} /\ gq = 1 .. nq
     \/ on = "cpu" /\ cq = cut + 1 .. nq /\ gq = 1 .. cut
  /\ p = "force_gpu" => on = "gpu"
  /\ ca = "off" <=> cq = {}
  /\ ga = "off" <=> gq = {}
  /\ storage # "f32" => ca # "print" /\ ga # "lock"
  /\ storage = "f32" => ga # "stage"
  /\ leg' = Legs2(t, Leg(ca, cq), Leg(ga, gq))
  /\ by' = [by EXCEPT ![t] = [q \in 1 .. nq |-> "none"]]
  /\ pc' = [pc EXCEPT ![t] = on]
  /\ pol' = [pol EXCEPT ![t] = p]
  /\ split' = [split EXCEPT ![t] = cut]
  /\ outcome' = [outcome EXCEPT ![t] = "none"]
  /\ UNCHANGED gpuOk

LEMMA LegsStart ==
  ASSUME IInv, NEW t \in Threads, pc[t] = "idle",
         NEW p \in Routes, NEW nq \in 1 .. MaxNq, NEW cut \in 0 .. nq - 1,
         NEW on \in {"cpu", "gpu"},
         NEW ca \in {"off", "print", "walk"}, NEW ga \in {"off", "lock", "stage"},
         NEW cq, NEW gq, Starts(t, p, nq, cut, on, ca, cq, ga, gq),
         UNCHANGED <<dataVars, cacheVars, gpuVars, wprev>>,
         wpc' \in {"idle", "grown", "written", "repair", "search"}, QuietInv'
  PROVE  IInv'
<1> USE DEF Starts
<1> DEFINE c == <<t, "cpu">>
           g == <<t, "gpu">>
           C == Leg(ca, cq)
           G == Leg(ga, gq)
<1>1. UNCHANGED <<storage, data, src, dirty, gen, mirror, built, bumps, walkMutex, ws, wprev, gpuOk>>
  BY DEF dataVars, cacheVars, gpuVars
<1>2. /\ leg \in [Legs -> LegType] /\ c \in Legs /\ g \in Legs /\ c # g /\ c[2] = "cpu" /\ g[2] = "gpu"
      /\ CallOk(t) /\ built \in Nat
  BY Sides DEF IInv, CallType, DataType
<1>3. cq \in SUBSET (1 .. MaxNq) /\ gq \in SUBSET (1 .. MaxNq) /\ MaxNq \in Nat
      /\ 1 .. nq \in SUBSET (1 .. MaxNq) /\ 1 \in 1 .. nq /\ cut \in 0 .. MaxNq
  BY GraphWalkAssumption
<1>4. C \in LegType /\ G \in LegType
  BY <1>3, NewLeg DEF Places
<1>5. /\ C.at = ca /\ C.todo = cq /\ C.buf = 0
      /\ G.at = ga /\ G.todo = gq /\ G.buf = 0 /\ G.freedBy = "nobody"
  BY DEF Leg
<1> HIDE DEF C, G
<1>6. /\ leg'[c] = C /\ leg'[g] = G /\ leg' \in [Legs -> LegType]
      /\ \A x \in Legs \ {c, g} : leg'[x] = leg[x]
  <2>1. leg' = [leg EXCEPT ![c] = C, ![g] = G]
    BY DEF Legs2, C, G
  <2>2. QED
    BY <1>2, <1>4, <2>1
<1>7. [q \in 1 .. nq |-> "none"] \in Answers
  <2>1. [q \in 1 .. nq |-> "none"] \in [1 .. nq -> {"none", "cpu", "gpu"}]
    OBVIOUS
  <2>2. QED
    BY <1>3, <2>1, AnswersType
<1>8. /\ pc \in [Threads -> {"idle", "gpu", "cpu", "join"}] /\ pol \in [Threads -> Routes]
      /\ split \in [Threads -> 0 .. MaxNq] /\ by \in [Threads -> Answers]
      /\ outcome \in [Threads -> Statuses]
  BY DEF IInv, CallType
<1>9. /\ pc'[t] = on /\ pol'[t] = p /\ split'[t] = cut
      /\ DOMAIN by'[t] = 1 .. nq /\ (\A q \in 1 .. nq : by'[t][q] = "none")
      /\ outcome'[t] = "none"
      /\ \A x \in Threads \ {t} :
           /\ pc'[x] = pc[x] /\ pol'[x] = pol[x] /\ split'[x] = split[x] /\ by'[x] = by[x]
           /\ outcome'[x] = outcome[x]
  BY <1>8
<1>10. CallType'
  <2>1. pc' \in [Threads -> {"idle", "gpu", "cpu", "join"}] /\ pol' \in [Threads -> Routes]
        /\ outcome' \in [Threads -> Statuses]
    BY <1>8 DEF Statuses
  <2>2. split' \in [Threads -> 0 .. MaxNq] /\ by' \in [Threads -> Answers]
    BY <1>3, <1>7, <1>8
  <2>3. QED
    BY <1>1, <1>6, <2>1, <2>2 DEF IInv, CallType, Legs, Threads
<1>11. MutexInv'
  <2>1. ASSUME NEW x \in Threads
        PROVE  /\ leg[<<x, "gpu">>].at \in Inside => leg'[<<x, "gpu">>].at \in Inside
               /\ storage = "f32" /\ leg'[<<x, "gpu">>].at \in Inside
                    => leg[<<x, "gpu">>].at \in Inside
    <3>1. CASE x = t
      BY <1>2, <1>5, <1>6, <3>1 DEF CallOk, Gpu, Inside
    <3>2. CASE x # t
      BY <1>6, <3>2, Sides
    <3>3. QED
      BY <3>1, <3>2
  <2>2. QED
    BY <1>1, <2>1, MutexStays
<1>12. CallOk(t)'
  <2>1. ~gpuOk'[t] /\ ga # "ok"
    BY <1>1, <1>2 DEF CallOk, Gpu
  <2>2. on = "cpu" /\ cut = 0 => ga = "off"
    OBVIOUS
  <2>3. QED
    BY <1>5, <1>6, <1>9, <2>1, <2>2 DEF CallOk, Cpu, Gpu
<1>13. AnswersOk(t)'
  <2>1. \A q \in 1 .. nq : /\ q \in gq <=> (on = "gpu" \/ q <= cut)
                           /\ q \in cq <=> ~(on = "gpu" \/ q <= cut)
    OBVIOUS
  <2>2. \A q \in 1 .. nq : OfGpu(t, q)' <=> (on = "gpu" \/ q <= cut)
    BY <1>9 DEF OfGpu
  <2>3. cq \cup gq \cup (1 .. cut) \subseteq 1 .. nq
    OBVIOUS
  <2>4. 1 .. nq # {}
    BY <1>3
  <2>5. Cpu(t)'.todo = cq /\ Gpu(t)'.todo = gq
    BY <1>5, <1>6 DEF Cpu, Gpu
  <2>6. QED
    BY <1>9, <2>1, <2>2, <2>3, <2>4, <2>5 DEF AnswersOk
<1>14. LegOk(c)' /\ LookOk(c)'
  BY <1>1, <1>2, <1>5, <1>6 DEF LegOk, LookOk, Over
<1>15. LegOk(g)' /\ LookOk(g)'
  BY <1>1, <1>2, <1>5, <1>6 DEF LegOk, LookOk, Over
<1>16. QED
  BY <1>1, <1>6, <1>9, <1>10, <1>11, <1>12, <1>13, <1>14, <1>15, Sides, CallStep

LEMMA WalkStep ==
  ASSUME IInv, NEW t \in Threads, NEW p \in Routes, NEW nq \in 1 .. MaxNq, Walk(t, p, nq),
         UNCHANGED <<dataVars, cacheVars, gpuVars, wprev>>,
         wpc' \in {"idle", "grown", "written", "repair", "search"}, QuietInv'
  PROVE  IInv'
<1> DEFINE cut == CpuBegin(nq)
           off == Leg("off", {})
           ca == IF storage = "f32" THEN "print" ELSE "walk"
           ga == IF storage = "f32" THEN "lock" ELSE "stage"
<1>1. pc[t] = "idle" /\ storage \in {"f32", "f16"} /\ nq \in Nat /\ nq >= 1
      /\ CallOk(t) /\ split \in [Threads -> 0 .. MaxNq]
  BY DEF Walk, IInv, DataType, CallType
<1>2. CASE p = "force_npu"
  <2>1. outcome' = [outcome EXCEPT ![t] = "unavailable"] /\ UNCHANGED <<pc, pol, split, by, gpuOk, leg>>
    BY <1>2 DEF Walk
  <2>2. UNCHANGED <<storage, data, src, dirty, gen, mirror, built, bumps, walkMutex, ws, wprev>>
    BY DEF dataVars, cacheVars, gpuVars
  <2>3. outcome' \in [Threads -> Statuses] /\ \A x \in Threads \ {t} : outcome'[x] = outcome[x]
    BY <2>1 DEF IInv, CallType, Statuses
  <2>4. CallType'
    BY <2>1, <2>2, <2>3 DEF IInv, CallType, Legs, Threads
  <2>5. MutexInv'
    BY <2>1, <2>2, MutexStays
  <2>6. CallOk(t)'
    BY <1>1, <2>1 DEF CallOk, Cpu, Gpu
  <2>7. AnswersOk(t)'
    BY <2>1 DEF IInv, AnswersOk, OfGpu, Cpu, Gpu
  <2>8. LegOk(<<t, "cpu">>)' /\ LegOk(<<t, "gpu">>)' /\ LookOk(<<t, "cpu">>)' /\ LookOk(<<t, "gpu">>)'
    BY <2>1, <2>2, Sides DEF IInv, LegOk, LookOk
  <2>9. QED
    BY <2>1, <2>2, <2>3, <2>4, <2>5, <2>6, <2>7, <2>8, CallStep
<1>3. CASE p # "force_npu"
  <2>1. /\ pol' = [pol EXCEPT ![t] = p] /\ by' = [by EXCEPT ![t] = [q \in 1 .. nq |-> "none"]]
        /\ outcome' = [outcome EXCEPT ![t] = "none"] /\ UNCHANGED gpuOk
    BY <1>3 DEF Walk
  <2>2. CASE HybridOk(p, nq)
    <3>1. /\ split' = [split EXCEPT ![t] = cut]
          /\ leg' = Legs2(t, Leg(ca, cut + 1 .. nq), Leg(ga, 1 .. cut))
          /\ pc' = [pc EXCEPT ![t] = "cpu"]
      BY <1>3, <2>2 DEF Walk, CpuLeg, GpuLeg
    <3>2. cut \in 1 .. nq - 1 /\ p # "force_gpu"
      BY <1>1, <2>2, Cut DEF HybridOk
    <3>3. 1 \in 1 .. cut /\ nq \in cut + 1 .. nq
      BY <3>2, <1>1
    <3> HIDE DEF cut
    <3>4. cut \in 0 .. nq - 1
      BY <3>2
    <3>5. Starts(t, p, nq, cut, "cpu", ca, cut + 1 .. nq, ga, 1 .. cut)
      BY <1>1, <2>1, <3>1, <3>2, <3>3 DEF Starts
    <3>6. QED
      BY <1>1, <3>4, <3>5, LegsStart
  <2>3. CASE ~HybridOk(p, nq) /\ GpuPolicy(p) /\ ~HeteroCpuOnly(p, nq)
    <3>1. /\ leg' = Legs2(t, off, Leg(ga, 1 .. nq)) /\ pc' = [pc EXCEPT ![t] = "gpu"]
          /\ UNCHANGED split
      BY <1>3, <2>3 DEF Walk, GpuLeg
    <3>2. split' = [split EXCEPT ![t] = 0] /\ 1 \in 1 .. nq /\ 0 \in 0 .. nq - 1
      BY <1>1, <3>1 DEF CallOk
    <3>3. Starts(t, p, nq, 0, "gpu", "off", {}, ga, 1 .. nq)
      BY <1>1, <2>1, <3>1, <3>2 DEF Starts
    <3>4. QED
      BY <1>1, <3>2, <3>3, LegsStart
  <2>4. CASE ~HybridOk(p, nq) /\ ~(GpuPolicy(p) /\ ~HeteroCpuOnly(p, nq))
    <3>1. /\ leg' = Legs2(t, Leg(ca, 1 .. nq), off) /\ pc' = [pc EXCEPT ![t] = "cpu"]
          /\ UNCHANGED split
      BY <1>3, <2>4 DEF Walk, CpuLeg
    <3>2. split' = [split EXCEPT ![t] = 0] /\ 1 \in 1 .. nq /\ 0 \in 0 .. nq - 1 /\ 1 .. 0 = {}
      BY <1>1, <3>1 DEF CallOk
    <3>3. p # "force_gpu"
      BY <2>4 DEF GpuPolicy, HeteroCpuOnly
    <3>4. leg' = Legs2(t, Leg(ca, 0 + 1 .. nq), Leg("off", 1 .. 0)) /\ 0 + 1 = 1
      BY <3>1, <3>2
    <3>5. Starts(t, p, nq, 0, "cpu", ca, 0 + 1 .. nq, "off", 1 .. 0)
      BY <1>1, <2>1, <3>1, <3>2, <3>3, <3>4 DEF Starts
    <3>6. QED
      BY <1>1, <3>2, <3>5, LegsStart
  <2>5. QED
    BY <2>2, <2>3, <2>4
<1>4. QED
  BY <1>2, <1>3

LEMMA SearchStep == ASSUME IInv, NEW t \in Callers, Search(t) PROVE IInv'
<1>1. PICK p \in Policies, nq \in 1 .. MaxNq : Walk(t, p, nq)
  BY DEF Search
<1>2. t \in Threads /\ t # Writer /\ p \in Routes
  BY GraphWalkAssumption DEF Threads, Routes
<1>3. UNCHANGED <<dataVars, cacheVars, gpuVars, wprev, wpc>>
  BY DEF Search, writerVars
<1>4. pc'[Writer] = pc[Writer]
  BY <1>1, <1>2 DEF Walk, IInv, CallType, Threads
<1>5. QuietInv' /\ wpc' \in {"idle", "grown", "written", "repair", "search"}
  BY <1>3, <1>4 DEF IInv, QuietInv, DataType, dataVars
<1>6. QED
  BY <1>1, <1>2, <1>3, <1>5, WalkStep

LEMMA RepairStep == ASSUME IInv, Repair PROVE IInv'
<1> DEFINE p == IF storage = "f16" THEN "hetero" ELSE "force_cpu"
<1>1. /\ Walk(Writer, p, 1) /\ wpc' = "search"
      /\ UNCHANGED <<dataVars, cacheVars, gpuVars, wprev>>
  BY DEF Repair
<1>2. Writer \in Threads /\ p \in Routes /\ 1 \in 1 .. MaxNq
  BY GraphWalkAssumption DEF Threads, Routes
<1>3. QuietInv'
  BY <1>1 DEF QuietInv
<1> HIDE DEF p
<1>4. QED
  BY <1>1, <1>2, <1>3, WalkStep

-----------------------------------------------------------------------------
(* The invariant.                                                          *)

LEMMA InitStep == ASSUME Init PROVE IInv
<1> DEFINE off == Leg("off", {})
<1>1. off \in LegType /\ off.at = "off" /\ off.todo = {} /\ off.buf = 0 /\ off.freedBy = "nobody"
  BY NewLeg DEF Leg, Places
<1>2. leg = [l \in Legs |-> off] /\ \A l \in Legs : leg[l] = off
  BY DEF Init
<1> HIDE DEF off
<1>3. data \in Seq(Values) /\ Len(data) = InitRows /\ wprev = data
  BY GraphWalkAssumption DEF Init
<1>4. mirror \in MirrorType /\ mirror.buf = 0 /\ ~mirror.usable
  <2>1. <<>> \in Seq(Values)
    OBVIOUS
  <2>2. NoPrint \in Prints
    BY DEF Prints
  <2>3. QED
    BY <2>1, <2>2 DEF Init, NoMirror, MirrorType
<1>5. DataType
  <2>1. dirty \in BOOLEAN
    BY DEF Init
  <2>2. QED
    BY <1>3, <1>4, <2>1, GraphWalkAssumption DEF Init, DataType
<1>6. CallType
  <2>1. gpuOk \in [Threads -> BOOLEAN]
    BY DEF Init
  <2>2. by \in [Threads -> Answers]
    BY NoAnswers DEF Init
  <2>3. leg \in [Legs -> LegType]
    BY <1>1, <1>2
  <2>4. QED
    BY <2>1, <2>2, <2>3, GraphWalkAssumption DEF Init, CallType, Routes, Statuses
<1>7. QuietInv /\ MirrorInv /\ MutexInv
  <2>1. pc[Writer] = "idle" /\ wpc = "idle" /\ walkMutex = NoOne /\ built = 0
    BY DEF Init, Threads
  <2>2. MirrorInv
    BY <1>4, <2>1 DEF MirrorInv
  <2>3. MutexInv
    BY <1>1, <1>2, <2>1, Sides DEF MutexInv, Gpu
  <2>4. QED
    BY <2>1, <2>2, <2>3 DEF QuietInv
<1>8. ASSUME NEW t \in Threads PROVE CallOk(t) /\ AnswersOk(t)
  <2>1. ~gpuOk[t] /\ Cpu(t) = off /\ Gpu(t) = off
    BY <1>2, Sides DEF Init, Cpu, Gpu
  <2>2. pc[t] = "idle" /\ pol[t] = "none" /\ split[t] = 0 /\ by[t] = <<>> /\ DOMAIN <<>> = {}
    BY NoAnswers DEF Init
  <2>3. QED
    BY <1>1, <2>1, <2>2 DEF CallOk, AnswersOk
<1>9. ASSUME NEW l \in Legs PROVE LegOk(l) /\ LookOk(l)
  <2>1. leg[l] = off /\ built = 0
    BY <1>2 DEF Init
  <2>2. QED
    BY <1>1, <2>1 DEF LegOk, LookOk, Over
<1>10. QED
  BY <1>5, <1>6, <1>7, <1>8, <1>9 DEF IInv

LEMMA Stutter == ASSUME IInv, UNCHANGED vars PROVE IInv'
<1> USE DEF vars, dataVars, writerVars, cacheVars
<1>1. DataType' /\ QuietInv' /\ MirrorInv'
  BY DEF IInv, DataType, QuietInv, MirrorInv, callVars
<1>2. \A l \in Legs : LookOk(l)'
  BY DEF IInv, LookOk
<1>3. \A l \in Legs : leg[l].buf # 0 /\ leg[l].sure => leg[l].img = data'
  BY DEF IInv, LegOk
<1>4. QED
  BY <1>1, <1>2, <1>3, DataStep

LEMMA NextStep == ASSUME IInv, [Next]_vars PROVE IInv'
<1>1. ASSUME NEW c \in Callers, Search(c) PROVE IInv'
  BY <1>1, SearchStep
<1>2. ASSUME NEW t \in Threads, CallerStep(t) PROVE IInv'
  BY <1>2, GpuReturnedStep, CpuReturnedStep, JoinStep DEF CallerStep
<1>3. ASSUME NEW t \in Threads, GpuStep(t) PROVE IInv'
  BY <1>3, LockStep, StageStep, LaunchStep, GpuFailsStep DEF GpuStep
<1>4. ASSUME NEW t \in Threads, NEW q \in 1 .. MaxNq, CpuWalks(t, q) PROVE IInv'
  BY <1>4, CpuWalksStep
<1>5. ASSUME NEW l \in Legs, LegStep(l) PROVE IInv'
  BY <1>5, TakeFingerprintStep, LookupHitsStep, LookupBuildsStep DEF LegStep
<1>6. CASE OtherFree
  BY <1>6, OtherFreeStep
<1>7. CASE WriterStep
  BY <1>7, UpdateRowStep, GrowStep, AppendRowStep, InvalidateStep, RepairStep, WriteEndsStep,
     WriteBackStep DEF WriterStep
<1>8. CASE AllQuiet \/ UNCHANGED vars
  BY <1>8, Stutter DEF AllQuiet
<1>9. QED
  BY <1>1, <1>2, <1>3, <1>4, <1>5, <1>6, <1>7, <1>8 DEF Next

LEMMA Invariant == Spec => []IInv
<1>1. Init => IInv
  BY InitStep
<1>2. IInv /\ [Next]_vars => IInv'
  BY NextStep
<1>3. QED
  BY <1>1, <1>2, PTL DEF Spec

-----------------------------------------------------------------------------
(* The theorems.                                                           *)

\* Legs, mirror, mutex and answers are what TypeOK says they are, for any number
\* of threads, rows and queries (prim_graph_walk, gpu_int8_mirror, gpu_walk_mutex).
THEOREM TypeCorrect == Spec => []TypeOK
<1>1. ASSUME IInv PROVE TypeOK
  <2>1. ASSUME NEW l \in Legs PROVE LegOK(leg[l])
    <3>1. leg[l] \in LegType /\ LegOk(l) /\ built \in Nat
      BY <1>1 DEF IInv, CallType, DataType
    <3>2. QED
      BY <3>1 DEF LegOK, LegType, Places, LegOk, Over
  <2>2. ASSUME NEW t \in Threads
        PROVE  /\ pc[t] \in {"idle", "gpu", "cpu", "join"} /\ split[t] \in 0 .. MaxNq
               /\ DOMAIN by[t] \subseteq 1 .. MaxNq
    BY <1>1, AnswersType DEF IInv, CallType
  <2>3. walkMutex # NoOne =>
          walkMutex \in Legs /\ leg[walkMutex].at \notin {"off", "lock", "ok", "failed"}
    BY <1>1 DEF IInv, CallType, MutexInv, Over
  <2>4. mirror.buf \in 0 .. built
    BY <1>1 DEF IInv, DataType, MirrorType, MirrorInv
  <2>5. mirror.usable = (mirror.buf # 0)
    BY <1>1 DEF IInv, DataType, MirrorType, MirrorInv
  <2>6. Len(data) \in 1 .. MaxRows /\ src \in {1, 2} /\ gen \in Nat /\ ws \in 0 .. MaxNq
    BY <1>1 DEF IInv, DataType, CallType
  <2>7. QED
    BY <2>1, <2>2, <2>3, <2>4, <2>5, <2>6 DEF TypeOK
<1>2. QED
  BY <1>1, Invariant, PTL

\* A walk that found every write followed by its invalidation reads an exact copy
\* of the vectors, however few rows the fingerprint samples (sample_fingerprint,
\* ovvs_gpu_mirror_invalidate).
THEOREM CertainWalksAreExact == Spec => []WalksScoreTheDataset
<1>1. IInv => WalksScoreTheDataset
  BY DEF IInv, LegOk, WalksScoreTheDataset
<1>2. QED
  BY <1>1, Invariant, PTL

\* No GPU walk frees the mirror another one reads (gpu_walk_mutex).
THEOREM GpuWalksAreApart == Spec => []GpuWalksKeepTheirMirror
<1>1. IInv => GpuWalksKeepTheirMirror
  BY Sides DEF IInv, LegOk, GpuWalksKeepTheirMirror
<1>2. QED
  BY <1>1, Invariant, PTL

\* A call forced to the GPU never has an answer of the CPU (mixer.cpp:570-577).
THEOREM ForcedStaysOnTheGpu == Spec => []ForcedDeviceNeverCrosses
<1>1. IInv => ForcedDeviceNeverCrosses
  BY DEF IInv, AnswersOk, ForcedDeviceNeverCrosses
<1>2. QED
  BY <1>1, Invariant, PTL

\* What the thread knows when it is about to return success.
LEMMA AnsweredReturn ==
  ASSUME IInv, NEW t \in Threads, pc[t] # "idle",
         \/ pc[t] = "gpu" /\ Gpu(t).at = "ok"
         \/ pc[t] = "cpu" /\ Cpu(t).at = "ok" /\ ~(split[t] > 0)
         \/ pc[t] = "join" /\ gpuOk[t],
         NEW q \in DOMAIN by[t]
  PROVE  by[t][q] = "cpu" \/ (by[t][q] = "gpu" /\ gpuOk[t])
<1>1. /\ CallOk(t) /\ AnswersOk(t) /\ LegOk(<<t, "cpu">>) /\ LegOk(<<t, "gpu">>)
      /\ split[t] \in 0 .. MaxNq /\ MaxNq \in Nat
  BY Sides, GraphWalkAssumption DEF IInv, CallType
<1>2. q > 0 /\ q \in Nat
  BY AnswersType DEF IInv, CallType
<1>3. CASE OfGpu(t, q)
  <2>1. Gpu(t).at = "ok"
    BY <1>1, <1>2, <1>3 DEF OfGpu, CallOk
  <2>2. Gpu(t).todo = {}
    BY <1>1, <2>1 DEF LegOk, Gpu, Over
  <2>3. by[t][q] = "gpu"
    BY <1>1, <1>3, <2>1, <2>2 DEF AnswersOk
  <2>4. QED
    BY <1>1, <2>1, <2>3 DEF CallOk
<1>4. CASE ~OfGpu(t, q)
  <2>1. Cpu(t).at = "ok"
    BY <1>1, <1>4 DEF OfGpu, CallOk
  <2>2. Cpu(t).todo = {}
    BY <1>1, <2>1 DEF LegOk, Cpu, Over
  <2>3. QED
    BY <1>1, <1>4, <2>2 DEF AnswersOk
<1>5. QED
  BY <1>3, <1>4

LEMMA SuccessMeansAnswered ==
  ASSUME IInv, Next, NEW t \in Threads, pc[t] # "idle", outcome'[t] = "success",
         NEW q \in DOMAIN by[t]
  PROVE  by[t][q] = "cpu" \/ (by[t][q] = "gpu" /\ gpuOk[t])
<1>1. outcome[t] = "none" /\ outcome \in [Threads -> Statuses]
  BY DEF IInv, CallOk, CallType
<1>2. outcome' # outcome
  BY <1>1
<1>3. ASSUME NEW x \in Threads, NEW p, NEW nq, Walk(x, p, nq) PROVE FALSE
  <2>1. x # t
    BY <1>3 DEF Walk
  <2>2. outcome'[t] = outcome[t]
    BY <1>1, <1>3, <2>1 DEF Walk
  <2>3. QED
    BY <1>1, <2>2
<1>4. ASSUME NEW c \in Callers, Search(c) PROVE FALSE
  BY <1>3, <1>4 DEF Search, Threads
<1>5. ASSUME Repair PROVE FALSE
  BY <1>3, <1>5 DEF Repair, Threads
<1>6. ASSUME NEW x \in Threads, NEW status \in Statuses, Return(x, status) PROVE x = t
  BY <1>1, <1>6 DEF Return
<1>7. ASSUME NEW x \in Threads, GpuReturned(x)
      PROVE  x = t /\ pc[t] = "gpu" /\ Gpu(t).at = "ok"
  <2>1. PICK status \in Statuses : Return(x, status) /\ (status = "success" => Gpu(x).at = "ok")
    BY <1>2, <1>7 DEF GpuReturned, Gpu, Statuses
  <2>2. x = t
    BY <1>6, <2>1
  <2>3. status = "success"
    BY <1>1, <2>1, <2>2 DEF Return
  <2>4. QED
    BY <1>7, <2>1, <2>2, <2>3 DEF GpuReturned
<1>8. ASSUME NEW x \in Threads, CpuReturned(x)
      PROVE  x = t /\ pc[t] = "cpu" /\ Cpu(t).at = "ok" /\ ~(split[t] > 0)
  <2>1. Return(x, "success") /\ ~(split[x] > 0) /\ pc[x] = "cpu" /\ Cpu(x).at = "ok"
    BY <1>2, <1>8 DEF CpuReturned, Cpu
  <2>2. QED
    BY <1>6, <2>1 DEF Statuses
<1>9. ASSUME NEW x \in Threads, Join(x) PROVE x = t /\ pc[t] = "join" /\ gpuOk[t]
  <2>1. Return(x, "success") /\ gpuOk[x] /\ pc[x] = "join"
    BY <1>2, <1>9 DEF Join
  <2>2. QED
    BY <1>6, <2>1 DEF Statuses
<1>10. ASSUME NEW x \in Threads, GpuStep(x) PROVE outcome' = outcome
  BY <1>10 DEF GpuStep, Lock, Stage, Launch, GpuFails, callVars
<1>11. ASSUME NEW x \in Threads, NEW r, CpuWalks(x, r) PROVE outcome' = outcome
  BY <1>11 DEF CpuWalks
<1>12. ASSUME NEW l \in Legs, LegStep(l) PROVE outcome' = outcome
  BY <1>12 DEF LegStep, TakeFingerprint, LookupHits, LookupBuilds, callVars
<1>13. ASSUME OtherFree \/ WriterStep \/ AllQuiet, ~Repair PROVE outcome' = outcome
  BY <1>13 DEF OtherFree, WriterStep, AllQuiet, UpdateRow, Grow, AppendRow, Invalidate, WriteEnds,
     WriteBack, callVars, vars
<1>14. PICK x \in Threads : GpuReturned(x) \/ CpuReturned(x) \/ Join(x)
  BY <1>2, <1>4, <1>5, <1>10, <1>11, <1>12, <1>13 DEF Next, CallerStep
<1>15. QED
  BY <1>7, <1>8, <1>9, <1>14, AnsweredReturn

\* No step ends a call with success before all its queries are answered by legs
\* that ended well, whether it was split, failed over or both (mixer.cpp:828-841).
THEOREM SuccessIsComplete == Spec => EveryQueryAnswered
<1>1. IInv /\ [Next]_vars =>
        [\A t \in Threads : pc[t] # "idle" /\ outcome'[t] = "success" =>
           \A q \in DOMAIN by[t] : by[t][q] = "cpu" \/ (by[t][q] = "gpu" /\ gpuOk[t])]_vars
  BY SuccessMeansAnswered
<1>2. QED
  BY <1>1, Invariant, PTL DEF Spec, EveryQueryAnswered

-----------------------------------------------------------------------------
(***************************************************************************)
(* BeamWalk: the hash of a sub-group and its beam, for any graph, query,   *)
(* filter, beam, width, tile and cache.                                    *)
(***************************************************************************)

\* The slots of the hash, the ids a walk meets, the marks of a free slot.
Cells == 0 .. bh_capacity - 1
WalkIds == 0 .. walk.n - 1
Marks == {Empty, Tombstone}
Hashes == [Cells -> WalkIds \cup Marks]

\* A probe for the id of a slot gets there without meeting an empty one.
Reached(h, s) ==
  \E j \in Cells : /\ Probe(h[s], j) = s
                   /\ \A i \in 0 .. j - 1 : h[Probe(h[s], i)] # Empty

\* No id has two slots, and each is reached.
GoodHash(h) ==
  /\ h \in Hashes
  /\ \A s, t \in Cells : h[s] \in WalkIds /\ h[s] = h[t] => s = t
  /\ \A s \in Cells : h[s] \in WalkIds => Reached(h, s)

Hashed(h, id) == \E s \in Cells : h[s] = id
Used(h) == {s \in Cells : h[s] # Empty}

Beams == [slots : Seq([id : WalkIds, expanded : BOOLEAN]), worst : Nat, admitted : BOOLEAN,
          survivors : Nat, hash : Hashes, tombs : Int, cache : [0 .. walk.cache - 1 -> Int]]
Holds(b, id) == \E i \in DOMAIN b.slots : b.slots[i].id = id

\* The slots of the beam differ in their ids, which are those of the hash.
Aligned(b) ==
  /\ \A i, j \in DOMAIN b.slots : b.slots[i].id = b.slots[j].id => i = j
  /\ \A id \in WalkIds : Hashed(b.hash, id) <=> Holds(b, id)

\* Every slot used once counts, and what evictions leave behind is bounded:
\* the last one that left the hash crowded had it rebuilt.
Counted(b) ==
  /\ Len(b.slots) <= BEAM
  /\ Cardinality(Used(b.hash)) = Len(b.slots) + b.tombs
  /\ 4 * b.tombs < 3 * bh_capacity - 4 * itopk

GoodBeam(b) ==
  /\ b \in Beams
  /\ b.slots # <<>> => b.worst \in DOMAIN b.slots
  /\ GoodHash(b.hash)
  /\ Aligned(b)
  /\ Counted(b)

\* What is left of a tile differs in its ids, and none of them is in the beam.
GoodTile ==
  /\ frontier \in Seq(WalkIds \cup {-1})
  /\ DOMAIN tile \subseteq Nat
  /\ \A i \in DOMAIN tile : tile[i] \in WalkIds /\ ~Holds(beam, tile[i])
  /\ \A i, j \in DOMAIN tile : tile[i] = tile[j] => i = j

\* The inductive invariant: a walk is one of those given, and the engine with a
\* hash has a good beam and a good tile.
BeamInv ==
  /\ step # "idle" => walk \in Walks
  /\ engine = "sub_beam" => step # "idle" /\ GoodBeam(beam) /\ GoodTile

-----------------------------------------------------------------------------
(* Probes.                                                                 *)

\* Every non-empty set of natural numbers has a least member.
LEMMA LeastPlace ==
  ASSUME NEW T, T \subseteq Nat, T # {}
  PROVE  \E x \in T : \A y \in T : x <= y
<1> DEFINE R == {ss \in Nat \X Nat : ss[1] < ss[2]}
<1>1. OpToRel(<, Nat) = R
  BY DEF OpToRel
<1>2. IsWellFoundedOn(R, Nat)
  BY <1>1, NatLessThanWellFounded
<1> HIDE DEF R
<1>3. \E x \in T : \A y \in T : ~ (<<y, x>> \in R)
  BY <1>2, WFMin
<1>4. PICK x \in T : \A y \in T : ~ (<<y, x>> \in R)
  BY <1>3
<1>5. ASSUME NEW y \in T PROVE x <= y
  <2>1. SUFFICES ASSUME ~(x <= y) PROVE FALSE
    OBVIOUS
  <2>2. <<y, x>> \in R
    BY <2>1 DEF R
  <2> QED
    BY <1>4, <2>2
<1> QED
  BY <1>5

\* The hash of a sub-group has at least two slots for each id of a full beam.
LEMMA HashSize ==
  ASSUME walk \in Walks
  PROVE  /\ bh_capacity \in Nat /\ itopk \in Nat \ {0} /\ BEAM = 2 * itopk
         /\ bh_capacity >= 2 * BEAM /\ walk.n \in Nat \ {0}
<1>1. itopk \in Nat \ {0} /\ BEAM = 2 * itopk /\ walk.n \in Nat \ {0}
  BY BeamWalkAssumption DEF itopk, Most, BEAM
<1>2. 2 * BEAM \in Nat /\ 2 * BEAM <= 65536
  BY SMTT(30), <1>1, BeamWalkAssumption DEF itopk, Most, BEAM
<1>3. Powers \subseteq Nat /\ 65536 \in Powers
  BY DEF Powers
<1>4. ASSUME NEW x \in Nat, x <= 65536
      PROVE  next_power_of_two(x) \in Powers /\ next_power_of_two(x) >= x
  <2>1. \E p \in Powers : p >= x /\ \A q \in Powers : q >= x => p <= q
    <3>1. PICK T : T = {p \in Powers : p >= x}
      OBVIOUS
    <3>2. T \subseteq Nat /\ T # {}
      <4>1. 65536 \in T
        BY <1>3, <1>4, <3>1
      <4>2. ASSUME NEW t \in T PROVE t \in Nat
        <5>1. t \in Powers
          BY <3>1
        <5> QED
          BY <1>3, <5>1
      <4> QED
        BY <4>1, <4>2
    <3>3. PICK p \in T : \A q \in T : p <= q
      BY <3>2, LeastPlace
    <3> QED
      BY <3>1, <3>3
  <2> QED
    BY <2>1 DEF next_power_of_two
<1>5. PICK x \in Nat : x = 2 * BEAM
  BY <1>2
<1>6. PICK p \in Powers : p = next_power_of_two(x) /\ p >= x
  BY <1>2, <1>4, <1>5
<1>7. bh_capacity = p
  BY <1>5, <1>6 DEF bh_capacity
<1>8. bh_capacity \in Nat /\ bh_capacity >= 2 * BEAM
  BY <1>3, <1>5, <1>6, <1>7
<1> QED
  BY <1>1, <1>8

\* The remainder of what wraps around at most once.
LEMMA Wraps ==
  ASSUME NEW c \in Nat, NEW a \in 0 .. 2 * c - 1
  PROVE  a % c = IF a < c THEN a ELSE a - c
<1>1. c > 0
  OBVIOUS
<1>2. a = c * (a \div c) + (a % c) /\ a % c \in 0 .. c - 1 /\ a \div c \in Int
  BY <1>1
<1>3. a \div c \in {0, 1}
  BY <1>1, <1>2
<1> QED
  BY <1>2, <1>3

\* A probe stays within the hash and meets each of its slots.
LEMMA ProbesMeetAll ==
  ASSUME walk \in Walks, NEW id \in Int
  PROVE  /\ \A j \in Cells : Probe(id, j) \in Cells
         /\ \A s \in Cells : \E j \in Cells : Probe(id, j) = s
<1>1. bh_capacity \in Nat /\ bh_capacity > 0
  BY HashSize
<1> DEFINE h == Scatter16(id, bh_capacity)
<1>2. h \in Cells
  BY <1>1 DEF Scatter16, Cells
<1> HIDE DEF h
<1>3. \A j \in Cells : Probe(id, j) = IF h + j < bh_capacity THEN h + j ELSE h + j - bh_capacity
  <2> SUFFICES ASSUME NEW j \in Cells
               PROVE  (h + j) % bh_capacity
                        = IF h + j < bh_capacity THEN h + j ELSE h + j - bh_capacity
    BY DEF Probe, h
  <2>1. h + j \in 0 .. 2 * bh_capacity - 1
    BY <1>1, <1>2 DEF Cells
  <2>2. PICK c \in Nat : c = bh_capacity
    BY <1>1
  <2>3. PICK a \in 0 .. 2 * c - 1 : a = h + j
    BY <2>1, <2>2
  <2>4. a % c = IF a < c THEN a ELSE a - c
    BY Wraps
  <2>5. (h + j) % bh_capacity = a % c
    BY <2>2, <2>3, Zenon
  <2>6. h + j < bh_capacity <=> a < c
    BY <2>2, <2>3, Zenon
  <2>7. CASE ~(a < c)
    <3>1. a % c = a - c
      BY <2>4, <2>7
    <3>2. (h + j) % bh_capacity = a - c
      BY <2>5, <3>1, Zenon
    <3>3. h + j - bh_capacity = a - c
      BY <1>1, <1>2, <2>2, <2>3 DEF Cells
    <3>4. ~(h + j < bh_capacity)
      BY <2>6, <2>7
    <3> QED
      BY <3>2, <3>3, <3>4, Zenon
  <2>8. CASE a < c
    <3>1. a % c = a
      BY <2>4, <2>8
    <3>2. (h + j) % bh_capacity = h + j
      BY <2>3, <2>5, <3>1, Zenon
    <3> QED
      BY <2>6, <2>8, <3>2
  <2> QED
    BY <2>7, <2>8
<1>4. ASSUME NEW s \in Cells PROVE \E j \in Cells : Probe(id, j) = s
  <2>1. CASE s >= h
    <3>1. s - h \in Cells /\ h + (s - h) < bh_capacity /\ h + (s - h) = s
      BY <1>1, <1>2, <2>1 DEF Cells
    <3> QED
      BY <1>3, <3>1
  <2>2. CASE s < h
    <3>1. /\ s - h + bh_capacity \in Cells /\ ~(h + (s - h + bh_capacity) < bh_capacity)
          /\ h + (s - h + bh_capacity) - bh_capacity = s
      BY <1>1, <1>2, <2>2 DEF Cells
    <3> QED
      BY <1>3, <3>1
  <2> QED
    BY <1>1, <1>2, <2>1, <2>2 DEF Cells
<1>5. \A j \in Cells : Probe(id, j) \in Cells
  BY <1>1, <1>2, <1>3 DEF Cells
<1> QED
  BY <1>4, <1>5

\* The slot a probe stops at is one of those looked for, and none before it is.
LEMMA FirstFound ==
  ASSUME walk \in Walks, NEW id \in Int, NEW S \in SUBSET Cells, S # {}
  PROVE  \E j \in Cells : /\ FirstSlot(id, S) = Probe(id, j) /\ Probe(id, j) \in S
                          /\ \A i \in 0 .. j - 1 : Probe(id, i) \notin S
<1>1. bh_capacity \in Nat
  BY HashSize
<1> DEFINE T == {j \in Cells : Probe(id, j) \in S}
<1>2. T \subseteq Nat /\ T # {}
  <2>1. PICK s : s \in S
    OBVIOUS
  <2>2. PICK m \in Cells : Probe(id, m) = s
    BY <2>1, ProbesMeetAll
  <2>3. m \in T
    BY <2>1, <2>2
  <2> QED
    BY <1>1, <2>3 DEF Cells
<1>3. PICK l \in T : \A m \in T : l <= m
  BY <1>2, LeastPlace
<1>4. \E j \in Cells : /\ Probe(id, j) \in S
                       /\ \A i \in 0 .. j - 1 : Probe(id, i) \notin S
  <2>1. ASSUME NEW i \in 0 .. l - 1, Probe(id, i) \in S PROVE FALSE
    BY <1>1, <1>3, <2>1 DEF Cells
  <2> QED
    BY <1>3, <2>1
<1> DEFINE j == CHOOSE j \in 0 .. bh_capacity - 1 :
                  /\ Probe(id, j) \in S
                  /\ \A i \in 0 .. j - 1 : Probe(id, i) \notin S
<1>5. j \in Cells /\ Probe(id, j) \in S /\ \A i \in 0 .. j - 1 : Probe(id, i) \notin S
  BY <1>4 DEF Cells
<1>6. FirstSlot(id, S) = Probe(id, j)
  BY DEF FirstSlot
<1> QED
  BY <1>5, <1>6

-----------------------------------------------------------------------------
(* What a lookup, an insertion and an eviction do to the hash.             *)

\* Where a slot is empty, the hash is found to hold what it holds.
LEMMA HashContains ==
  ASSUME walk \in Walks, NEW b, NEW h, h = b.hash, GoodHash(h), NEW id \in WalkIds,
         \E s \in Cells : h[s] = Empty
  PROVE  bh_contains(b, id) <=> Hashed(h, id)
<1>1. DOMAIN h = Cells /\ id \in Int /\ id # Empty /\ bh_capacity \in Nat
  BY HashSize DEF GoodHash, Hashes, WalkIds, Empty
<1>2. PICK S \in SUBSET Cells : S = {s \in Cells : h[s] \in {id, Empty}}
  OBVIOUS
<1>3. S # {}
  BY <1>2
<1>4. PICK j \in Cells : /\ FirstSlot(id, S) = Probe(id, j) /\ Probe(id, j) \in S
                         /\ \A i \in 0 .. j - 1 : Probe(id, i) \notin S
  BY <1>1, <1>3, FirstFound
<1>5. bh_contains(b, id) <=> h[Probe(id, j)] = id
  <2>1. SlotsWith(b, {id, Empty}) = S
    BY <1>1, <1>2 DEF SlotsWith
  <2> QED
    BY <1>4, <2>1, Zenon DEF bh_contains
<1>6. ASSUME h[Probe(id, j)] = id PROVE Hashed(h, id)
  BY <1>2, <1>4, <1>6 DEF Hashed
<1>7. ASSUME Hashed(h, id), h[Probe(id, j)] # id PROVE FALSE
  <2>1. PICK s \in Cells : h[s] = id
    BY <1>7 DEF Hashed
  <2>2. PICK m \in Cells : Probe(id, m) = s /\ \A i \in 0 .. m - 1 : h[Probe(id, i)] # Empty
    BY <1>1, <2>1 DEF GoodHash, Reached
  <2>3. h[Probe(id, j)] = Empty
    BY <1>2, <1>4, <1>7
  <2>4. ~(j < m)
    BY <1>1, <2>2, <2>3 DEF Cells
  <2>5. j # m
    BY <1>1, <2>1, <2>2, <2>3
  <2>6. m \in 0 .. j - 1
    BY <1>1, <2>4, <2>5 DEF Cells
  <2>7. s \in S
    BY <1>2, <2>1
  <2> QED
    BY <1>4, <2>2, <2>6, <2>7
<1>8. Hashed(h, id) <=> h[Probe(id, j)] = id
  BY <1>6, <1>7, Zenon
<1> QED
  BY <1>5, <1>8

\* A free slot a probe comes to first may hold its id.
LEMMA Joins ==
  ASSUME walk \in Walks, NEW h, GoodHash(h), NEW id \in WalkIds, ~Hashed(h, id),
         NEW f \in Cells, h[f] \in Marks, NEW j \in Cells, f = Probe(id, j),
         \A i \in 0 .. j - 1 : h[Probe(id, i)] \notin Marks,
         NEW g \in Hashes, g[f] = id, \A s \in Cells : s # f => g[s] = h[s]
  PROVE  /\ GoodHash(g)
         /\ \A i \in WalkIds : Hashed(g, i) <=> Hashed(h, i) \/ i = id
         /\ Used(g) = Used(h) \cup {f}
<1>1. /\ DOMAIN h = Cells /\ id \in Int /\ id \notin Marks /\ id # Empty /\ bh_capacity \in Nat
      /\ \A s \in Cells : h[s] \in WalkIds \cup Marks
  BY HashSize DEF GoodHash, Hashes, WalkIds, Empty, Tombstone, Marks
<1>2. \A s \in Cells : h[s] # Empty => g[s] # Empty
  BY <1>1
<1>3. ASSUME NEW s \in Cells, NEW t \in Cells, g[s] \in WalkIds, g[s] = g[t] PROVE s = t
  BY <1>1, <1>3 DEF GoodHash, Hashed
<1>4. ASSUME NEW s \in Cells, g[s] \in WalkIds PROVE Reached(g, s)
  <2>1. CASE s = f
    <3>1. g[s] = id
      BY <2>1
    <3>2. ASSUME NEW i \in 0 .. j - 1 PROVE g[Probe(id, i)] # Empty
      <4>1. i \in Cells
        BY <1>1, <3>2 DEF Cells
      <4>2. Probe(id, i) \in Cells
        BY <1>1, <4>1, ProbesMeetAll
      <4>3. h[Probe(id, i)] \notin Marks
        BY <3>2
      <4> QED
        BY <1>2, <4>2, <4>3 DEF Marks
    <3> QED
      BY <2>1, <3>1, <3>2 DEF Reached
  <2>2. CASE s # f
    <3>1. g[s] = h[s]
      BY <2>2
    <3>2. PICK m \in Cells : Probe(h[s], m) = s /\ \A i \in 0 .. m - 1 : h[Probe(h[s], i)] # Empty
      BY <1>4, <3>1 DEF GoodHash, Reached
    <3>3. ASSUME NEW i \in 0 .. m - 1 PROVE g[Probe(h[s], i)] # Empty
      <4>1. i \in Cells /\ h[s] \in Int
        BY <1>1, <1>4, <3>1, <3>3, HashSize DEF Cells, WalkIds
      <4>2. Probe(h[s], i) \in Cells
        BY <4>1, ProbesMeetAll
      <4> QED
        BY <1>2, <3>2, <3>3, <4>2
    <3> QED
      BY <3>1, <3>2, <3>3 DEF Reached
  <2> QED
    BY <2>1, <2>2
<1>5. ASSUME NEW i \in WalkIds PROVE Hashed(g, i) <=> Hashed(h, i) \/ i = id
  <2>1. i \notin Marks
    BY HashSize DEF WalkIds, Marks, Empty, Tombstone
  <2> QED
    BY <1>1, <2>1 DEF Hashed
<1>6. Used(g) = Used(h) \cup {f}
  BY <1>1 DEF Used
<1> QED
  BY <1>3, <1>4, <1>5, <1>6 DEF GoodHash

\* The slot of an id that leaves keeps its place in the probes.
LEMMA Leaves ==
  ASSUME walk \in Walks, NEW h, GoodHash(h), NEW id \in WalkIds, Hashed(h, id),
         NEW f \in Cells, h[f] = id,
         NEW g \in Hashes, g[f] = Tombstone, \A s \in Cells : s # f => g[s] = h[s]
  PROVE  /\ GoodHash(g)
         /\ \A i \in WalkIds : Hashed(g, i) <=> Hashed(h, i) /\ i # id
         /\ Used(g) = Used(h)
         /\ \E s \in Cells : g[s] \in Marks
<1>1. /\ DOMAIN h = Cells /\ id \in Int /\ id # Empty /\ bh_capacity \in Nat
      /\ \A s \in Cells : h[s] \in WalkIds \cup Marks
      /\ Tombstone \notin WalkIds /\ Tombstone # Empty
  BY HashSize DEF GoodHash, Hashes, WalkIds, Empty, Tombstone, Marks
<1>2. \A s \in Cells : h[s] # Empty <=> g[s] # Empty
  BY <1>1
<1>3. \A s \in Cells : g[s] \in WalkIds => s # f /\ g[s] = h[s]
  BY <1>1
<1>4. ASSUME NEW s \in Cells, NEW t \in Cells, g[s] \in WalkIds, g[s] = g[t] PROVE s = t
  BY <1>3, <1>4 DEF GoodHash
<1>5. ASSUME NEW s \in Cells, g[s] \in WalkIds PROVE Reached(g, s)
  <2>1. PICK m \in Cells : Probe(h[s], m) = s /\ \A i \in 0 .. m - 1 : h[Probe(h[s], i)] # Empty
    BY <1>3, <1>5 DEF GoodHash, Reached
  <2>2. ASSUME NEW i \in 0 .. m - 1 PROVE g[Probe(h[s], i)] # Empty
    <3>1. i \in Cells /\ h[s] \in Int
      BY <1>1, <1>3, <1>5, <2>2, HashSize DEF Cells, WalkIds
    <3>2. Probe(h[s], i) \in Cells
      BY <3>1, ProbesMeetAll
    <3> QED
      BY <1>2, <2>1, <2>2, <3>2
  <2> QED
    BY <1>3, <1>5, <2>1, <2>2 DEF Reached
<1>6. ASSUME NEW i \in WalkIds PROVE Hashed(g, i) <=> Hashed(h, i) /\ i # id
  BY <1>1, <1>4 DEF Hashed, GoodHash
<1>7. Used(g) = Used(h)
  BY <1>2 DEF Used
<1>8. g[f] \in Marks
  BY DEF Marks
<1> QED
  BY <1>4, <1>5, <1>6, <1>7, <1>8 DEF GoodHash

-----------------------------------------------------------------------------
(* The hash as a part of the beam.                                         *)

\* As many slots as its capacity; the used ones are counted.
LEMMA UsedFinite ==
  ASSUME walk \in Walks, NEW h
  PROVE  /\ IsFiniteSet(Cells) /\ Cardinality(Cells) = bh_capacity
         /\ IsFiniteSet(Used(h)) /\ Cardinality(Used(h)) \in Nat
         /\ Cardinality(Used(h)) < bh_capacity => \E s \in Cells : h[s] = Empty
<1>1. bh_capacity \in Nat
  BY HashSize
<1>2. PICK c \in Nat : c = bh_capacity
  BY <1>1
<1>3. IsFiniteSet(0 .. c - 1) /\ Cardinality(0 .. c - 1) = c
  BY <1>2, FS_Interval
<1>4. IsFiniteSet(Cells) /\ Cardinality(Cells) = bh_capacity
  BY <1>2, <1>3 DEF Cells
<1>5. Used(h) \subseteq Cells
  BY DEF Used
<1>6. IsFiniteSet(Used(h)) /\ Cardinality(Used(h)) \in Nat
  BY <1>4, <1>5, FS_Subset, FS_CardinalityType
<1>7. ASSUME Cardinality(Used(h)) < bh_capacity PROVE \E s \in Cells : h[s] = Empty
  <2>1. Used(h) # Cells
    BY <1>1, <1>4, <1>7
  <2> QED
    BY <1>5, <2>1 DEF Used
<1> QED
  BY <1>4, <1>6, <1>7

\* c is b with one more id in its hash.
Joined(b, id, c) ==
  \E g \in Hashes, t \in Int :
    /\ c = [b EXCEPT !.hash = g, !.tombs = t]
    /\ GoodHash(g) /\ t <= b.tombs
    /\ \A i \in WalkIds : Hashed(g, i) <=> Hashed(b.hash, i) \/ i = id
    /\ Cardinality(Used(g)) - t = Cardinality(Used(b.hash)) - b.tombs + 1

\* Where there is room, an insertion joins its id.
LEMMA Insertion ==
  ASSUME walk \in Walks, NEW b \in Beams, NEW h, h = b.hash, GoodHash(h),
         NEW id \in WalkIds,
         ~Hashed(h, id), \E s \in Cells : h[s] \in Marks
  PROVE  Joined(b, id, bh_insert(b, id))
<1>2. DOMAIN h = Cells
  BY DEF GoodHash, Hashes
<1>3. PICK S \in SUBSET Cells : S = {s \in Cells : h[s] \in Marks}
  OBVIOUS
<1>4. PICK f : f = FirstSlot(id, S)
  OBVIOUS
<1>5. PICK g : g = [h EXCEPT ![f] = id]
  OBVIOUS
<1>6. /\ f \in S /\ GoodHash(g)
      /\ \A i \in WalkIds : Hashed(g, i) <=> Hashed(h, i) \/ i = id
      /\ Used(g) = Used(h) \cup {f}
  <2>1. id \in Int /\ bh_capacity \in Nat
    BY HashSize DEF WalkIds
  <2>2. PICK j \in Cells : /\ f = Probe(id, j) /\ f \in S
                           /\ \A i \in 0 .. j - 1 : Probe(id, i) \notin S
    <3>1. S # {} /\ id \in Int
      BY <1>3, <2>1
    <3>2. PICK j \in Cells : /\ FirstSlot(id, S) = Probe(id, j) /\ Probe(id, j) \in S
                             /\ \A i \in 0 .. j - 1 : Probe(id, i) \notin S
      BY <3>1, FirstFound
    <3> QED
      BY <1>4, <3>2
  <2>3. f \in Cells /\ h[f] \in Marks
    BY <1>3, <2>2
  <2>4. ASSUME NEW i \in 0 .. j - 1 PROVE h[Probe(id, i)] \notin Marks
    <3>1. i \in Cells
      BY <2>1, <2>4 DEF Cells
    <3>2. Probe(id, i) \in Cells
      BY <2>1, <3>1, ProbesMeetAll
    <3> QED
      BY <1>3, <2>2, <3>2
  <2>5. g \in Hashes /\ g[f] = id /\ \A s \in Cells : s # f => g[s] = h[s]
    BY <1>2, <1>5, <2>3 DEF GoodHash, Hashes
  <2>6. /\ GoodHash(g)
        /\ \A i \in WalkIds : Hashed(g, i) <=> Hashed(h, i) \/ i = id
        /\ Used(g) = Used(h) \cup {f}
    BY <2>2, <2>3, <2>4, <2>5, Joins
  <2> QED
    BY <2>2, <2>6
<1>7. PICK t : t = IF h[f] = Tombstone THEN b.tombs - 1 ELSE b.tombs
  OBVIOUS
<1>8. b.tombs \in Int /\ t \in Int /\ t <= b.tombs
  BY <1>7 DEF Beams
<1>9. bh_insert(b, id) = [b EXCEPT !.hash = g, !.tombs = t]
  <2>1. SlotsWith(b, {Empty, Tombstone}) = S
    BY <1>2, <1>3 DEF SlotsWith, Marks
  <2>2. FirstSlot(id, SlotsWith(b, {Empty, Tombstone})) = f
    BY <1>4, <2>1, Zenon
  <2>3. bh_insert(b, id) = [b EXCEPT !.hash[f] = id,
              !.tombs = IF b.hash[f] = Tombstone THEN @ - 1 ELSE @]
    BY <2>2, Zenon DEF bh_insert
  <2> QED
    BY <1>4, <1>5, <1>7, <2>3 DEF Beams
<1>10. Cardinality(Used(g)) - t = Cardinality(Used(h)) - b.tombs + 1
  <2>1. IsFiniteSet(Used(h)) /\ Cardinality(Used(h)) \in Nat
    BY UsedFinite
  <2>2. CASE h[f] = Tombstone
    <3>1. Used(g) = Used(h)
      BY <1>3, <1>6, <2>2 DEF Used, Empty, Tombstone
    <3> QED
      BY <1>7, <1>8, <2>1, <2>2, <3>1
  <2>3. CASE h[f] # Tombstone
    <3>1. f \notin Used(h)
      BY <1>3, <1>6, <2>3 DEF Used, Marks
    <3>2. Cardinality(Used(g)) = Cardinality(Used(h)) + 1
      BY <1>6, <2>1, <3>1, FS_AddElement
    <3> QED
      BY <1>7, <1>8, <2>1, <2>3, <3>2
  <2> QED
    BY <2>2, <2>3
<1>11. g \in Hashes
  BY <1>6 DEF GoodHash
<1> QED
  BY <1>6, <1>8, <1>9, <1>10, <1>11 DEF Joined

\* c is b with the slot of an id marked.
Evicted(b, id, c) ==
  \E g \in Hashes :
    /\ c = [b EXCEPT !.hash = g, !.tombs = b.tombs + 1]
    /\ GoodHash(g)
    /\ \A i \in WalkIds : Hashed(g, i) <=> Hashed(b.hash, i) /\ i # id
    /\ Used(g) = Used(b.hash)
    /\ \E s \in Cells : g[s] \in Marks

\* A member that is evicted leaves its mark.
LEMMA Eviction ==
  ASSUME walk \in Walks, NEW b \in Beams, NEW h, h = b.hash, GoodHash(h),
         NEW id \in WalkIds,
         Hashed(h, id)
  PROVE  Evicted(b, id, bh_remove(b, id))
<1>2. DOMAIN h = Cells
  BY DEF GoodHash, Hashes
<1>3. PICK S \in SUBSET Cells : S = {s \in Cells : h[s] = id}
  OBVIOUS
<1>4. PICK f : f = FirstSlot(id, S)
  OBVIOUS
<1>5. PICK g : g = [h EXCEPT ![f] = Tombstone]
  OBVIOUS
<1>6. /\ GoodHash(g)
      /\ \A i \in WalkIds : Hashed(g, i) <=> Hashed(h, i) /\ i # id
      /\ Used(g) = Used(h)
      /\ \E s \in Cells : g[s] \in Marks
  <2>1. id \in Int /\ S # {}
    BY <1>3, HashSize DEF WalkIds, Hashed
  <2>2. f \in S
    BY <1>4, <2>1, FirstFound
  <2>3. f \in Cells /\ h[f] = id
    BY <1>3, <2>2
  <2>4. g \in Hashes /\ g[f] = Tombstone /\ \A s \in Cells : s # f => g[s] = h[s]
    BY <1>2, <1>5, <2>3 DEF GoodHash, Hashes, Marks
  <2> QED
    BY <2>3, <2>4, Leaves
<1>7. bh_remove(b, id) = [b EXCEPT !.hash = g, !.tombs = b.tombs + 1]
  <2>1. SlotsWith(b, {id}) = S
    BY <1>2, <1>3 DEF SlotsWith
  <2>2. FirstSlot(id, SlotsWith(b, {id})) = f
    BY <1>4, <2>1, Zenon
  <2>3. bh_remove(b, id) = [b EXCEPT !.hash[f] = Tombstone, !.tombs = b.tombs + 1]
    BY <2>2, Zenon DEF bh_remove
  <2> QED
    BY <1>4, <1>5, <2>3 DEF Beams
<1>8. g \in Hashes
  BY <1>6 DEF GoodHash
<1> QED
  BY <1>6, <1>7, <1>8 DEF Evicted

\* Short of its bounds a hash has an empty slot.
LEMMA RoomLeft ==
  ASSUME walk \in Walks, NEW h, NEW len \in Nat, NEW t \in Int, len <= BEAM,
         Cardinality(Used(h)) = len + t, 4 * t < 3 * bh_capacity - 4 * itopk
  PROVE  \E s \in Cells : h[s] = Empty
<1>1. /\ bh_capacity \in Nat /\ itopk \in Nat /\ len <= 2 * itopk
      /\ bh_capacity >= 4 * itopk
  <2>1. BEAM = 2 * itopk
    BY HashSize
  <2> QED
    BY <2>1, HashSize
<1>2. PICK u \in Nat : u = Cardinality(Used(h))
  BY UsedFinite
<1>3. u < bh_capacity
  BY <1>1, <1>2
<1> QED
  BY <1>2, <1>3, UsedFinite

\* The hash a walk begins with holds nothing.
LEMMA NoHash ==
  ASSUME walk \in Walks
  PROVE  /\ GoodHash(EmptyHash)
         /\ \A id \in WalkIds : ~Hashed(EmptyHash, id)
         /\ Cardinality(Used(EmptyHash)) = 0
         /\ EmptyHash \in Hashes
<1>1. EmptyHash \in Hashes /\ \A s \in Cells : EmptyHash[s] = Empty
  BY DEF EmptyHash, Hashes, Cells, Marks
<1>2. Empty \notin WalkIds
  BY HashSize DEF Empty, WalkIds
<1>3. Used(EmptyHash) = {}
  BY <1>1 DEF Used
<1>4. Cardinality(Used(EmptyHash)) = 0
  BY <1>3, FS_EmptySet, Zenon
<1>5. \A id \in WalkIds : ~Hashed(EmptyHash, id)
  BY <1>1, <1>2 DEF Hashed
<1> QED
  BY <1>1, <1>2, <1>4, <1>5 DEF GoodHash

\* One of the first m slots of a beam has the id.
Listed(b, m, id) == \E i \in 1 .. m : b.slots[i].id = id

\* The beam b, its hash holding its first m ids.
Upto(b, m, c) ==
  \E g \in Hashes, t \in Int :
    /\ c = [b EXCEPT !.hash = g, !.tombs = t]
    /\ GoodHash(g) /\ t <= 0
    /\ \A id \in WalkIds : Hashed(g, id) <=> Listed(b, m, id)
    /\ Cardinality(Used(g)) = m + t

\* How a hash is built anew, one id after another.
LEMMA UptoNone ==
  ASSUME walk \in Walks, NEW b \in Beams
  PROVE  Upto(b, 0, [b EXCEPT !.hash = EmptyHash, !.tombs = 0])
<1>1. PICK g \in Hashes : /\ g = EmptyHash /\ GoodHash(g) /\ Cardinality(Used(g)) = 0
                          /\ \A id \in WalkIds : ~Hashed(g, id)
  BY NoHash
<1>2. \A id \in WalkIds : ~Listed(b, 0, id)
  BY DEF Listed
<1> QED
  <2>1. [b EXCEPT !.hash = EmptyHash, !.tombs = 0] = [b EXCEPT !.hash = g, !.tombs = 0]
    BY <1>1
  <2>2. GoodHash(g) /\ 0 <= 0 /\ Cardinality(Used(g)) = 0 + 0
    BY <1>1
  <2>3. \A id \in WalkIds : Hashed(g, id) <=> Listed(b, 0, id)
    BY <1>1, <1>2
  <2>4. 0 \in Int
    OBVIOUS
  <2> QED
    BY <2>1, <2>2, <2>3, <2>4, Zenon DEF Upto

LEMMA UptoNext ==
  ASSUME walk \in Walks, NEW b \in Beams, NEW c, NEW m \in Nat, Upto(b, m, c),
         m < Len(b.slots), Len(b.slots) <= BEAM,
         \A i, j \in DOMAIN b.slots : b.slots[i].id = b.slots[j].id => i = j
  PROVE  Upto(b, m + 1, bh_insert(c, b.slots[m + 1].id))
<1>1. PICK g \in Hashes, t \in Int :
        /\ c = [b EXCEPT !.hash = g, !.tombs = t]
        /\ GoodHash(g) /\ t <= 0
        /\ \A id \in WalkIds : Hashed(g, id) <=> Listed(b, m, id)
        /\ Cardinality(Used(g)) = m + t
  BY DEF Upto
<1>2. /\ b.slots \in Seq([id : WalkIds, expanded : BOOLEAN]) /\ Len(b.slots) \in Nat
      /\ DOMAIN b.slots = 1 .. Len(b.slots)
  BY DEF Beams
<1>3. m + 1 \in DOMAIN b.slots /\ b.slots[m + 1].id \in WalkIds
  <2>1. PICK s \in Seq([id : WalkIds, expanded : BOOLEAN]) : s = b.slots
    BY <1>2
  <2>2. m + 1 \in 1 .. Len(s)
    BY <2>1
  <2>3. s[m + 1] \in [id : WalkIds, expanded : BOOLEAN]
    BY <2>2, ElementOfSeq
  <2> QED
    BY <2>1, <2>2, <2>3
<1>4. PICK id \in WalkIds : id = b.slots[m + 1].id
  BY <1>3
<1>5. c \in Beams /\ c.hash = g /\ c.tombs = t
  BY <1>1 DEF Beams
<1>6. ~Hashed(g, id)
  <2>1. ~Listed(b, m, id)
    BY <1>2, <1>3, <1>4 DEF Listed
  <2> QED
    BY <1>1, <2>1
<1>7. \E s \in Cells : g[s] \in Marks
  <2>1. 4 * t < 3 * bh_capacity - 4 * itopk /\ m <= BEAM
    <3>1. PICK k \in Nat \ {0} : k = itopk
      BY HashSize
    <3>2. PICK a \in Nat : a = bh_capacity /\ a >= 4 * k
      BY <3>1, HashSize
    <3>3. BEAM = 2 * k
      BY <3>1, HashSize
    <3> QED
      BY SMTT(30), <1>1, <1>2, <3>1, <3>2, <3>3
  <2>2. \E s \in Cells : g[s] = Empty
    BY <1>1, <2>1, RoomLeft
  <2> QED
    BY <2>2 DEF Marks
<1>8. PICK g2 \in Hashes, t2 \in Int :
        /\ bh_insert(c, id) = [c EXCEPT !.hash = g2, !.tombs = t2]
        /\ GoodHash(g2) /\ t2 <= c.tombs
        /\ \A i \in WalkIds : Hashed(g2, i) <=> Hashed(c.hash, i) \/ i = id
        /\ Cardinality(Used(g2)) - t2 = Cardinality(Used(c.hash)) - c.tombs + 1
  <2>1. g = c.hash
    BY <1>5
  <2>2. Joined(c, id, bh_insert(c, id))
    BY <1>1, <1>5, <1>6, <1>7, <2>1, Insertion
  <2> QED
    BY <2>2, Zenon DEF Joined
<1>9. bh_insert(c, id) = [b EXCEPT !.hash = g2, !.tombs = t2]
  BY <1>1, <1>8 DEF Beams
<1>10. \A i \in WalkIds : Listed(b, m + 1, i) <=> Listed(b, m, i) \/ i = id
  BY <1>4 DEF Listed
<1>11. Cardinality(Used(g2)) = m + 1 + t2
  <2>1. Cardinality(Used(g2)) \in Nat
    BY UsedFinite
  <2> QED
    BY <1>1, <1>5, <1>8, <2>1
<1>12. \A i \in WalkIds : Hashed(g2, i) <=> Listed(b, m + 1, i)
  BY <1>1, <1>8, <1>10
<1>13. t2 <= 0
  BY <1>1, <1>5, <1>8
<1>14. Upto(b, m + 1, bh_insert(c, id))
  BY <1>8, <1>9, <1>11, <1>12, <1>13 DEF Upto
<1> QED
  BY <1>4, <1>14

\* A hash built anew holds the ids of its beam.
LEMMA Rebuilt ==
  ASSUME walk \in Walks, NEW b \in Beams, Len(b.slots) <= BEAM,
         \A i, j \in DOMAIN b.slots : b.slots[i].id = b.slots[j].id => i = j
  PROVE  Upto(b, Len(b.slots), Rehashed(b))
<1> DEFINE L == Len(b.slots)
           None == [b EXCEPT !.hash = EmptyHash, !.tombs = 0]
           Step(f, m) == IF m = 0 THEN None ELSE bh_insert(f[m - 1], b.slots[m].id)
           Def(f, n) == f = [m \in 0 .. n |-> Step(f, m)]
           Bad == {n \in 0 .. L : ~ \E f : Def(f, n)}
<1>1. L \in Nat
  BY DEF Beams
<1>2. \E f : Def(f, L)
  <2>1. SUFFICES ASSUME Bad # {} PROVE FALSE
    BY <1>1
  <2>2. PICK n \in Bad : \A m \in Bad : n <= m
    <3>1. PICK T : T = Bad
      OBVIOUS
    <3>2. ASSUME NEW n \in T PROVE n \in Nat
      BY <1>1, <3>1
    <3>3. T # {}
      BY <2>1, <3>1
    <3>4. \E n \in T : \A m \in T : n <= m
      BY <3>2, <3>3, LeastPlace
    <3> QED
      BY <3>1, <3>4, Zenon
  <2>3. CASE n = 0
    <3>1. Def([m \in 0 .. 0 |-> None], 0)
      OBVIOUS
    <3> QED
      BY <2>2, <2>3, <3>1
  <2>4. CASE n # 0
    <3>1. n - 1 \in 0 .. L /\ n - 1 \notin Bad /\ n \in Nat
      BY <1>1, <2>2, <2>4
    <3>2. PICK f : Def(f, n - 1)
      BY <3>1
    <3>3. PICK g : g = [m \in 0 .. n |-> IF m = n THEN Step(f, n) ELSE f[m]]
      OBVIOUS
    <3>4. ASSUME NEW m \in 0 .. n PROVE g[m] = Step(g, m)
      <4>1. CASE m = 0
        <5>1. f[0] = None
          BY <3>1, <3>2, <4>1
        <5> QED
          BY <2>4, <3>1, <3>3, <4>1, <5>1
      <4>2. CASE m # 0 /\ m # n
        <5>1. m \in 0 .. n - 1 /\ m - 1 \in 0 .. n - 1 /\ m - 1 \in 0 .. n /\ m - 1 # n
          BY <3>1, <3>4, <4>2
        <5>2. f[m] = Step(f, m)
          BY <3>2, <5>1
        <5>3. g[m] = f[m] /\ g[m - 1] = f[m - 1]
          BY <3>3, <5>1, <4>2
        <5> QED
          BY <4>2, <5>2, <5>3
      <4>3. CASE m # 0 /\ m = n
        <5>1. m - 1 \in 0 .. n /\ m - 1 # n
          BY <3>1, <3>4, <4>3
        <5>2. g[m] = Step(f, n) /\ g[m - 1] = f[m - 1]
          BY <3>3, <3>4, <5>1, <4>3
        <5> QED
          BY <4>3, <5>2
      <4> QED
        BY <4>1, <4>2, <4>3
    <3>5. Def(g, n)
      BY <3>3, <3>4
    <3> QED
      BY <2>2, <3>5
  <2> QED
    BY <2>3, <2>4
<1>3. PICK f : Rehashed(b) = f[L] /\ Def(f, L)
  BY <1>2 DEF Rehashed
<1>4. ASSUME NEW n \in 1 .. L, Upto(b, n - 1, f[n - 1]) PROVE Upto(b, n, f[n])
  <2>1. n \in 0 .. L /\ n # 0 /\ n - 1 \in Nat /\ n - 1 < L /\ (n - 1) + 1 = n
    BY <1>1
  <2>2. f[n] = bh_insert(f[n - 1], b.slots[n].id)
    BY <1>3, <2>1
  <2>3. PICK m \in Nat : m = n - 1
    BY <2>1
  <2>4. m < Len(b.slots) /\ Upto(b, m, f[n - 1]) /\ m + 1 = n
    BY <1>4, <2>1, <2>3
  <2>5. Upto(b, m + 1, bh_insert(f[n - 1], b.slots[m + 1].id))
    BY <2>4, UptoNext
  <2> QED
    BY <2>2, <2>4, <2>5, Zenon
<1>5. Upto(b, 0, f[0])
  <2>1. f[0] = None
    BY <1>1, <1>3
  <2> QED
    BY <2>1, UptoNone
<1> DEFINE Short == {n \in 0 .. L : ~Upto(b, n, f[n])}
<1>6. Short = {}
  <2>1. SUFFICES ASSUME Short # {} PROVE FALSE
    OBVIOUS
  <2>2. PICK n \in Short : \A m \in Short : n <= m
    <3>1. PICK T : T = Short
      OBVIOUS
    <3>2. ASSUME NEW n \in T PROVE n \in Nat
      BY <1>1, <3>1
    <3>3. T # {}
      BY <2>1, <3>1
    <3>4. \E n \in T : \A m \in T : n <= m
      BY <3>2, <3>3, LeastPlace
    <3> QED
      BY <3>1, <3>4, Zenon
  <2>3. n # 0
    BY <1>5, <2>2
  <2>4. n \in 1 .. L /\ n - 1 \in 0 .. L /\ n - 1 < n
    BY <1>1, <2>2, <2>3
  <2>5. Upto(b, n - 1, f[n - 1])
    BY <2>2, <2>4
  <2> QED
    BY <1>4, <2>2, <2>4, <2>5
<1>7. Upto(b, L, f[L])
  BY <1>1, <1>6
<1> QED
  BY <1>3, <1>7, Zenon

-----------------------------------------------------------------------------
(* What a candidate does to the beam.                                      *)

\* One of finitely many different numbers is the largest.
LEMMA LargestOf ==
  ASSUME NEW L \in Nat \ {0}, NEW d \in [1 .. L -> Int],
         \A i, j \in 1 .. L : d[i] = d[j] => i = j
  PROVE  \E i \in 1 .. L : \A j \in 1 .. L : j # i => d[j] < d[i]
<1> DEFINE Top(i, m) == \A j \in 1 .. m : j # i => d[j] < d[i]
           Bad == {m \in 1 .. L : ~ \E i \in 1 .. m : Top(i, m)}
<1>1. Bad = {}
  <2>1. SUFFICES ASSUME Bad # {} PROVE FALSE
    OBVIOUS
  <2>2. PICK n \in 1 .. L : n \in Bad /\ \A m \in Bad : n <= m
    <3>1. PICK T : T = Bad
      OBVIOUS
    <3>2. ASSUME NEW n \in T PROVE n \in Nat
      BY <3>1
    <3>3. T # {}
      BY <2>1, <3>1
    <3>4. \E n \in T : \A m \in T : n <= m
      BY <3>2, <3>3, LeastPlace
    <3> QED
      BY <3>1, <3>4
  <2>3. n # 1
    <3>1. SUFFICES ASSUME n = 1 PROVE FALSE
      OBVIOUS
    <3>2. Top(1, 1)
      OBVIOUS
    <3> QED
      BY <2>2, <3>1, <3>2
  <2>4. n - 1 \in 1 .. L /\ ~(n <= n - 1)
    BY <2>3
  <2>5. n - 1 \notin Bad
    BY <2>2, <2>4
  <2>6. PICK i \in 1 .. n - 1 : Top(i, n - 1)
    BY <2>4, <2>5
  <2>7. i \in 1 .. L /\ i \in 1 .. n /\ i # n
    BY <2>4, <2>6
  <2>8. CASE d[n] < d[i]
    <3>1. Top(i, n)
      BY <2>6, <2>8
    <3> QED
      BY <2>2, <2>7, <3>1
  <2>9. CASE d[i] < d[n]
    <3>1. ASSUME NEW j \in 1 .. n, j # n PROVE d[j] < d[n]
      <4>1. j \in 1 .. n - 1 /\ j \in 1 .. L
        BY <3>1
      <4>2. j = i \/ d[j] < d[i]
        BY <2>6, <4>1
      <4> QED
        BY <2>7, <2>9, <4>1, <4>2
    <3>2. Top(n, n)
      BY <3>1
    <3> QED
      BY <2>2, <3>2
  <2> QED
    BY <2>7, <2>8, <2>9
<1>2. L \in 1 .. L /\ L \notin Bad
  <2>1. L \in 1 .. L
    OBVIOUS
  <2> QED
    BY <1>1, <2>1, Zenon
<1>3. PICK i \in 1 .. L : Top(i, L)
  BY <1>2
<1> QED
  BY <1>3

Slots == [id : WalkIds, expanded : BOOLEAN]
Distinct(s) == \A i, j \in DOMAIN s : s[i].id = s[j].id => i = j

\* One slot of a beam is the farthest.
LEMMA FarthestIn ==
  ASSUME walk \in Walks, NEW list \in Seq(Slots), list # <<>>, Distinct(list)
  PROVE  Farthest(list) \in DOMAIN list
<1>1. PICK L \in Nat \ {0} : L = Len(list) /\ DOMAIN list = 1 .. L
  OBVIOUS
<1>2. \A i \in 1 .. L : list[i] \in Slots
  BY <1>1, ElementOfSeq
<1>3. /\ walk.n \in Nat \ {0} /\ walk.dist \in [1 .. walk.n -> Int]
      /\ \A i, j \in 1 .. walk.n : walk.dist[i] = walk.dist[j] => i = j
  <2>1. ASSUME NEW w \in Walks
        PROVE  \A i, j \in 1 .. w.n : w.dist[i] = w.dist[j] => i = j
    BY BeamWalkAssumption
  <2> QED
    BY <2>1, BeamWalkAssumption
<1>4. \A i \in 1 .. L : list[i].id \in Int /\ list[i].id + 1 \in 1 .. walk.n
  BY <1>2, <1>3 DEF Slots, WalkIds
<1>5. PICK d : d = [i \in 1 .. L |-> walk.dist[list[i].id + 1]]
  OBVIOUS
<1>6. d \in [1 .. L -> Int]
  BY <1>3, <1>4, <1>5
<1>7. ASSUME NEW i \in 1 .. L, NEW j \in 1 .. L, d[i] = d[j] PROVE i = j
  <2>1. list[i].id + 1 = list[j].id + 1
    BY <1>3, <1>4, <1>5, <1>7
  <2>2. list[i].id = list[j].id
    BY <1>4, <2>1
  <2> QED
    BY <1>1, <2>2 DEF Distinct
<1>8. PICK i \in 1 .. L : \A j \in 1 .. L : j # i => d[j] < d[i]
  BY <1>6, <1>7, LargestOf
<1>9. ASSUME NEW j \in DOMAIN list
      PROVE  Closer(list[j].id, list[i].id) \/ (list[j].id = list[i].id /\ i <= j)
  <2>1. CASE j = i
    BY <2>1
  <2>2. CASE j # i
    <3>1. d[j] < d[i]
      BY <1>1, <1>8, <2>2
    <3> QED
      BY <1>1, <1>5, <3>1 DEF Closer
  <2> QED
    BY <2>1, <2>2
<1> QED
  BY <1>1, <1>9 DEF Farthest

\* A beam as it stands while its hash may be crowded.
Crowded(b) ==
  /\ b \in Beams /\ b.worst \in DOMAIN b.slots
  /\ GoodHash(b.hash) /\ Aligned(b)
  /\ Len(b.slots) <= BEAM /\ itopk <= Len(b.slots)
  /\ Cardinality(Used(b.hash)) = Len(b.slots) + b.tombs

\* A crowded hash is built anew, another is left alone: both end good.
LEMMA RebuildKeeps ==
  ASSUME walk \in Walks, NEW b, Crowded(b)
  PROVE  /\ GoodBeam(bh_rebuild_if_crowded(b))
         /\ bh_rebuild_if_crowded(b).slots = b.slots
<1>1. PICK L \in Nat : L = Len(b.slots)
  BY DEF Crowded, Beams
<1>2. PICK t \in Int : t = b.tombs
  BY DEF Crowded, Beams
<1>3. PICK C \in Nat : C = bh_capacity
  BY HashSize
<1>4. PICK k \in Nat \ {0} : k = itopk /\ k <= L /\ C >= 4 * k
  <2>1. PICK k \in Nat \ {0} : k = itopk
    BY HashSize
  <2>2. BEAM = 2 * k /\ C >= 2 * BEAM
    BY <1>3, <2>1, HashSize
  <2> QED
    BY <1>1, <1>3, <2>1, <2>2 DEF Crowded
<1>5. CASE (L + t) * 4 < C * 3
  <2>1. bh_rebuild_if_crowded(b) = b
    BY <1>1, <1>2, <1>3, <1>5 DEF bh_rebuild_if_crowded
  <2>2. 4 * t < 3 * C - 4 * k
    BY <1>4, <1>5
  <2> QED
    BY <1>2, <1>3, <1>4, <2>1, <2>2 DEF Crowded, GoodBeam, Counted
<1>6. CASE ~((L + t) * 4 < C * 3)
  <2>1. bh_rebuild_if_crowded(b) = Rehashed(b)
    BY <1>1, <1>2, <1>3, <1>6 DEF bh_rebuild_if_crowded
  <2>2. Upto(b, L, Rehashed(b))
    BY <1>1, Rebuilt DEF Crowded, Aligned
  <2>3. PICK g \in Hashes, u \in Int :
          /\ Rehashed(b) = [b EXCEPT !.hash = g, !.tombs = u]
          /\ GoodHash(g) /\ u <= 0
          /\ \A id \in WalkIds : Hashed(g, id) <=> Listed(b, L, id)
          /\ Cardinality(Used(g)) = L + u
    BY <2>2, Zenon DEF Upto
  <2>4. PICK c : c = [b EXCEPT !.hash = g, !.tombs = u]
    OBVIOUS
  <2>5. /\ c \in Beams /\ c.slots = b.slots /\ c.worst = b.worst
        /\ c.hash = g /\ c.tombs = u /\ DOMAIN b.slots = 1 .. L
    <3>1. b \in Beams
      BY DEF Crowded
    <3>2. DOMAIN b.slots = 1 .. L
      BY <1>1, <3>1 DEF Beams
    <3> QED
      BY <2>4, <3>1, <3>2 DEF Beams
  <2>6. \A id \in WalkIds : Listed(b, L, id) <=> Holds(c, id)
    BY <2>5 DEF Listed, Holds
  <2>7. 4 * u < 3 * C - 4 * k
    BY <1>4, <2>3
  <2>8. Aligned(c)
    BY <2>3, <2>5, <2>6 DEF Crowded, Aligned
  <2>9. Counted(c)
    BY <1>1, <1>3, <1>4, <2>3, <2>5, <2>7 DEF Crowded, Counted
  <2>10. GoodBeam(c)
    BY <2>3, <2>5, <2>8, <2>9 DEF Crowded, GoodBeam
  <2> QED
    BY <2>1, <2>3, <2>4, <2>5, <2>10
<1> QED
  BY <1>5, <1>6

\* A new id in a free slot.
LEMMA FreeSlotKeeps ==
  ASSUME walk \in Walks, HashesBeam, NEW b, GoodBeam(b), NEW id \in WalkIds,
         ~Holds(b, id), Len(b.slots) < BEAM
  PROVE  /\ GoodBeam(TakeFreeSlot(b, id))
         /\ \A i \in WalkIds : Holds(TakeFreeSlot(b, id), i) => Holds(b, i) \/ i = id
<1>1. PICK s \in Seq(Slots) : s = b.slots
  BY DEF GoodBeam, Beams, Slots
<1>2. PICK L \in Nat : L = Len(s) /\ DOMAIN s = 1 .. L
  OBVIOUS
<1>3. PICK s2 : s2 = Append(s, NewSlot(id))
  OBVIOUS
<1>4. /\ s2 \in Seq(Slots) /\ Len(s2) = L + 1 /\ DOMAIN s2 = 1 .. L + 1
      /\ \A i \in 1 .. L : s2[i] = s[i]
      /\ s2[L + 1].id = id
  <2>1. NewSlot(id) \in Slots /\ NewSlot(id).id = id
    BY DEF NewSlot, Slots
  <2> QED
    BY <1>2, <1>3, <2>1, AppendProperties
<1>5. PICK w : w = IF b.slots = <<>> \/ Closer(b.slots[b.worst].id, id)
                   THEN Len(b.slots) + 1 ELSE b.worst
  OBVIOUS
<1>6. w \in Nat /\ w \in DOMAIN s2
  BY <1>1, <1>2, <1>4, <1>5 DEF GoodBeam
<1>7. PICK j : j = [b EXCEPT !.slots = s2, !.admitted = TRUE, !.worst = w]
  OBVIOUS
<1>8. /\ j \in Beams /\ j.slots = s2 /\ j.worst = w /\ j.hash = b.hash /\ j.tombs = b.tombs
  BY <1>4, <1>6, <1>7 DEF GoodBeam, Beams, Slots
<1>9. TakeFreeSlot(b, id) = bh_insert(j, id)
  BY <1>1, <1>3, <1>5, <1>7 DEF TakeFreeSlot, GoodBeam, Beams
<1>10. PICK h : h = j.hash
  OBVIOUS
<1>11. GoodHash(h) /\ ~Hashed(h, id) /\ h = b.hash
  BY <1>8, <1>10 DEF GoodBeam, Aligned
<1>12. \E c \in Cells : h[c] \in Marks
  <2>1. \E c \in Cells : h[c] = Empty
    <3>1. /\ Cardinality(Used(h)) = L + b.tombs /\ L <= BEAM /\ b.tombs \in Int
          /\ 4 * b.tombs < 3 * bh_capacity - 4 * itopk
      BY <1>1, <1>2, <1>11 DEF GoodBeam, Counted, Beams
    <3> QED
      BY <3>1, RoomLeft
  <2> QED
    BY <2>1 DEF Marks
<1>13. Joined(j, id, bh_insert(j, id))
  BY <1>8, <1>10, <1>11, <1>12, Insertion
<1>14. PICK g \in Hashes, t \in Int :
         /\ bh_insert(j, id) = [j EXCEPT !.hash = g, !.tombs = t]
         /\ GoodHash(g) /\ t <= j.tombs
         /\ \A i \in WalkIds : Hashed(g, i) <=> Hashed(j.hash, i) \/ i = id
         /\ Cardinality(Used(g)) - t = Cardinality(Used(j.hash)) - j.tombs + 1
  BY <1>13, Zenon DEF Joined
<1>15. PICK c : c = [j EXCEPT !.hash = g, !.tombs = t]
  OBVIOUS
<1>16. /\ c \in Beams /\ c.slots = s2 /\ c.worst = w /\ c.hash = g /\ c.tombs = t
  BY <1>8, <1>15 DEF Beams
<1>17. \A i \in WalkIds : Holds(c, i) <=> Holds(b, i) \/ i = id
  BY <1>1, <1>2, <1>4, <1>16 DEF Holds
<1>18. Distinct(s2)
  BY SMTT(30), <1>1, <1>2, <1>4 DEF Distinct, Holds, GoodBeam, Aligned
<1>19. Aligned(c)
  BY <1>8, <1>14, <1>16, <1>17, <1>18 DEF Aligned, Distinct, GoodBeam
<1>20. Counted(c)
  <2>1. PICK u \in Nat : u = Cardinality(Used(g))
    BY UsedFinite
  <2>2. PICK v \in Nat : v = Cardinality(Used(b.hash))
    BY UsedFinite
  <2>3. PICK t1 \in Int : t1 = b.tombs
    BY DEF GoodBeam, Beams
  <2>4. v = L + t1 /\ 4 * t1 < 3 * bh_capacity - 4 * itopk
    BY <1>1, <1>2, <2>2, <2>3 DEF GoodBeam, Counted
  <2>5. u - t = v - t1 + 1 /\ t <= t1
    BY <1>8, <1>14, <2>1, <2>2, <2>3
  <2>6. u = L + 1 + t
    BY <2>4, <2>5
  <2>7. L + 1 <= BEAM
    BY <1>1, <1>2, HashSize
  <2>8. 4 * t < 3 * bh_capacity - 4 * itopk
    <3>1. PICK n \in Int : n = 3 * bh_capacity - 4 * itopk
      BY HashSize
    <3> QED
      BY <2>4, <2>5, <3>1
  <2> QED
    BY <1>4, <1>16, <2>1, <2>6, <2>7, <2>8 DEF Counted
<1>21. GoodBeam(c)
  BY <1>6, <1>14, <1>16, <1>19, <1>20 DEF GoodBeam
<1> QED
  BY <1>9, <1>14, <1>15, <1>17, <1>21

\* A new id in the place of the farthest.
LEMMA FarthestKeeps ==
  ASSUME walk \in Walks, HashesBeam, NEW b, GoodBeam(b), NEW id \in WalkIds,
         ~Holds(b, id), itopk <= Len(b.slots)
  PROVE  /\ GoodBeam(TakeFarthest(b, id))
         /\ \A i \in WalkIds : Holds(TakeFarthest(b, id), i) => Holds(b, i) \/ i = id
<1>1. PICK s \in Seq(Slots) : s = b.slots
  BY DEF GoodBeam, Beams, Slots
<1>2. PICK L \in Nat : L = Len(s) /\ DOMAIN s = 1 .. L /\ L # 0
  BY <1>1, HashSize
<1>3. b \in Beams /\ Distinct(s) /\ \A i \in 1 .. L : s[i] \in Slots
  BY <1>1, <1>2, ElementOfSeq DEF GoodBeam, Aligned, Distinct
<1>4. PICK w \in 1 .. L : w = b.worst
  BY <1>1, <1>2 DEF GoodBeam
<1>5. PICK e \in WalkIds : e = s[w].id
  BY <1>3 DEF Slots
<1>6. PICK k : k = Remember(b, e)
  OBVIOUS
<1>7. /\ k \in Beams /\ k.slots = s /\ k.hash = b.hash /\ k.tombs = b.tombs
  <2>1. CASE one_sub_group /\ walk.cache > 0
    <3>1. k = [b EXCEPT !.cache[Scatter16(e, walk.cache)] = e]
      BY <1>6, <2>1 DEF Remember
    <3>2. walk.cache \in Nat /\ e \in Int
      BY BeamWalkAssumption, HashSize DEF WalkIds
    <3> QED
      BY <1>1, <1>3, <3>1, <3>2 DEF Beams
  <2>2. CASE ~(one_sub_group /\ walk.cache > 0)
    BY <1>1, <1>3, <1>6, <2>2 DEF Remember
  <2> QED
    BY <2>1, <2>2
<1>8. PICK h : h = k.hash
  OBVIOUS
<1>9. GoodHash(h) /\ Hashed(h, e) /\ ~Hashed(h, id) /\ h = b.hash /\ e # id
  <2>1. Holds(b, e) /\ e # id
    BY <1>1, <1>2, <1>5 DEF Holds
  <2> QED
    BY <1>7, <1>8, <2>1 DEF GoodBeam, Aligned
<1>10. PICK g1 \in Hashes :
         /\ bh_remove(k, e) = [k EXCEPT !.hash = g1, !.tombs = k.tombs + 1]
         /\ GoodHash(g1)
         /\ \A i \in WalkIds : Hashed(g1, i) <=> Hashed(k.hash, i) /\ i # e
         /\ Used(g1) = Used(k.hash)
         /\ \E c \in Cells : g1[c] \in Marks
  <2>1. Evicted(k, e, bh_remove(k, e))
    BY <1>7, <1>8, <1>9, Eviction
  <2> QED
    BY <2>1, Zenon DEF Evicted
<1>11. PICK r : r = [k EXCEPT !.hash = g1, !.tombs = k.tombs + 1]
  OBVIOUS
<1>12. r \in Beams /\ r.slots = s /\ r.hash = g1 /\ r.tombs = b.tombs + 1
  <2>1. k.tombs + 1 \in Int
    BY <1>7 DEF Beams
  <2> QED
    BY <1>7, <1>11, <2>1 DEF Beams
<1>13. ~Hashed(g1, id)
  BY <1>8, <1>9, <1>10
<1>14. Joined(r, id, bh_insert(r, id))
  <2>1. g1 = r.hash
    BY <1>12
  <2> QED
    BY <1>10, <1>12, <1>13, <2>1, Insertion
<1>15. PICK g \in Hashes, t \in Int :
         /\ bh_insert(r, id) = [r EXCEPT !.hash = g, !.tombs = t]
         /\ GoodHash(g) /\ t <= r.tombs
         /\ \A i \in WalkIds : Hashed(g, i) <=> Hashed(r.hash, i) \/ i = id
         /\ Cardinality(Used(g)) - t = Cardinality(Used(r.hash)) - r.tombs + 1
  BY <1>14, Zenon DEF Joined
<1>16. PICK s2 : s2 = [s EXCEPT ![w] = NewSlot(id)]
  OBVIOUS
<1>17. /\ s2 \in Seq(Slots) /\ Len(s2) = L /\ DOMAIN s2 = 1 .. L
       /\ s2[w].id = id /\ \A i \in 1 .. L : i # w => s2[i] = s[i]
  <2>1. NewSlot(id) \in Slots /\ NewSlot(id).id = id
    BY DEF NewSlot, Slots
  <2> QED
    BY <1>2, <1>16, <2>1, ExceptSeq
<1>18. Distinct(s2)
  BY <1>1, <1>2, <1>3, <1>17 DEF Distinct, Holds
<1>19. PICK f \in 1 .. L : f = Farthest(s2)
  BY <1>2, <1>17, <1>18, FarthestIn
<1>20. PICK q : q = [r EXCEPT !.hash = g, !.tombs = t, !.slots = s2, !.admitted = TRUE,
                              !.worst = f]
  OBVIOUS
<1>21. /\ q \in Beams /\ q.slots = s2 /\ q.worst = f /\ q.hash = g /\ q.tombs = t
  <2>1. f \in Nat
    OBVIOUS
  <2> QED
    BY <1>12, <1>17, <1>20, <2>1 DEF Beams, Slots
<1>22. TakeFarthest(b, id) = bh_rebuild_if_crowded(q)
  <2>1. b.slots[b.worst].id = e
    BY <1>1, <1>4, <1>5
  <2>2. bh_insert(bh_remove(k, e), id) = [r EXCEPT !.hash = g, !.tombs = t]
    BY <1>10, <1>11, <1>15
  <2>3. [b.slots EXCEPT ![b.worst] = NewSlot(id)] = s2
    BY <1>1, <1>4, <1>16
  <2>4. q = [[r EXCEPT !.hash = g, !.tombs = t] EXCEPT !.slots = s2, !.admitted = TRUE,
                                                       !.worst = Farthest(s2)]
    BY <1>12, <1>19, <1>20 DEF Beams
  <2> QED
    BY <1>6, <2>1, <2>2, <2>3, <2>4, Zenon DEF TakeFarthest
<1>23. \A i \in WalkIds : Holds(q, i) <=> (Holds(b, i) /\ i # e) \/ i = id
  BY SMTT(30), <1>1, <1>2, <1>3, <1>5, <1>17, <1>21 DEF Holds, Distinct
<1>24. Aligned(q)
  <2>1. \A i \in WalkIds : Hashed(g, i) <=> (Hashed(h, i) /\ i # e) \/ i = id
    BY <1>8, <1>10, <1>12, <1>15
  <2>2. \A i \in WalkIds : Hashed(h, i) <=> Holds(b, i)
    BY <1>9 DEF GoodBeam, Aligned
  <2> QED
    BY <1>18, <1>21, <1>23, <2>1, <2>2 DEF Aligned, Distinct
<1>25. Cardinality(Used(g)) = L + t
  <2>1. PICK u \in Nat : u = Cardinality(Used(g))
    BY UsedFinite
  <2>2. PICK v \in Nat : v = Cardinality(Used(h))
    BY UsedFinite
  <2>3. PICK t1 \in Int : t1 = b.tombs
    BY DEF GoodBeam, Beams
  <2>4. v = L + t1
    BY <1>1, <1>2, <1>9, <2>2, <2>3 DEF GoodBeam, Counted
  <2>5. u - t = v - (t1 + 1) + 1
    BY <1>8, <1>10, <1>12, <1>15, <2>1, <2>2, <2>3
  <2> QED
    BY <2>1, <2>4, <2>5
<1>26. Crowded(q)
  <2>1. L <= BEAM /\ itopk <= L
    BY <1>1, <1>2 DEF GoodBeam, Counted
  <2> QED
    BY <1>15, <1>17, <1>21, <1>24, <1>25, <2>1 DEF Crowded
<1>27. GoodBeam(TakeFarthest(b, id)) /\ TakeFarthest(b, id).slots = q.slots
  BY <1>22, <1>26, RebuildKeeps
<1> QED
  BY <1>23, <1>27 DEF Holds

\* The cache of seen ids is no part of what makes a beam good.
LEMMA RememberKeeps ==
  ASSUME walk \in Walks, NEW b, GoodBeam(b), NEW id \in WalkIds
  PROVE  GoodBeam(Remember(b, id)) /\ \A i : Holds(Remember(b, id), i) <=> Holds(b, i)
<1>1. CASE one_sub_group /\ walk.cache > 0
  <2>1. PICK c : c = [b EXCEPT !.cache[Scatter16(id, walk.cache)] = id]
    OBVIOUS
  <2>2. Remember(b, id) = c
    BY <1>1, <2>1 DEF Remember
  <2>3. walk.cache \in Nat /\ id \in Int
    BY BeamWalkAssumption, HashSize DEF WalkIds
  <2>4. /\ c \in Beams /\ c.slots = b.slots /\ c.hash = b.hash /\ c.tombs = b.tombs
        /\ c.worst = b.worst
    BY <2>1, <2>3 DEF GoodBeam, Beams
  <2> QED
    BY <2>2, <2>4 DEF GoodBeam, Aligned, Counted, Holds
<1>2. CASE ~(one_sub_group /\ walk.cache > 0)
  BY <1>2 DEF Remember
<1> QED
  BY <1>1, <1>2

\* Whatever becomes of a candidate, the beam stays good.
LEMMA AdmitKeeps ==
  ASSUME walk \in Walks, HashesBeam, NEW b, GoodBeam(b), NEW id \in WalkIds, ~Holds(b, id)
  PROVE  /\ GoodBeam(Admit(b, id))
         /\ \A i \in WalkIds : Holds(Admit(b, id), i) => Holds(b, i) \/ i = id
<1>1. PICK k \in Nat \ {0} : k = itopk /\ BEAM = 2 * k
  BY HashSize
<1>2. PICK m \in Nat : m = capacity /\ k <= m /\ m <= BEAM
  BY <1>1 DEF capacity
<1>3. PICK L \in Nat : L = Len(b.slots)
  BY DEF GoodBeam, Beams
<1>4. CASE L < m
  <2>1. Len(b.slots) < BEAM /\ Admit(b, id) = TakeFreeSlot(b, id)
    BY <1>1, <1>2, <1>3, <1>4 DEF Admit
  <2> QED
    BY <2>1, FreeSlotKeeps
<1>5. CASE ~(L < m)
  <2>1. itopk <= Len(b.slots)
    BY <1>1, <1>2, <1>3, <1>5
  <2>2. Admit(b, id) = TakeFarthest(b, id) \/ Admit(b, id) = b
    BY <1>2, <1>3, <1>5 DEF Admit
  <2> QED
    BY <2>1, <2>2, FarthestKeeps
<1> QED
  BY <1>4, <1>5

-----------------------------------------------------------------------------
(* The theorem.                                                            *)

\* What depends on the walk alone stays as long as the walk does.
LEMMA SameWalk ==
  ASSUME walk' = walk
  PROVE  /\ bh_capacity' = bh_capacity /\ itopk' = itopk /\ BEAM' = BEAM
         /\ Cells' = Cells /\ WalkIds' = WalkIds /\ Hashes' = Hashes /\ Beams' = Beams
         /\ \A id, j : Probe(id, j)' = Probe(id, j)
<1>1. itopk' = itopk /\ BEAM' = BEAM
  BY DEF itopk, BEAM
<1>2. bh_capacity' = bh_capacity
  BY <1>1 DEF bh_capacity
<1>3. Cells' = Cells /\ WalkIds' = WalkIds
  BY <1>2 DEF Cells, WalkIds
<1>4. Hashes' = Hashes
  BY <1>3 DEF Hashes
<1>5. Beams' = Beams
  BY <1>3, <1>4 DEF Beams
<1>6. \A id, j : Probe(id, j)' = Probe(id, j)
  BY <1>2 DEF Probe
<1> QED
  BY <1>1, <1>2, <1>3, <1>4, <1>5, <1>6

\* And so does what makes a beam good.
LEMMA GoodBeamSame ==
  ASSUME walk' = walk, NEW b, GoodBeam(b)
  PROVE  GoodBeam(b)'
<1>1. GoodHash(b.hash)'
  BY SameWalk DEF GoodBeam, GoodHash, Reached
<1>2. Aligned(b)'
  BY SameWalk DEF GoodBeam, Aligned, Hashed, Holds
<1>3. Counted(b)'
  BY SameWalk DEF GoodBeam, Counted, Used
<1> QED
  BY <1>1, <1>2, <1>3, SameWalk DEF GoodBeam

\* A walk begins with a good beam.
LEMMA NewBeam ==
  ASSUME walk \in Walks
  PROVE  GoodBeam(NoBeam)
<1>1. walk.cache \in Nat
  BY BeamWalkAssumption
<1>2. /\ NoBeam \in Beams /\ NoBeam.slots = <<>> /\ NoBeam.hash = EmptyHash
      /\ NoBeam.tombs = 0
  BY <1>1, NoHash DEF NoBeam, Beams, Empty
<1>3. Aligned(NoBeam)
  BY <1>2, NoHash DEF Aligned, Holds
<1>4. Counted(NoBeam)
  <2>1. PICK k \in Nat \ {0} : k = itopk /\ BEAM = 2 * k
    BY HashSize
  <2>2. PICK C \in Nat : C = bh_capacity /\ C >= 4 * k
    BY <2>1, HashSize
  <2>3. 4 * 0 < 3 * C - 4 * k
    BY <2>1, <2>2
  <2>4. Cardinality(Used(NoBeam.hash)) = 0
    BY <1>2, NoHash, Zenon
  <2> QED
    BY <1>2, <2>1, <2>2, <2>3, <2>4 DEF Counted
<1> QED
  BY <1>2, <1>3, <1>4, NoHash DEF GoodBeam

\* Only rows of the walk get past the mask.
LEMMA MaskedIds ==
  ASSUME walk \in Walks, NEW n \in Nat, NEW ids, DOMAIN ids = 1 .. n
  PROVE  Masked(ids) \in Seq(WalkIds \cup {-1})
<1>1. Masked(ids) = [i \in 1 .. n |-> IF allowed(ids[i]) THEN ids[i] ELSE -1]
  BY DEF Masked
<1>2. \A i \in 1 .. n : (IF allowed(ids[i]) THEN ids[i] ELSE -1) \in WalkIds \cup {-1}
  BY DEF allowed, WalkIds
<1> QED
  BY <1>1, <1>2

\* And so they do with the seeds.
LEMMA SeedsMasked ==
  ASSUME walk \in Walks
  PROVE  Masked(Seeds) \in Seq(WalkIds \cup {-1})
<1>1. cagra_seed_count \in Nat
  BY BeamWalkAssumption DEF cagra_seed_count, Least, Most, search_width
<1>2. DOMAIN Seeds = 1 .. cagra_seed_count
  BY DEF Seeds
<1> QED
  BY <1>1, <1>2, MaskedIds

\* The members of the hash are those of the beam.
LEMMA Members ==
  ASSUME BeamInv
  PROVE  MembersAreTheBeam
<1> SUFFICES ASSUME engine = "sub_beam"
             PROVE  /\ \E slot \in DOMAIN beam.hash : beam.hash[slot] = Empty
                    /\ \A id \in 0 .. walk.n - 1 : bh_contains(beam, id) <=> InBeam(id)
  BY DEF MembersAreTheBeam
<1>1. walk \in Walks /\ GoodBeam(beam)
  BY DEF BeamInv
<1>2. PICK h : h = beam.hash
  OBVIOUS
<1>3. GoodHash(h) /\ DOMAIN h = Cells
  BY <1>1, <1>2 DEF GoodBeam, GoodHash, Hashes
<1>4. \E s \in Cells : h[s] = Empty
  <2>1. PICK L \in Nat : L = Len(beam.slots)
    BY <1>1 DEF GoodBeam, Beams
  <2>2. PICK t \in Int : t = beam.tombs
    BY <1>1 DEF GoodBeam, Beams
  <2>3. /\ L <= BEAM /\ Cardinality(Used(h)) = L + t
        /\ 4 * t < 3 * bh_capacity - 4 * itopk
    BY <1>1, <1>2, <2>1, <2>2 DEF GoodBeam, Counted
  <2> QED
    BY <1>1, <2>3, RoomLeft
<1>5. ASSUME NEW id \in WalkIds PROVE bh_contains(beam, id) <=> InBeam(id)
  <2>1. bh_contains(beam, id) <=> Hashed(h, id)
    BY <1>1, <1>2, <1>3, <1>4, HashContains
  <2>2. Hashed(h, id) <=> Holds(beam, id)
    BY <1>1, <1>2 DEF GoodBeam, Aligned
  <2> QED
    BY <2>1, <2>2 DEF InBeam, Holds
<1> QED
  BY <1>2, <1>3, <1>4, <1>5 DEF WalkIds

\* What a step of the engine with a hash starts from.
LEMMA Facts ==
  ASSUME BeamInv, engine = "sub_beam"
  PROVE  walk \in Walks /\ GoodBeam(beam) /\ GoodTile /\ HashesBeam /\ one_sub_group /\ beam_dedup
BY DEF BeamInv, HashesBeam, one_sub_group, beam_dedup

\* A tile takes what its beam does not hold, each id once.
LEMMA CommitKeeps ==
  ASSUME BeamInv, CommitTile
  PROVE  BeamInv'
<1>1. UNCHANGED <<walk, engine, step, beam>>
  BY DEF CommitTile
<1> SUFFICES ASSUME engine = "sub_beam" PROVE GoodBeam(beam)' /\ GoodTile'
  BY <1>1 DEF BeamInv
<1>2. walk \in Walks /\ GoodBeam(beam) /\ GoodTile /\ one_sub_group /\ beam_dedup
  BY Facts
<1>3. GoodBeam(beam)'
  <2>1. PICK b : b = beam
    OBVIOUS
  <2>2. GoodBeam(b)' /\ b = beam'
    BY <1>1, <1>2, <2>1, GoodBeamSame
  <2> QED
    BY <2>2
<1>4. PICK f \in Seq(WalkIds \cup {-1}) : f = frontier
  BY <1>2 DEF GoodTile
<1>5. PICK n \in 0 .. Len(f) : n = TileSize
  <2>1. walk.tile \in Nat
    BY <1>2, BeamWalkAssumption
  <2> QED
    BY <1>4, <2>1 DEF TileSize, Least
<1>6. PICK ids : ids = SubSeq(f, 1, n)
  OBVIOUS
<1>7. /\ ids \in Seq(WalkIds \cup {-1}) /\ DOMAIN ids = 1 .. n
      /\ \A i \in 1 .. n : ids[i] \in WalkIds \cup {-1}
  <2>1. ids \in Seq(WalkIds \cup {-1}) /\ Len(ids) = n
    BY <1>6, SubSeqProperties
  <2> QED
    BY <2>1, ElementOfSeq
<1>8. tile' = [i \in Kept(ids) |-> ids[i]]
  BY <1>4, <1>5, <1>6 DEF CommitTile
<1>9. frontier' \in Seq(WalkIds \cup {-1})
  <2>1. frontier' = SubSeq(f, n + 1, Len(f))
    BY <1>4, <1>5 DEF CommitTile
  <2> QED
    BY <2>1, SubSeqProperties
<1>10. ASSUME NEW i \in Kept(ids) PROVE i \in 1 .. n /\ ids[i] \in WalkIds /\ ~Holds(beam, ids[i])
  <2>1. i \in 1 .. n /\ ids[i] >= 0 /\ ~Known(ids[i])
    BY <1>7 DEF Kept
  <2>2. ids[i] \in WalkIds
    BY <1>7, <2>1
  <2>3. ~bh_contains(beam, ids[i])
    BY <1>2, <2>1 DEF Known
  <2>4. ~InBeam(ids[i])
    BY <2>2, <2>3, Members DEF MembersAreTheBeam, WalkIds
  <2> QED
    BY <2>1, <2>2, <2>4 DEF InBeam, Holds
<1>11. ASSUME NEW i \in Kept(ids), NEW j \in Kept(ids), ids[i] = ids[j] PROVE i = j
  <2>1. i \in 1 .. n /\ j \in 1 .. n
    BY <1>10
  <2>2. ~(i < j) /\ ~(j < i)
    <3>1. \A a, c \in 1 .. n : a < c => a \in 1 .. c - 1
      OBVIOUS
    <3> QED
      BY <1>11, <2>1, <3>1 DEF Kept
  <2> QED
    BY <2>1, <2>2
<1>12. GoodTile'
  <2>1. DOMAIN tile' = Kept(ids) /\ \A i \in Kept(ids) : tile'[i] = ids[i]
    BY <1>8
  <2>2. Kept(ids) \subseteq Nat
    <3>1. ASSUME NEW i \in Kept(ids) PROVE i \in Nat
      BY <1>10
    <3> QED
      BY <3>1
  <2>3. WalkIds' = WalkIds /\ \A i : Holds(beam, i)' <=> Holds(beam, i)
    BY <1>1, SameWalk DEF Holds
  <2> QED
    BY <1>1, <1>9, <1>10, <1>11, <2>1, <2>2, <2>3 DEF GoodTile, Holds
<1> QED
  BY <1>3, <1>12

\* A candidate of the tile changes the beam as Admit and Remember do.
LEMMA ScoreKeeps ==
  ASSUME BeamInv, ScoreNext
  PROVE  BeamInv'
<1>1. UNCHANGED <<walk, engine, step, frontier>>
  BY DEF ScoreNext
<1> SUFFICES ASSUME engine = "sub_beam" PROVE GoodBeam(beam)' /\ GoodTile'
  BY <1>1 DEF BeamInv
<1>2. walk \in Walks /\ GoodBeam(beam) /\ GoodTile /\ HashesBeam
  BY Facts
<1>3. PICK i \in DOMAIN tile :
        /\ tile' = [j \in DOMAIN tile \ {i} |-> tile[j]]
        /\ beam' = IF gate = -1 \/ Closer(tile[i], gate)
                   THEN Admit([beam EXCEPT !.survivors = @ + 1], tile[i])
                   ELSE Remember(beam, tile[i])
  BY DEF ScoreNext
<1>4. PICK id \in WalkIds : id = tile[i] /\ ~Holds(beam, id)
  BY <1>2 DEF GoodTile
<1>5. PICK b : b = [beam EXCEPT !.survivors = @ + 1]
  OBVIOUS
<1>6. GoodBeam(b) /\ \A x : Holds(b, x) <=> Holds(beam, x)
  <2>1. /\ b \in Beams /\ b.slots = beam.slots /\ b.hash = beam.hash /\ b.tombs = beam.tombs
        /\ b.worst = beam.worst
    BY <1>2, <1>5 DEF GoodBeam, Beams
  <2> QED
    BY <1>2, <2>1 DEF GoodBeam, Aligned, Counted, Holds
<1>7. PICK c : /\ c = beam' /\ GoodBeam(c)
               /\ \A x \in WalkIds : Holds(c, x) => Holds(beam, x) \/ x = id
  <2>1. CASE gate = -1 \/ Closer(tile[i], gate)
    <3>1. beam' = Admit(b, id)
      BY <1>3, <1>4, <1>5, <2>1
    <3>2. ~Holds(b, id)
      BY <1>4, <1>6
    <3> QED
      BY <1>2, <1>6, <3>1, <3>2, AdmitKeeps
  <2>2. CASE ~(gate = -1 \/ Closer(tile[i], gate))
    <3>1. beam' = Remember(beam, id)
      BY <1>3, <1>4, <2>2
    <3> QED
      BY <1>2, <3>1, RememberKeeps
  <2> QED
    BY <2>1, <2>2
<1>8. GoodBeam(beam)'
  <2>1. GoodBeam(c)'
    BY <1>1, <1>7, GoodBeamSame
  <2> QED
    BY <1>7, <2>1
<1>9. GoodTile'
  <2>1. /\ DOMAIN tile' = DOMAIN tile \ {i}
        /\ \A j \in DOMAIN tile \ {i} : tile'[j] = tile[j]
    BY <1>3
  <2>2. WalkIds' = WalkIds
    BY <1>1, SameWalk
  <2>3. ASSUME NEW j \in DOMAIN tile' PROVE tile'[j] \in WalkIds /\ ~Holds(c, tile'[j])
    <3>1. j \in DOMAIN tile /\ j # i /\ tile'[j] = tile[j]
      BY <2>1
    <3>2. tile[j] \in WalkIds /\ ~Holds(beam, tile[j]) /\ tile[j] # id
      BY <1>2, <1>4, <3>1 DEF GoodTile
    <3> QED
      BY <1>7, <3>1, <3>2
  <2>4. \A j, m \in DOMAIN tile' : tile'[j] = tile'[m] => j = m
    BY <1>2, <2>1 DEF GoodTile
  <2>5. \A x : Holds(c, x) <=> Holds(beam, x)'
    BY <1>7 DEF Holds
  <2>6. frontier' \in Seq(WalkIds \cup {-1}) /\ DOMAIN tile' \subseteq Nat
    BY <1>1, <1>2, <2>1 DEF GoodTile
  <2> QED
    BY <2>2, <2>3, <2>4, <2>5, <2>6 DEF GoodTile, Holds
<1> QED
  BY <1>8, <1>9

\* A pick marks slots of the beam and takes their neighbours for the frontier.
LEMMA PickKeeps ==
  ASSUME BeamInv, Pick
  PROVE  BeamInv'
<1>1. UNCHANGED <<walk, engine, tile>> /\ step # "idle" /\ step' # "idle"
  BY Zenon DEF Pick
<1> SUFFICES ASSUME engine = "sub_beam" PROVE GoodBeam(beam)' /\ GoodTile'
  BY <1>1 DEF BeamInv
<1>2. walk \in Walks /\ GoodBeam(beam) /\ GoodTile
  BY Facts
<1>3. PICK c : c = beam' /\ GoodBeam(c) /\ \A x : Holds(c, x) <=> Holds(beam, x)
  <2>1. CASE beam' = beam
    BY <1>2, <2>1
  <2>2. CASE beam' # beam
    <3>1. PICK ps : ps = ToSet(Picks)
      OBVIOUS
    <3>2. PICK s \in Seq(Slots) : s = beam.slots
      BY <1>2 DEF GoodBeam, Beams, Slots
    <3>3. PICK s2 : s2 = [i \in DOMAIN s |-> [s[i] EXCEPT !.expanded = @ \/ i \in ps]]
      BY Zenon
    <3>4. beam' = [beam EXCEPT !.admitted = FALSE, !.slots = s2]
      <4>1. s2 = WithPicksExpanded
        BY <3>1, <3>2, <3>3 DEF WithPicksExpanded
      <4> QED
        BY Zenon, <2>2, <4>1 DEF Pick
    <3>5. /\ s2 \in Seq(Slots) /\ Len(s2) = Len(s) /\ DOMAIN s2 = DOMAIN s
          /\ \A i \in DOMAIN s : s2[i].id = s[i].id
      <4>1. DOMAIN s = 1 .. Len(s) /\ Len(s) \in Nat /\ \A i \in 1 .. Len(s) : s[i] \in Slots
        BY <3>2, ElementOfSeq
      <4>2. ASSUME NEW i \in 1 .. Len(s)
            PROVE  /\ [s[i] EXCEPT !.expanded = @ \/ i \in ps] \in Slots
                   /\ [s[i] EXCEPT !.expanded = @ \/ i \in ps].id = s[i].id
        BY Zenon, <4>1 DEF Slots
      <4>3. PICK L \in Nat : L = Len(s) /\ DOMAIN s = 1 .. L
        BY Zenon, <4>1
      <4>4. s2 \in [1 .. L -> Slots] /\ \A i \in 1 .. L : s2[i].id = s[i].id
        BY <3>3, <4>2, <4>3
      <4>5. s2 \in Seq(Slots) /\ Len(s2) = L
        BY <4>4
      <4> QED
        BY <4>3, <4>4, <4>5
    <3>6. /\ beam' \in Beams /\ beam'.slots = s2 /\ beam'.worst = beam.worst
          /\ beam'.hash = beam.hash /\ beam'.tombs = beam.tombs
      BY <1>2, <3>4, <3>5 DEF GoodBeam, Beams, Slots
    <3>7. s2 # <<>> => s # <<>>
      BY <3>5
    <3>8. \A x : Holds(beam', x) <=> Holds(beam, x)
      BY <3>2, <3>5, <3>6 DEF Holds
    <3>9. Aligned(beam')
      BY <1>2, <3>2, <3>5, <3>6, <3>8 DEF GoodBeam, Aligned
    <3>10. Counted(beam')
      BY <1>2, <3>2, <3>5, <3>6 DEF GoodBeam, Counted
    <3>11. GoodBeam(beam')
      BY <1>2, <3>2, <3>5, <3>6, <3>7, <3>9, <3>10 DEF GoodBeam
    <3> QED
      BY <3>8, <3>11
  <2> QED
    BY <2>1, <2>2
<1>4. GoodBeam(beam)'
  <2>1. GoodBeam(c)'
    BY <1>1, <1>3, GoodBeamSame
  <2> QED
    BY <1>3, <2>1
<1>5. frontier' \in Seq(WalkIds \cup {-1})
  <2>1. CASE frontier' = frontier
    BY <1>2, <2>1 DEF GoodTile
  <2>2. CASE frontier' # frontier
    <3>1. PICK n : n = PickCount * DEG
      OBVIOUS
    <3>2. PICK ids : ids = [e \in 1 .. n |->
            walk.graph[beam.slots[Picks[((e - 1) \div DEG) + 1]].id + 1][((e - 1) % DEG) + 1]]
      BY Zenon
    <3>3. frontier' = Masked(ids)
      BY Zenon, <2>2, <3>1, <3>2 DEF Pick
    <3>4. n \in Nat
      <4>1. DEG \in Nat
        <5>1. 1 \in 1 .. walk.n /\ walk.graph \in [1 .. walk.n -> Seq(Int)]
          BY <1>2, BeamWalkAssumption
        <5>2. walk.graph[1] \in Seq(Int)
          BY <5>1
        <5> QED
          BY <5>2 DEF DEG
      <4>2. PickCount \in Nat
        <5>1. search_width \in Nat
          BY <1>2, BeamWalkAssumption DEF search_width, Most
        <5>2. Cardinality(Unexpanded) \in Nat
          <6>1. PICK L \in Nat : DOMAIN beam.slots = 1 .. L
            BY <1>2 DEF GoodBeam, Beams
          <6>2. IsFiniteSet(1 .. L) /\ Unexpanded \subseteq 1 .. L
            BY <6>1, FS_Interval DEF Unexpanded
          <6> QED
            BY <6>2, FS_Subset, FS_CardinalityType
        <5> QED
          BY <5>1, <5>2 DEF PickCount, Least
      <4> QED
        BY <3>1, <4>1, <4>2
    <3>5. DOMAIN ids = 1 .. n
      BY <3>2
    <3> QED
      BY <1>2, <3>3, <3>4, <3>5, MaskedIds
  <2> QED
    BY <2>1, <2>2
<1>6. GoodTile'
  <2>1. WalkIds' = WalkIds
    BY <1>1, SameWalk
  <2>2. \A x : Holds(beam, x)' <=> Holds(beam, x)
    BY <1>3 DEF Holds
  <2> QED
    BY <1>1, <1>2, <1>5, <2>1, <2>2 DEF GoodTile, Holds
<1> QED
  BY Zenon, <1>4, <1>6

\* A step that leaves the beam and its tile alone.
LEMMA IdleKeeps ==
  ASSUME BeamInv, UNCHANGED <<walk, engine, frontier, tile, beam>>,
         step = "idle" <=> step' = "idle"
  PROVE  BeamInv'
<1> SUFFICES ASSUME engine = "sub_beam" PROVE GoodBeam(beam)' /\ GoodTile'
  BY DEF BeamInv
<1>1. walk \in Walks /\ GoodBeam(beam) /\ GoodTile
  BY Facts
<1>2. GoodBeam(beam)'
  <2>1. PICK b : b = beam
    OBVIOUS
  <2>2. GoodBeam(b)' /\ b = beam'
    BY <1>1, <2>1, GoodBeamSame
  <2> QED
    BY <2>2
<1>3. GoodTile'
  BY <1>1, SameWalk DEF GoodTile, Holds
<1> QED
  BY <1>2, <1>3

\* The next engine begins with an empty beam and the seeds.
LEMMA DoneKeeps ==
  ASSUME BeamInv, Done
  PROVE  BeamInv'
<1>1. walk' = walk /\ walk \in Walks /\ step' # "idle"
  BY DEF Done, BeginWalk, BeamInv
<1> SUFFICES ASSUME engine' = "sub_beam" PROVE GoodBeam(beam)' /\ GoodTile'
  BY <1>1 DEF BeamInv
<1>2. PICK e : BeginWalk(e)
  BY DEF Done
<1>3. e = "sub_beam"
  BY <1>2 DEF BeginWalk
<1>4. GoodBeam(beam)'
  <2>1. NoBeam' = NoBeam
    BY <1>1, SameWalk DEF NoBeam, EmptyHash
  <2>2. PICK b : b = NoBeam /\ b = beam'
    BY <1>2, <2>1 DEF BeginWalk
  <2>3. GoodBeam(b)'
    BY <1>1, <2>2, NewBeam, GoodBeamSame
  <2> QED
    BY <2>2, <2>3
<1>5. frontier' \in Seq(WalkIds' \cup {-1})
  <2>1. cagra_seed_count' = cagra_seed_count
    BY <1>1 DEF cagra_seed_count, search_width
  <2>2. Seeds' = Seeds
    BY <1>1, <2>1 DEF Seeds
  <2>3. Masked(Seeds)' = Masked(Seeds)
    BY <1>1, <2>2 DEF Masked, allowed
  <2> QED
    BY <1>1, <1>2, <1>3, <2>3, SeedsMasked, SameWalk DEF BeginWalk
<1>6. GoodTile'
  <2>1. tile' = <<>>
    BY <1>2 DEF BeginWalk
  <2> QED
    BY <1>5, <2>1 DEF GoodTile
<1> QED
  BY <1>4, <1>6

\* The hash of a sub-group holds the ids of its beam and no others, and always
\* has an empty slot, for every graph, beam, tile and cache the kernel is given:
\* whatever was admitted, evicted and hashed anew before.
THEOREM TheHashIsTheBeam == BeamSpec => []MembersAreTheBeam
<1>1. BeamInit => BeamInv
  BY DEF BeamInit, BeamInv
<1>2. BeamInv /\ [BeamNext]_beamVars => BeamInv'
  <2> SUFFICES ASSUME BeamInv, [BeamNext]_beamVars PROVE BeamInv'
    OBVIOUS
  <2>1. CASE BeginQuery
    BY <2>1 DEF BeginQuery, BeginWalk, BeamInv
  <2>2. CASE CommitTile
    BY <2>2, CommitKeeps
  <2>3. CASE ScoreNext
    BY <2>3, ScoreKeeps
  <2>4. CASE SeedsDone
    BY <2>4, IdleKeeps DEF SeedsDone
  <2>5. CASE Pick
    BY <2>5, PickKeeps
  <2>6. CASE TurnDone
    BY <2>6, IdleKeeps DEF TurnDone
  <2>7. CASE HostSeeds
    BY <2>7, IdleKeeps DEF HostSeeds, ScoreSeeds
  <2>8. CASE PqSeeds
    BY <2>8, IdleKeeps DEF PqSeeds, ScoreSeeds
  <2>9. CASE HostTurn
    BY <2>9, IdleKeeps DEF HostTurn, Expand
  <2>10. CASE PqTurn
    BY <2>10, IdleKeeps DEF PqTurn, Expand
  <2>11. CASE HostStops
    BY <2>11, IdleKeeps DEF HostStops
  <2>12. CASE Done
    BY <2>12, DoneKeeps
  <2>13. CASE UNCHANGED beamVars
    BY <2>13, IdleKeeps DEF beamVars
  <2> QED
    BY <2>1, <2>2, <2>3, <2>4, <2>5, <2>6, <2>7, <2>8, <2>9, <2>10, <2>11, <2>12, <2>13
       DEF BeamNext
<1> QED
  BY <1>1, <1>2, Members, PTL DEF BeamSpec
=============================================================================
