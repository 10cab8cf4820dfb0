---------------------------- MODULE KernelProofs ----------------------------
(***************************************************************************)
(* Theorems about the computations a call is cut into, and about the pool  *)
(* whose threads run the loops of the CPU.                                 *)
(*                                                                         *)
(* The pool, for every set of callers and every finite set of workers:     *)
(* nobody is forgotten, and the pool implements ParallelFor.  At most one  *)
(* caller has published its loop, for it holds run_mutex.  A worker that   *)
(* has not left that loop is pending: it has not noticed the generation,   *)
(* or it is between joining the loop and retiring.  `active` counts the    *)
(* pending workers, so the caller that sees it at zero knows that no       *)
(* thread but itself will touch `next` or fn again, and the next caller    *)
(* may overwrite them.                                                     *)
(*                                                                         *)
(* The kernels rest on one notion, the first k of a set under a strict     *)
(* order (Firsts): it determines the list, and it is kept when a member is *)
(* put where it belongs.                                                   *)
(*                                                                         *)
(* NN-Descent, for every dataset, degree, number of turns, priority and    *)
(* size of chunk: each route returns, for every row, degree different      *)
(* other rows, nearest first (BuildsRankOtherRows), and what the kernels   *)
(* leave does not depend on the order of the inboxes                       *)
(* (InboxOrderNeverMatters).                                               *)
(*                                                                         *)
(* The sorting network sorts 1, 2, 4, ... 256 slots under                  *)
(* every strict order (NetworkSorts): each stage of a width halves what is *)
(* out of order in a block, for an input of any values, which is shown     *)
(* with the blocks of zeros and ones that a threshold leaves.              *)
(*                                                                         *)
(* The scan of the IVF-PQ lists, for every batch of tasks: what a group    *)
(* holds after a turn, with what it stores and what the merge reads, are   *)
(* the first k of the rows seen so far, so the answer of a query is the    *)
(* nearest of all its candidates (ScanTakesTheNearest).                    *)
(*                                                                         *)
(* The pruning of a CAGRA graph, for every ranked graph and degree: the    *)
(* sorted rows answer a look-up as the host's search does, the forward and *)
(* reverse keys order as the host's candidates do, and the keys that       *)
(* arrive in any order leave the same best ones, so the device returns the *)
(* graph of the host (GpuPrunesAsTheHost).                                 *)
(***************************************************************************)
EXTENDS KernelInvariants, FiniteSetTheorems, SequenceTheorems, WellFoundedInduction, TLAPS

-----------------------------------------------------------------------------
(* The pending workers. *)

LEMMA PendingFinite == IsFiniteSet(Pending)
  BY PoolAssumption, FS_Subset DEF Pending

\* A step that changes neither seen, generation nor whether a worker is inside
\* the loop keeps the pending workers, and so the count.
LEMMA PendingKept ==
  ASSUME NobodyForgotten, UNCHANGED <<active, generation, seen>>,
         \A w \in Workers : pc[w] \in {"grab", "item", "retire"}
                              <=> pc'[w] \in {"grab", "item", "retire"}
  PROVE  Pending' = Pending /\ NobodyForgotten'
<1>1. Pending' = Pending
  BY DEF Pending
<1>2. QED   BY <1>1 DEF NobodyForgotten

LEMMA OnePublisher ==
  ASSUME MutexInv, NEW c \in Callers, runMutex = c
  PROVE  Publishers \subseteq {c}
  BY DEF MutexInv, Publishers

-----------------------------------------------------------------------------
(* The invariant. *)

LEMMA InitKeeps == Init => IInv
<1> SUFFICES ASSUME Init PROVE IInv   OBVIOUS
<1>1. TypeOK
  <2>1. PcOK
    BY PoolAssumption DEF Init, PcOK, CallerPc, WorkerPc, Threads
  <2>2. \A c \in Callers : fn[c] = c
    BY DEF Init, Threads
  <2>3. fn \in [Threads -> Callers \cup {NoOne}]
    BY DEF Init
  <2>4. /\ hi \in [Threads -> Int] /\ item \in [Threads -> Int]
        /\ lo \in [Callers -> Int] /\ seen \in [Workers -> Nat]
    BY DEF Init
  <2>5. left \in [Callers -> SUBSET Int]
    BY DEF Init
  <2>6. /\ runMutex \in Callers \cup {NoOne} /\ body \in Callers \cup {NoOne}
        /\ next \in Int /\ end \in Int /\ active \in Nat /\ generation \in Nat
        /\ calls \in Nat
    BY DEF Init
  <2>7. shutdown \in BOOLEAN /\ destroyer \in {"none", "notify", "join", "gone"}
    BY Zenon DEF Init
  <2>8. QED   BY <2>1, <2>2, <2>3, <2>4, <2>5, <2>6, <2>7 DEF TypeOK
<1>2. Publishers = {} /\ Pending = {}
  BY PoolAssumption DEF Init, Publishers, Pending, Threads
<1>3. MutexInv /\ JobInv /\ QuietInv /\ LeftInv
  BY <1>2, PoolAssumption DEF Init, MutexInv, JobInv, QuietInv, LeftInv, Threads
<1>4. NobodyForgotten
  BY <1>2, FS_EmptySet DEF Init, NobodyForgotten
<1>5. QED   BY <1>1, <1>3, <1>4 DEF IInv

\* A thread that moves to a pc of its own kind keeps the pcs typed.
LEMMA GotoTyped ==
  ASSUME PcOK, NEW t \in Threads, NEW to,
         t \in Callers => to \in CallerPc,
         t \in Workers => to \in WorkerPc,
         pc' = [pc EXCEPT ![t] = to]
  PROVE  PcOK'
BY PoolAssumption DEF PcOK, Threads

LEMMA CallKeeps ==
  ASSUME IInv, NEW c \in Callers, NEW l \in Int, NEW h \in Int, Call(c, l, h)
  PROVE  IInv'
<1> USE PoolAssumption
    DEF IInv, TypeOK, PcOK, Threads, Call, Goto, locals, job
<1>1. TypeOK'
  BY SMTT(30) DEF CallerPc, WorkerPc
<1>2. MutexInv'
  BY DEF MutexInv
<1>3. JobInv'
  BY DEF MutexInv, JobInv, Publishers
<1>4. Pending' = Pending /\ NobodyForgotten'
  BY PendingKept
<1>5. QuietInv'
  BY <1>4 DEF QuietInv, Publishers
<1>6. LeftInv'
  BY SMTT(30) DEF LeftInv, JobInv, MutexInv, Publishers
<1>7. QED   BY <1>1, <1>2, <1>3, <1>4, <1>5, <1>6

\* A caller that runs its loop alone.
LEMMA InlineKeeps ==
  ASSUME IInv, NEW c \in Callers, InlineSteps(c)
  PROVE  IInv'
<1> USE PoolAssumption
    DEF IInv, TypeOK, PcOK, Threads, InlineSteps, InlineItem, InlineFinish, InlineReturn,
        Goto, locals, job
<1>1. TypeOK'
  BY DEF CallerPc, WorkerPc
<1>2. MutexInv'
  BY DEF MutexInv
<1>3. JobInv'
  BY DEF MutexInv, JobInv, Publishers
<1>4. Pending' = Pending /\ NobodyForgotten'
  BY PendingKept
<1>5. QuietInv'
  BY <1>4 DEF QuietInv, Publishers
<1>6. LeftInv'
  <2>1. CASE InlineItem(c)
    BY <2>1 DEF LeftInv, JobInv, MutexInv, Publishers
  <2>2. CASE InlineFinish(c)
    BY <2>2 DEF LeftInv, JobInv, MutexInv, Publishers
  <2>3. CASE InlineReturn(c)
    BY <2>3 DEF LeftInv, JobInv, MutexInv, Publishers
  <2> QED   BY <2>1, <2>2, <2>3
<1>7. QED   BY <1>1, <1>2, <1>3, <1>4, <1>5, <1>6

LEMMA LockKeeps ==
  ASSUME IInv, NEW c \in Callers, Lock(c)
  PROVE  IInv'
<1> USE PoolAssumption
    DEF IInv, TypeOK, PcOK, Threads, Lock, Goto, locals, job
<1>1. TypeOK'
  BY DEF CallerPc, WorkerPc
<1>2. MutexInv'
  BY DEF MutexInv
<1>3. JobInv'
  BY DEF MutexInv, JobInv, Publishers
<1>4. Pending' = Pending /\ NobodyForgotten'
  BY PendingKept
<1>5. QuietInv'
  BY <1>4 DEF QuietInv, Publishers
<1>6. LeftInv'
  BY DEF LeftInv, JobInv, MutexInv, Publishers
<1>7. QED   BY <1>1, <1>2, <1>3, <1>4, <1>5, <1>6

LEMMA PublishKeeps ==
  ASSUME IInv, NEW c \in Callers, Publish(c)
  PROVE  IInv'
<1>1. Publishers = {} /\ Pending = {}
  <2>1. runMutex = c
    BY DEF IInv, MutexInv, Publish, Goto
  <2>2. c \notin Publishers
    BY DEF Publishers, Publish, Goto
  <2>3. QED   BY <2>1, <2>2, OnePublisher DEF IInv, QuietInv
<1>2. Publishers' = {c}
  BY <1>1, PoolAssumption DEF IInv, TypeOK, PcOK, Publishers, Threads, Publish, Goto
<1>3. \A w \in Workers : seen[w] = generation /\ pc'[w] \notin {"grab", "item", "retire"}
  BY <1>1, PoolAssumption DEF Pending, Publish, Goto, IInv, TypeOK, PcOK, Threads
<1>4. Pending' = Workers
  BY <1>3 DEF Pending, Publish, locals, IInv, TypeOK
<1>5. NobodyForgotten'
  BY <1>4 DEF NobodyForgotten, Publish
<1>6. TypeOK'
  <2>1. PcOK'
    BY GotoTyped, PoolAssumption DEF IInv, TypeOK, Publish, Goto, CallerPc, Threads
  <2>2. active' \in Nat
    BY PoolAssumption, FS_CardinalityType DEF Publish
  <2>3. QED   BY <2>1, <2>2 DEF IInv, TypeOK, Publish, locals
<1>7. MutexInv'
  BY PoolAssumption DEF IInv, TypeOK, PcOK, MutexInv, Threads, Publish, Goto
<1>8. JobInv'
  BY <1>2, <1>3 DEF JobInv, Publish, locals
<1>9. QuietInv'
  BY <1>2 DEF QuietInv
<1>10. LeftInv'
  BY <1>2, PoolAssumption DEF IInv, TypeOK, PcOK, LeftInv, Threads, Publish, Goto, locals
<1>11. QED   BY <1>5, <1>6, <1>7, <1>8, <1>9, <1>10 DEF IInv

LEMMA NotifyKeeps ==
  ASSUME IInv, NEW c \in Callers, Notify(c)
  PROVE  IInv'
<1> USE PoolAssumption
    DEF IInv, TypeOK, PcOK, Threads, Notify, WakeWorkers, Goto, locals, job
<1>1. TypeOK'
  BY DEF CallerPc, WorkerPc
<1>2. MutexInv'
  BY DEF MutexInv
<1>3. JobInv'
  BY DEF MutexInv, JobInv, Publishers
<1>4. Pending' = Pending /\ NobodyForgotten'
  BY PendingKept
<1>5. QuietInv'
  BY <1>4 DEF QuietInv, Publishers
<1>6. LeftInv'
  BY DEF LeftInv, JobInv, MutexInv, Publishers
<1>7. QED   BY <1>1, <1>2, <1>3, <1>4, <1>5, <1>6

\* The thread that takes an index is the publisher or a worker inside its loop.
LEMMA GrabberServes ==
  ASSUME IInv, NEW t \in Threads, pc[t] \in {"grab", "item"}
  PROVE  fn[t] \in Publishers /\ hi[t] = hi[fn[t]]
<1>1. CASE t \in Callers
  BY <1>1 DEF IInv, TypeOK, Publishers
<1>2. CASE t \in Workers
  BY <1>2 DEF IInv, JobInv
<1>3. QED   BY <1>1, <1>2 DEF Threads

LEMMA GrabKeeps ==
  ASSUME IInv, NEW t \in Threads, Grab(t)
  PROVE  IInv'
<1>1. TypeOK'
  BY PoolAssumption DEF IInv, TypeOK, PcOK, CallerPc, WorkerPc, Threads, Grab
<1>2. MutexInv'
  BY PoolAssumption DEF IInv, TypeOK, PcOK, MutexInv, Threads, Grab
<1>3. Publishers' = Publishers
  BY PoolAssumption DEF IInv, TypeOK, PcOK, Publishers, Threads, Grab
<1>4. JobInv'
  BY <1>3, PoolAssumption DEF IInv, TypeOK, PcOK, JobInv, Publishers, Threads, Grab
<1>5. Pending' = Pending /\ NobodyForgotten'
  BY PoolAssumption, PendingKept DEF IInv, TypeOK, PcOK, Threads, Grab
<1>6. QuietInv'
  BY <1>3, <1>5 DEF IInv, QuietInv
<1>7. LeftInv'
  <2>1. fn[t] \in Callers /\ fn[t] \in Publishers /\ hi[t] = hi[fn[t]]
    BY GrabberServes DEF Grab, Publishers
  <2>2. Publishers = {fn[t]} /\ runMutex = fn[t]
    BY <2>1, OnePublisher DEF IInv, MutexInv, Publishers
  <2>3. left[fn[t]] = next .. hi[fn[t]] - 1 /\ next \in Int /\ hi[fn[t]] \in Int
    BY <2>1 DEF IInv, LeftInv, TypeOK, Threads
  <2>4. left'[fn[t]] = next + 1 .. hi[fn[t]] - 1
    <3>1. CASE next < hi[t]
      <4>1. left'[fn[t]] = left[fn[t]] \ {next}
        BY <3>1, <2>1 DEF IInv, TypeOK, Grab
      <4>2. QED   BY <4>1, <2>3
    <3>2. CASE ~(next < hi[t])
      <4>1. left' = left
        BY <3>2 DEF Grab
      <4>2. QED   BY <4>1, <3>2, <2>1, <2>3
    <3>3. QED   BY <3>1, <3>2
  <2>5. pc'[fn[t]] \in {"drain", "asleep"} => next + 1 >= hi[fn[t]]
    <3>1. CASE fn[t] = t
      BY <3>1, <2>1, <2>3 DEF IInv, TypeOK, PcOK, Threads, Grab
    <3>2. CASE fn[t] # t
      <4>1. pc'[fn[t]] = pc[fn[t]]
        BY <3>2, <2>1 DEF IInv, TypeOK, PcOK, Threads, Grab
      <4>2. QED   BY <4>1, <2>1, <2>3 DEF IInv, LeftInv
    <3>3. QED   BY <3>1, <3>2
  <2>6. \A c \in Publishers' :
          /\ left'[c] = next' .. hi'[c] - 1
          /\ pc'[c] \in {"drain", "asleep"} => next' >= hi'[c]
    BY <1>3, <2>2, <2>4, <2>5 DEF Grab
  <2>7. ASSUME NEW c \in Callers, pc'[c] \in {"lock", "publish", "inline", "inlineItem"}
        PROVE  /\ c # fn[t] /\ pc'[c] = pc[c] /\ left'[c] = left[c]
               /\ lo'[c] = lo[c] /\ hi'[c] = hi[c] /\ item'[c] = item[c]
    <3>1. c # t /\ pc'[c] = pc[c]
      BY <2>7 DEF IInv, TypeOK, PcOK, Threads, Grab
    <3>2. c # fn[t]
      BY <3>1, <2>7, <2>1 DEF Publishers
    <3>3. QED   BY <3>1, <3>2, <2>1 DEF IInv, TypeOK, Threads, Grab
  <2>8. QED   BY <2>6, <2>7 DEF IInv, LeftInv
<1>8. QED   BY <1>1, <1>2, <1>4, <1>5, <1>6, <1>7 DEF IInv

LEMMA FinishItemKeeps ==
  ASSUME IInv, NEW t \in Threads, FinishItem(t)
  PROVE  IInv'
<1> USE PoolAssumption
    DEF IInv, TypeOK, PcOK, Threads, FinishItem, Goto, locals, job
<1>1. TypeOK'
  BY DEF CallerPc, WorkerPc
<1>2. MutexInv'
  BY DEF MutexInv
<1>3. JobInv'
  BY DEF MutexInv, JobInv, Publishers
<1>4. Pending' = Pending /\ NobodyForgotten'
  BY PendingKept
<1>5. QuietInv'
  BY <1>4 DEF QuietInv, Publishers
<1>6. LeftInv'
  BY DEF LeftInv, JobInv, MutexInv, Publishers
<1>7. QED   BY <1>1, <1>2, <1>3, <1>4, <1>5, <1>6

LEMMA DrainKeeps ==
  ASSUME IInv, NEW c \in Callers, Drain(c)
  PROVE  IInv'
<1> USE PoolAssumption
    DEF IInv, TypeOK, PcOK, Threads, Drain, Goto, locals, job
<1>1. TypeOK'
  BY DEF CallerPc, WorkerPc
<1>2. MutexInv'
  BY DEF MutexInv
<1>3. JobInv'
  BY DEF MutexInv, JobInv, Publishers
<1>4. Pending' = Pending /\ NobodyForgotten'
  BY PendingKept
<1>5. QuietInv'
  BY <1>4 DEF QuietInv, Publishers
<1>6. LeftInv'
  BY DEF LeftInv, JobInv, MutexInv, Publishers
<1>7. QED   BY <1>1, <1>2, <1>3, <1>4, <1>5, <1>6

LEMMA ReturnKeeps ==
  ASSUME IInv, NEW c \in Callers, Return(c)
  PROVE  IInv'
<1>1. Pending = {}
  BY PendingFinite, FS_EmptySet DEF IInv, NobodyForgotten, Return
<1>2. TypeOK'
  BY PoolAssumption DEF IInv, TypeOK, PcOK, CallerPc, WorkerPc, Threads, Return, Goto, locals
<1>3. Publishers' = {}
  <2>1. Publishers \subseteq {c}
    BY OnePublisher DEF IInv, MutexInv, Return, Goto
  <2>2. QED   BY <2>1, PoolAssumption DEF IInv, TypeOK, PcOK, Publishers, Threads, Return, Goto
<1>4. MutexInv'
  BY PoolAssumption DEF IInv, TypeOK, PcOK, MutexInv, Threads, Return, Goto
<1>5. Pending' = Pending /\ NobodyForgotten'
  BY PoolAssumption, PendingKept DEF IInv, TypeOK, PcOK, Threads, Return, Goto, locals
<1>6. JobInv'
  BY <1>1, <1>3, <1>5 DEF JobInv, Pending
<1>7. QuietInv'
  BY <1>1, <1>5 DEF QuietInv
<1>8. LeftInv'
  BY <1>3, PoolAssumption DEF IInv, TypeOK, PcOK, LeftInv, Threads, Return, Goto, locals
<1>9. QED   BY <1>2, <1>4, <1>5, <1>6, <1>7, <1>8 DEF IInv

LEMMA SleepKeeps ==
  ASSUME IInv, NEW w \in Workers, Sleep(w)
  PROVE  IInv'
<1> USE PoolAssumption
    DEF IInv, TypeOK, PcOK, Threads, Sleep, Goto, locals, job
<1>1. TypeOK'
  BY DEF CallerPc, WorkerPc
<1>2. MutexInv'
  BY DEF MutexInv
<1>3. JobInv'
  BY DEF MutexInv, JobInv, Publishers
<1>4. Pending' = Pending /\ NobodyForgotten'
  BY PendingKept
<1>5. QuietInv'
  BY <1>4 DEF QuietInv, Publishers
<1>6. LeftInv'
  BY DEF LeftInv, JobInv, MutexInv, Publishers
<1>7. QED   BY <1>1, <1>2, <1>3, <1>4, <1>5, <1>6

LEMMA ExitKeeps ==
  ASSUME IInv, NEW w \in Workers, Exit(w)
  PROVE  IInv'
<1> USE PoolAssumption
    DEF IInv, TypeOK, PcOK, Threads, Exit, Goto, locals, job
<1>1. TypeOK'
  BY DEF CallerPc, WorkerPc
<1>2. MutexInv'
  BY DEF MutexInv
<1>3. JobInv'
  BY DEF MutexInv, JobInv, Publishers
<1>4. Pending' = Pending /\ NobodyForgotten'
  BY PendingKept
<1>5. QuietInv'
  BY <1>4 DEF QuietInv, Publishers
<1>6. LeftInv'
  BY DEF LeftInv, JobInv, MutexInv, Publishers
<1>7. QED   BY <1>1, <1>2, <1>3, <1>4, <1>5, <1>6

LEMMA JoinKeeps ==
  ASSUME IInv, NEW w \in Workers, Join(w)
  PROVE  IInv'
<1>1. PICK c \in Callers : c \in Publishers
  BY DEF IInv, QuietInv, Publishers, Pending, Join
<1>2. Publishers' = Publishers
  BY PoolAssumption DEF IInv, TypeOK, PcOK, Publishers, Threads, Join, Goto
<1>3. TypeOK'
  BY PoolAssumption DEF IInv, TypeOK, PcOK, CallerPc, WorkerPc, Threads, Join, Goto, job
<1>4. MutexInv'
  BY PoolAssumption DEF IInv, TypeOK, PcOK, MutexInv, Threads, Join, Goto
<1>5. JobInv'
  <2>1. body = c /\ end = hi[c]
    BY <1>1 DEF IInv, JobInv
  <2>2. \A d \in Callers : hi'[d] = hi[d]
    BY PoolAssumption DEF IInv, TypeOK, Threads, Join
  <2>3. \A d \in Publishers' : body' = d /\ end' = hi'[d]
    BY <1>2, <2>2 DEF IInv, JobInv, Publishers, Join, job
  <2>4. ASSUME NEW x \in Workers
        PROVE  /\ pc'[x] \in {"grab", "item", "retire"} => seen'[x] = generation'
               /\ pc'[x] \in {"grab", "item"} => fn'[x] \in Publishers' /\ hi'[x] = hi'[fn'[x]]
    <3>1. CASE x = w
      BY <3>1, <1>1, <1>2, <2>1, <2>2 DEF IInv, TypeOK, PcOK, Threads, Join, Goto, job
    <3>2. CASE x # w
      BY <3>2, <1>2, <2>2 DEF IInv, TypeOK, PcOK, JobInv, Publishers, Threads, Join, Goto, job
    <3>3. QED   BY <3>1, <3>2
  <2>5. QED   BY <2>3, <2>4 DEF JobInv
<1>6. Pending' = Pending
  BY PoolAssumption DEF IInv, TypeOK, PcOK, Pending, Threads, Join, Goto, job
<1>7. QuietInv' /\ NobodyForgotten'
  BY <1>2, <1>6 DEF IInv, QuietInv, NobodyForgotten, Join, job
<1>8. LeftInv'
  BY <1>2, PoolAssumption DEF IInv, TypeOK, PcOK, LeftInv, Publishers, Threads, Join, Goto, job
<1>9. QED   BY <1>3, <1>4, <1>5, <1>7, <1>8 DEF IInv

LEMMA RetireKeeps ==
  ASSUME IInv, NEW w \in Workers, Retire(w)
  PROVE  IInv'
<1>1. w \in Pending /\ Pending' = Pending \ {w}
  <2>1. pc[w] = "retire" /\ seen[w] = generation
    BY DEF IInv, JobInv, Retire, Goto
  <2>2. pc'[w] \notin {"grab", "item", "retire"} /\ seen' = seen /\ generation' = generation
    BY DEF IInv, TypeOK, PcOK, Threads, Retire, Goto, locals
  <2>3. \A x \in Workers \ {w} : pc'[x] = pc[x]
    BY DEF IInv, TypeOK, PcOK, Threads, Retire, Goto
  <2>4. QED   BY <2>1, <2>2, <2>3 DEF Pending
<1>2. active \in Nat /\ active > 0 /\ active - 1 = Cardinality(Pending \ {w})
  <2>1. Cardinality(Pending) \in Nat /\ Cardinality(Pending \ {w}) = Cardinality(Pending) - 1
    BY <1>1, PendingFinite, FS_RemoveElement, FS_CardinalityType
  <2>2. Cardinality(Pending \ {w}) \in Nat
    BY PendingFinite, FS_Subset, FS_CardinalityType
  <2>3. QED   BY <2>1, <2>2 DEF IInv, NobodyForgotten
<1>3. NobodyForgotten'
  BY <1>1, <1>2 DEF NobodyForgotten, Retire
<1>4. TypeOK'
  <2>1. PcOK'
    BY GotoTyped, PoolAssumption DEF IInv, TypeOK, Retire, Goto, WorkerPc, Threads
  <2>2. QED   BY <1>2, <2>1 DEF IInv, TypeOK, Retire, locals
<1>5. MutexInv'
  BY PoolAssumption DEF IInv, TypeOK, PcOK, MutexInv, Threads, Retire, Goto
<1>6. Publishers' = Publishers
  BY PoolAssumption DEF IInv, TypeOK, PcOK, Publishers, Threads, Retire, Goto
<1>7. JobInv'
  BY <1>6 DEF IInv, TypeOK, PcOK, JobInv, Threads, Retire, Goto, locals
<1>8. QuietInv'
  BY <1>1, <1>6 DEF IInv, QuietInv
<1>9. LeftInv'
  BY <1>6, PoolAssumption DEF IInv, TypeOK, PcOK, LeftInv, Publishers, Threads, Retire, Goto,
     locals
<1>10. QED   BY <1>3, <1>4, <1>5, <1>7, <1>8, <1>9 DEF IInv

LEMMA SignalKeeps ==
  ASSUME IInv, NEW w \in Workers, Signal(w)
  PROVE  IInv'
<1> USE PoolAssumption
    DEF IInv, TypeOK, PcOK, Threads, Signal, WakeCallers, Goto, locals, job
<1>1. TypeOK'
  BY DEF CallerPc, WorkerPc
<1>2. MutexInv'
  BY DEF MutexInv
<1>3. JobInv'
  BY DEF MutexInv, JobInv, Publishers
<1>4. Pending' = Pending /\ NobodyForgotten'
  BY PendingKept
<1>5. QuietInv'
  BY <1>4 DEF QuietInv, Publishers
<1>6. LeftInv'
  BY DEF LeftInv, JobInv, MutexInv, Publishers
<1>7. QED   BY <1>1, <1>2, <1>3, <1>4, <1>5, <1>6

LEMMA SpuriousWakeupKeeps ==
  ASSUME IInv, NEW t \in Threads, SpuriousWakeup(t)
  PROVE  IInv'
<1> USE PoolAssumption
    DEF IInv, TypeOK, PcOK, Threads, SpuriousWakeup, Goto, locals, job
<1>1. TypeOK'
  BY DEF CallerPc, WorkerPc
<1>2. MutexInv'
  BY DEF MutexInv
<1>3. JobInv'
  BY DEF MutexInv, JobInv, Publishers
<1>4. Pending' = Pending /\ NobodyForgotten'
  BY PendingKept
<1>5. QuietInv'
  BY <1>4 DEF QuietInv, Publishers
<1>6. LeftInv'
  BY DEF LeftInv, JobInv, MutexInv, Publishers
<1>7. QED   BY <1>1, <1>2, <1>3, <1>4, <1>5, <1>6

LEMMA DestroyKeeps ==
  ASSUME IInv, Shutdown \/ DestroySteps
  PROVE  IInv'
<1> USE PoolAssumption
    DEF IInv, TypeOK, PcOK, Threads, DestroySteps, Shutdown, NotifyShutdown, Joined, WakeWorkers,
        Goto, locals, job
<1>1. TypeOK'
  <2>1. CASE NotifyShutdown
    BY <2>1 DEF CallerPc, WorkerPc
  <2>2. CASE Shutdown \/ Joined
    BY <2>2
  <2> QED   BY <2>1, <2>2
<1>2. MutexInv'
  BY DEF MutexInv
<1>3. JobInv'
  BY DEF MutexInv, JobInv, Publishers
<1>4. Pending' = Pending /\ NobodyForgotten'
  BY PendingKept
<1>5. QuietInv'
  BY <1>4 DEF QuietInv, Publishers
<1>6. LeftInv'
  BY SMTT(30) DEF LeftInv, JobInv, MutexInv, Publishers
<1>7. QED   BY <1>1, <1>2, <1>3, <1>4, <1>5, <1>6

LEMMA NextKeeps == IInv /\ [Next]_vars => IInv'
<1> SUFFICES ASSUME IInv, [Next]_vars PROVE IInv'   OBVIOUS
<1>1. ASSUME NEW c \in Callers, CallerSteps(c) PROVE IInv'
  <2>1. c \in Threads
    BY DEF Threads
  <2>2. QED   BY <1>1, <2>1, InlineKeeps, LockKeeps, NotifyKeeps, DrainKeeps, PublishKeeps,
     GrabKeeps, FinishItemKeeps, ReturnKeeps DEF CallerSteps, LoopSteps
<1>2. ASSUME NEW c \in Callers, NEW l \in 0 .. MaxItems, NEW h \in 0 .. MaxItems, Call(c, l, h)
      PROVE IInv'
  BY <1>2, CallKeeps, PoolAssumption
<1>3. ASSUME NEW w \in Workers, WorkerSteps(w) PROVE IInv'
  <2>1. w \in Threads
    BY DEF Threads
  <2>2. QED   BY <1>3, <2>1, GrabKeeps, FinishItemKeeps, SleepKeeps, ExitKeeps, SignalKeeps,
     JoinKeeps, RetireKeeps DEF WorkerSteps, LoopSteps
<1>4. ASSUME NEW t \in Threads, SpuriousWakeup(t) PROVE IInv'
  BY <1>4, SpuriousWakeupKeeps
<1>5. CASE Shutdown \/ DestroySteps
  BY <1>5, DestroyKeeps
<1>6. CASE UNCHANGED vars
  BY <1>6 DEF vars, locals, job, IInv, TypeOK, PcOK, MutexInv, JobInv, QuietInv, LeftInv,
     NobodyForgotten, Publishers, Pending
<1>7. QED   BY <1>1, <1>2, <1>3, <1>4, <1>5, <1>6 DEF Next

\* The invariant holds whatever the callers and the workers do.
THEOREM Invariance == Spec => []IInv
<1>1. QED   BY InitKeeps, NextKeeps, PTL DEF Spec

\* The count a caller waits for is that of the workers still inside its loop, so
\* run never returns, and never publishes, over a worker it forgot.
THEOREM CountExact == Spec => []NobodyForgotten
<1>1. IInv => NobodyForgotten
  BY DEF IInv
<1>2. QED   BY <1>1, Invariance, PTL

\* No worker uses the fn of a call outside of that call.
THEOREM FnOutlives == Spec => []FnOutlivesItsUsers
<1>1. IInv => FnOutlivesItsUsers
  BY DEF IInv, JobInv, FnOutlivesItsUsers
<1>2. QED   BY <1>1, Invariance, PTL

\* The state keeps its type; `active` never goes below zero.
THEOREM TypeCorrect == Spec => []TypeOK
<1>1. IInv => TypeOK
  BY DEF IInv
<1>2. QED   BY <1>1, Invariance, PTL

-----------------------------------------------------------------------------
(* The pool implements ParallelFor. *)

LEMMA RunningKept ==
  ASSUME \A t \in Threads :
           /\ pc'[t] \in {"item", "inlineItem"} <=> pc[t] \in {"item", "inlineItem"}
           /\ pc[t] \in {"item", "inlineItem"} => fn'[t] = fn[t] /\ item'[t] = item[t]
  PROVE  Running' = Running
<1>1. Executing' = Executing
  BY DEF Executing
<1>2. \A t \in Executing : <<t, fn[t], item[t]>>' = <<t, fn[t], item[t]>>
  BY DEF Executing
<1>3. QED   BY <1>1, <1>2 DEF Running

LEMMA StuttersMaps == Stutters => UNCHANGED Promise!vars
<1> SUFFICES ASSUME Stutters PROVE UNCHANGED Promise!vars   OBVIOUS
<1>1. Running' = Running
  BY RunningKept DEF Stutters
<1>2. Open' = Open
  BY DEF Stutters, Open
<1>3. QED   BY <1>1, <1>2 DEF Stutters, Promise!vars, Running, Open

\* The thread t begins fn(i) of the caller c.
LEMMA StartMaps ==
  ASSUME IInv, NEW t \in Threads, NEW c \in Callers, NEW i \in left[c],
         pc[c] # "idle", pc[t] \notin {"item", "inlineItem"},
         pc'[t] \in {"item", "inlineItem"}, fn'[t] = c, item'[t] = i,
         \A s \in Threads \ {t} : pc'[s] = pc[s] /\ fn'[s] = fn[s] /\ item'[s] = item[s],
         \A d \in Callers : pc'[d] = "idle" <=> pc[d] = "idle",
         left' = [left EXCEPT ![c] = @ \ {i}]
  PROVE  Promise!Next
<1>1. Executing' = Executing \cup {t} /\ t \notin Executing
  BY DEF Executing
<1>2. Running' = Running \cup {<<t, c, i>>}
  BY <1>1 DEF Running, Executing
<1>3. \A r \in Running : r[1] # t
  BY <1>1 DEF Running
<1>4. Open' = Open /\ c \in Open
  BY DEF Open
<1>5. Promise!Start(t, c, i)
  BY <1>2, <1>3, <1>4 DEF Promise!Start, Running, Open
<1>6. QED   BY <1>5 DEF Promise!Next

\* The thread t ends what it executes.
LEMMA FinishMaps ==
  ASSUME IInv, NEW t \in Threads,
         pc[t] \in {"item", "inlineItem"}, pc'[t] \notin {"item", "inlineItem"},
         \A s \in Threads \ {t} : pc'[s] = pc[s] /\ fn'[s] = fn[s] /\ item'[s] = item[s],
         \A d \in Callers : pc'[d] = "idle" <=> pc[d] = "idle",
         UNCHANGED left
  PROVE  Promise!Next
<1> DEFINE r == <<t, fn[t], item[t]>>
<1>1. Executing' = Executing \ {t} /\ t \in Executing
  BY DEF Executing
<1>2. Running' = Running \ {r} /\ r \in Running
  BY <1>1 DEF Running, Executing
<1>3. Open' = Open
  BY DEF Open
<1> HIDE DEF r
<1>4. \E x \in Running : Running' = Running \ {x} /\ Open' = Open /\ left' = left
  BY <1>2, <1>3
<1>5. \E x \in Running : Promise!Finish(x)
  BY <1>4 DEF Promise!Finish, Running, Open
<1>6. QED   BY <1>5 DEF Promise!Next, Running

\* The caller c returns: nothing of its range is left, nobody is in its fn.
LEMMA EndMaps ==
  ASSUME IInv, NEW c \in Callers, pc[c] \in {"drain", "inline"}, pc' = [pc EXCEPT ![c] = "idle"],
         left[c] = {}, \A w \in Workers : pc[w] = "item" => fn[w] # c,
         UNCHANGED <<fn, item, left>>
  PROVE  Promise!Next
<1>1. Running' = Running
  BY RunningKept DEF IInv, TypeOK, PcOK, Threads
<1>2. \A r \in Running : r[2] # c
  BY DEF Running, Executing, Threads, IInv, TypeOK, PcOK, WorkerPc
<1>3. Open' = Open \ {c} /\ c \in Open
  BY DEF Open, IInv, TypeOK, PcOK, Threads
<1>4. Promise!End(c)
  BY <1>1, <1>2, <1>3 DEF Promise!End, Running, Open
<1>5. QED   BY <1>4 DEF Promise!Next

LEMMA CallMaps ==
  ASSUME IInv, NEW c \in Callers, NEW l \in 0 .. MaxItems, NEW h \in 0 .. MaxItems, Call(c, l, h)
  PROVE  Promise!Next
<1>1. Running' = Running
  BY RunningKept, PoolAssumption DEF IInv, TypeOK, PcOK, Threads, Call, Goto
<1>2. Open' = Open \cup {c} /\ c \notin Open
  BY DEF Open, IInv, TypeOK, PcOK, Threads, Call, Goto
<1>3. Promise!Begin(c, l, h)
  BY <1>1, <1>2 DEF Promise!Begin, Running, Open, Call
<1>4. QED   BY <1>3 DEF Promise!Next

LEMMA InlineItemMaps ==
  ASSUME IInv, NEW c \in Callers, InlineItem(c)
  PROVE  Promise!Next
<1>1. item[c] \in left[c]
  BY DEF IInv, LeftInv, TypeOK, Threads, InlineItem, Goto
<1>2. QED   BY <1>1, StartMaps DEF IInv, TypeOK, PcOK, Threads, InlineItem, Goto, locals

LEMMA InlineFinishMaps ==
  ASSUME IInv, NEW c \in Callers, InlineFinish(c)
  PROVE  Promise!Next
BY FinishMaps DEF IInv, TypeOK, PcOK, Threads, InlineFinish, Goto

LEMMA InlineReturnMaps ==
  ASSUME IInv, NEW c \in Callers, InlineReturn(c)
  PROVE  Promise!Next
<1>1. left[c] = {}
  BY DEF IInv, LeftInv, TypeOK, Threads, InlineReturn, Goto
<1>2. \A w \in Workers : pc[w] = "item" => fn[w] # c
  BY DEF IInv, JobInv, Publishers, InlineReturn, Goto
<1>3. QED   BY <1>1, <1>2, EndMaps DEF InlineReturn, Goto, locals

LEMMA GrabMaps ==
  ASSUME IInv, NEW t \in Threads, Grab(t)
  PROVE  Promise!Next \/ Stutters
<1>1. fn[t] \in Callers /\ fn[t] \in Publishers /\ hi[t] = hi[fn[t]]
  BY GrabberServes DEF Grab, Publishers
<1>2. CASE next < hi[t]
  <2>1. next \in left[fn[t]]
    BY <1>1, <1>2 DEF IInv, LeftInv, TypeOK, Threads
  <2>2. pc[fn[t]] # "idle"
    BY <1>1 DEF Publishers
  <2>3. pc' = [pc EXCEPT ![t] = "item"] /\ left' = [left EXCEPT ![fn[t]] = @ \ {next}]
    BY <1>2 DEF Grab
  <2>4. QED   BY <1>1, <2>1, <2>2, <2>3, StartMaps DEF IInv, TypeOK, PcOK, Threads, Grab
<1>3. CASE ~(next < hi[t])
  BY <1>3 DEF Stutters, IInv, TypeOK, PcOK, Threads, Grab
<1>4. QED   BY <1>2, <1>3

LEMMA FinishItemMaps ==
  ASSUME IInv, NEW t \in Threads, FinishItem(t)
  PROVE  Promise!Next
BY FinishMaps DEF IInv, TypeOK, PcOK, Threads, FinishItem, Goto, locals

LEMMA ReturnMaps ==
  ASSUME IInv, NEW c \in Callers, Return(c)
  PROVE  Promise!Next
<1>1. Pending = {}
  BY PendingFinite, FS_EmptySet DEF IInv, NobodyForgotten, Return
<1>2. left[c] = {}
  BY DEF IInv, LeftInv, TypeOK, Threads, Publishers, Return, Goto
<1>3. \A w \in Workers : pc[w] # "item"
  BY <1>1 DEF Pending
<1>4. QED   BY <1>2, <1>3, EndMaps DEF Return, Goto, locals

LEMMA CallerStutters ==
  ASSUME IInv, NEW c \in Callers, Lock(c) \/ Publish(c) \/ Notify(c) \/ Drain(c)
  PROVE  Stutters
BY ZenonT(40), PoolAssumption DEF IInv, TypeOK, PcOK, Stutters, Threads, Lock, Publish, Notify, Drain, WakeWorkers,
   Goto, locals

LEMMA WorkerStutters ==
  ASSUME IInv, NEW w \in Workers, Sleep(w) \/ Exit(w) \/ Join(w) \/ Retire(w) \/ Signal(w)
  PROVE  Stutters
BY ZenonT(40), PoolAssumption DEF IInv, TypeOK, PcOK, Stutters, Threads, Sleep, Exit, Join, Retire,
   Signal, WakeCallers, Goto, locals

LEMMA OtherStutters ==
  ASSUME IInv, Shutdown \/ DestroySteps \/ \E t \in Threads : SpuriousWakeup(t)
  PROVE  Stutters
BY PoolAssumption DEF IInv, TypeOK, PcOK, Stutters, Threads, SpuriousWakeup, Shutdown, DestroySteps,
   NotifyShutdown, Joined, WakeWorkers, Goto, locals

LEMMA NextMaps == IInv /\ [Next]_vars => [Promise!Next]_(Promise!vars)
<1> SUFFICES ASSUME IInv, [Next]_vars
             PROVE  Promise!Next \/ UNCHANGED Promise!vars   OBVIOUS
<1>1. ASSUME NEW c \in Callers, CallerSteps(c) PROVE Promise!Next \/ Stutters
  <2>1. c \in Threads
    BY DEF Threads
  <2>2. QED   BY <1>1, <2>1, InlineItemMaps, InlineFinishMaps, InlineReturnMaps, CallerStutters,
     GrabMaps, FinishItemMaps, ReturnMaps DEF CallerSteps, InlineSteps, LoopSteps
<1>2. ASSUME NEW c \in Callers, NEW l \in 0 .. MaxItems, NEW h \in 0 .. MaxItems, Call(c, l, h)
      PROVE Promise!Next
  BY <1>2, CallMaps
<1>3. ASSUME NEW w \in Workers, WorkerSteps(w) PROVE Promise!Next \/ Stutters
  <2>1. w \in Threads
    BY DEF Threads
  <2>2. QED   BY <1>3, <2>1, GrabMaps, FinishItemMaps, WorkerStutters DEF WorkerSteps, LoopSteps
<1>4. ASSUME NEW t \in Threads, SpuriousWakeup(t) PROVE Stutters
  BY <1>4, OtherStutters
<1>5. ASSUME Shutdown \/ DestroySteps PROVE Stutters
  BY <1>5, OtherStutters
<1>6. ASSUME UNCHANGED vars PROVE Stutters
  BY <1>6 DEF vars, locals, Stutters
<1>7. QED   BY <1>1, <1>2, <1>3, <1>4, <1>5, <1>6, StuttersMaps DEF Next

\* For any callers, any finite set of workers and ranges of any length: run
\* applies fn to each index once, returns when all of it has ended.
THEOREM PoolImplementsParallelFor == Spec => EveryIndexOnce
<1>1. Init => Promise!Init
  BY PoolAssumption DEF Init, Promise!Init, Executing, Threads
<1>2. QED   BY <1>1, NextMaps, Invariance, PTL DEF Spec, EveryIndexOnce, Promise!Spec

-----------------------------------------------------------------------------
(* Least members. *)

\* Every non-empty set of natural numbers has a least member.
LEMMA LeastNat == ASSUME NEW T, T \subseteq Nat, T # {}
                  PROVE  \E x \in T : \A y \in T : x <= y
<1> DEFINE R == {ss \in Nat \X Nat : ss[1] < ss[2]}
<1>1. OpToRel(<, Nat) = R   BY DEF OpToRel
<1>2. IsWellFoundedOn(R, Nat)   BY <1>1, NatLessThanWellFounded
<1> HIDE DEF R
<1>3. \E x \in T : \A y \in T : ~ (<<y, x>> \in R)   BY <1>2, WFMin
<1>4. PICK x \in T : \A y \in T : ~ (<<y, x>> \in R)   BY <1>3
<1>5. \A y \in T : x <= y
  <2>1. SUFFICES ASSUME NEW y \in T, ~(x <= y) PROVE FALSE   OBVIOUS
  <2>2. y < x   BY <2>1
  <2>3. <<y, x>> \in R   BY <2>2 DEF R
  <2> QED BY <1>4, <2>3
<1> QED BY <1>5

-----------------------------------------------------------------------------
(* Numbers and ranks. *)

\* The ranks of a finite set under a strict total order are 0, 1, ..., each once
\* and in order.
LEMMA Ranks ==
  ASSUME NEW S, IsFiniteSet(S), NEW R, StrictTotal(S, R)
  PROVE  /\ Cardinality(S) \in Nat
         /\ \A x \in S : RankIn(S, R, x) \in 0 .. Cardinality(S) - 1
         /\ \A x, y \in S : <<x, y>> \in R => RankIn(S, R, x) < RankIn(S, R, y)
         /\ \A x, y \in S : RankIn(S, R, x) = RankIn(S, R, y) => x = y
         /\ \A r \in 0 .. Cardinality(S) - 1 : \E x \in S : RankIn(S, R, x) = r
<1>1. Cardinality(S) \in Nat
  BY FS_CardinalityType
<1>2. ASSUME NEW x \in S
      PROVE  /\ IsFiniteSet(Below(S, R, x)) /\ RankIn(S, R, x) \in Nat
             /\ RankIn(S, R, x) < Cardinality(S)
  <2>1. Below(S, R, x) \in SUBSET S /\ Below(S, R, x) # S
    BY DEF Below, StrictTotal
  <2>2. IsFiniteSet(Below(S, R, x)) /\ Cardinality(Below(S, R, x)) <= Cardinality(S)
        /\ Cardinality(Below(S, R, x)) # Cardinality(S)
    BY <2>1, FS_Subset
  <2>3. Cardinality(Below(S, R, x)) \in Nat
    BY <2>2, FS_CardinalityType
  <2> QED   BY <1>1, <2>2, <2>3 DEF RankIn
<1>3. ASSUME NEW x \in S, NEW y \in S, <<x, y>> \in R
      PROVE  RankIn(S, R, x) < RankIn(S, R, y)
  <2>1. Below(S, R, x) \in SUBSET Below(S, R, y) /\ Below(S, R, x) # Below(S, R, y)
    BY <1>3 DEF Below, StrictTotal
  <2>2. /\ Cardinality(Below(S, R, x)) <= Cardinality(Below(S, R, y))
        /\ Cardinality(Below(S, R, x)) # Cardinality(Below(S, R, y))
    BY <1>2, <2>1, FS_Subset
  <2> QED   BY <1>2, <2>2 DEF RankIn
<1>4. ASSUME NEW x \in S, NEW y \in S, RankIn(S, R, x) = RankIn(S, R, y)
      PROVE  x = y
  <2>1. SUFFICES ASSUME x # y PROVE FALSE   OBVIOUS
  <2>2. RankIn(S, R, x) < RankIn(S, R, y) \/ RankIn(S, R, y) < RankIn(S, R, x)
    BY <1>3, <2>1 DEF StrictTotal
  <2> QED   BY <1>2, <1>4, <2>2
<1> DEFINE T == 0 .. Cardinality(S) - 1
           f == [x \in S |-> RankIn(S, R, x)]
<1>5. f \in Injection(S, T)
  BY <1>1, <1>2, <1>4 DEF Injection, IsInjective
<1>6. IsFiniteSet(T) /\ Cardinality(T) = Cardinality(S)
  BY SMTT(30), <1>1, FS_Interval
<1>7. f \in Surjection(S, T)
  BY <1>5, <1>6, FS_Injection
<1>8. \A r \in T : \E x \in S : f[x] = r
  BY <1>7 DEF Surjection
<1> QED   BY <1>1, <1>2, <1>3, <1>4, <1>8

\* Every rank below the size of the set is that of a member.
LEMMA RanksReach ==
  ASSUME NEW S, IsFiniteSet(S), NEW R, StrictTotal(S, R)
  PROVE  \A q \in 0 .. Cardinality(S) - 1 : \E x \in S : RankIn(S, R, x) = q
BY Ranks

\* Induction over an interval.
LEMMA Climb ==
  ASSUME NEW a \in Int, NEW b \in Int, NEW T,
         a \in T, \A i \in a + 1 .. b : i - 1 \in T => i \in T
  PROVE  \A i \in a .. b : i \in T
<1>1. PICK Bad : Bad = {o \in 0 .. b - a : a + o \notin T}   OBVIOUS
<1>2. Bad = {}
  <2>1. SUFFICES ASSUME Bad # {} PROVE FALSE   OBVIOUS
  <2>2. Bad \subseteq Nat
    BY <1>1
  <2>3. PICK o \in Bad : \A m \in Bad : o <= m
    BY <2>1, <2>2, LeastNat
  <2>4. o \in 0 .. b - a /\ a + o \notin T /\ o # 0 /\ o \in Nat
    BY <1>1, <2>3
  <2>5. o - 1 \in 0 .. b - a /\ ~(o <= o - 1) /\ (a + o) - 1 = a + (o - 1) /\ a + o \in a + 1 .. b
    BY <2>4
  <2>6. a + (o - 1) \in T
    BY <1>1, <2>3, <2>5
  <2> QED   BY <2>4, <2>5, <2>6
<1>3. ASSUME NEW i \in a .. b PROVE i \in T
  <2>1. PICK o : o = i - a   OBVIOUS
  <2>2. o \in 0 .. b - a /\ a + o = i
    BY <2>1
  <2>3. o \notin Bad
    BY <1>2
  <2>4. a + o \in T
    BY <1>1, <2>2, <2>3
  <2> QED   BY <2>2, <2>4
<1> QED   BY <1>3

\* A function given by its first value and a step exists.
LEMMA Recursion ==
  ASSUME NEW a \in Int, NEW b \in Int, a <= b, NEW V, NEW v \in V,
         NEW J, J = a + 1 .. b, NEW G \in [J -> [V -> V]]
  PROVE  Steps(a, b, V, v, J, G)
<1> DEFINE Upto(f, o) == /\ f \in [a .. o -> V] /\ f[a] = v
                         /\ \A i \in a + 1 .. o : f[i] = G[i][f[i - 1]]
<1>1. PICK T : T = {o \in a .. b : \E f : Upto(f, o)}   OBVIOUS
<1>2. a \in T
  <2>1. PICK f : f = [i \in a .. a |-> v]   OBVIOUS
  <2>2. Upto(f, a)
    BY <2>1
  <2>3. a \in a .. b   OBVIOUS
  <2> HIDE DEF Upto
  <2> QED   BY <1>1, <2>2, <2>3
<1>3. ASSUME NEW o \in a + 1 .. b, o - 1 \in T PROVE o \in T
  <2>1. o - 1 \in a .. b /\ o \in a .. b /\ o \in Int
    BY <1>3
  <2>2. PICK f : Upto(f, o - 1)
    BY <1>1, <1>3
  <2>3. PICK g : g = [i \in a .. o |-> IF i = o THEN G[o][f[o - 1]] ELSE f[i]]   OBVIOUS
  <2>4. f[o - 1] \in V /\ G[o][f[o - 1]] \in V
    BY <2>1, <2>2
  <2>5. g \in [a .. o -> V]
    <3>1. ASSUME NEW i \in a .. o PROVE g[i] \in V
      <4>1. CASE i = o
        BY <2>3, <2>4, <4>1
      <4>2. CASE i # o
        <5>1. i \in a .. o - 1
          BY <2>1, <4>2
        <5> QED   BY <2>2, <2>3, <4>2, <5>1
      <4> QED   BY <4>1, <4>2
    <3> QED   BY <2>3, <3>1
  <2>6. g[a] = v
    BY <2>1, <2>2, <2>3
  <2>7. ASSUME NEW i \in a + 1 .. o PROVE g[i] = G[i][g[i - 1]]
    <3>1. CASE i = o
      <4>1. o - 1 \in a .. o /\ o - 1 # o /\ o \in a .. o
        BY <2>1
      <4>2. g[o - 1] = f[o - 1] /\ g[o] = G[o][f[o - 1]]
        BY <2>3, <4>1
      <4> QED   BY <3>1, <4>2
    <3>2. CASE i # o
      <4>1. /\ i \in a + 1 .. o - 1 /\ i - 1 \in a .. o /\ i \in a .. o
            /\ i - 1 # o
        BY <2>1, <3>2
      <4>2. g[i] = f[i] /\ g[i - 1] = f[i - 1]
        BY <2>3, <3>2, <4>1
      <4>3. f[i] = G[i][f[i - 1]]
        BY <2>2, <4>1
      <4> QED   BY <4>2, <4>3
    <3> QED   BY <3>1, <3>2
  <2>8. Upto(g, o)
    BY <2>5, <2>6, <2>7
  <2> QED   BY <1>1, <2>1, <2>8
<1>4. b \in T
  <2>1. \A i \in a .. b : i \in T
    BY <1>2, <1>3, Climb
  <2> QED   BY <2>1
<1> QED   BY <1>1, <1>4 DEF Steps

-----------------------------------------------------------------------------
(* Remainders. *)

LEMMA ModFacts ==
  ASSUME NEW a \in Int, NEW m \in Nat \ {0}
  PROVE  a % m \in 0 .. m - 1 /\ \E q \in Int : a = q * m + (a % m)
<1>1. a % m \in 0 .. m - 1 /\ a \div m \in Int /\ a = m * (a \div m) + (a % m)   OBVIOUS
<1>2. m * (a \div m) = (a \div m) * m
  BY <1>1
<1> QED   BY <1>1, <1>2

\* A multiple of m that is nearer to 0 than m is 0.
LEMMA SmallMultiple ==
  ASSUME NEW a \in Int, NEW m \in Nat \ {0}, -m < a, a < m, Multiple(a, m)
  PROVE  a = 0
<1>1. PICK q \in Int : a = q * m
  BY DEF Multiple
<1>2. CASE q >= 1
  <2>1. q * m >= m
    BY <1>2
  <2> QED   BY <1>1, <2>1
<1>3. CASE q <= -1
  <2>1. q * m <= -m
    BY <1>3
  <2> QED   BY <1>1, <2>1
<1>4. CASE q = 0
  BY <1>1, <1>4
<1> QED   BY <1>2, <1>3, <1>4

LEMMA SameRemainder ==
  ASSUME NEW a \in Int, NEW b \in Int, NEW m \in Nat \ {0}, a % m = b % m
  PROVE  Multiple(a - b, m)
<1>1. PICK q \in Int : a = q * m + (a % m)
  BY ModFacts
<1>2. PICK p \in Int : b = p * m + (b % m)
  BY ModFacts
<1>3. PICK r : r = a % m   OBVIOUS
<1>4. r \in Int
  BY <1>3, ModFacts
<1>5. a - b = (q - p) * m
  BY <1>1, <1>2, <1>3, <1>4
<1> QED   BY <1>5 DEF Multiple

LEMMA RemainderIs ==
  ASSUME NEW m \in Nat \ {0}, NEW q \in Int, NEW r \in 0 .. m - 1, NEW a, a = q * m + r
  PROVE  a % m = r
<1>1. a \in Int   OBVIOUS
<1>2. PICK p \in Int : a = p * m + (a % m)
  BY <1>1, ModFacts
<1>3. PICK c : c = a % m   OBVIOUS
<1>4. c \in 0 .. m - 1
  BY <1>1, <1>3, ModFacts
<1>5. c - r = (q - p) * m
  <2>1. q * m + r = p * m + c
    BY <1>2, <1>3
  <2>2. r \in Int /\ c \in Int
    BY <1>4
  <2>3. c - r = q * m - p * m
    BY <2>1, <2>2
  <2>4. q * m - p * m = (q - p) * m   OBVIOUS
  <2> QED   BY <2>3, <2>4
<1>6. c - r \in Int /\ -m < c - r /\ c - r < m
  BY <1>4
<1>7. c - r = 0
  BY <1>5, <1>6, SmallMultiple DEF Multiple
<1> QED   BY <1>3, <1>4, <1>7

\* A step that shares no divisor with m goes through 0 .. m - 1 without a
\* repetition: no fewer than m steps come back to a multiple of m.
LEMMA CoprimeSteps ==
  ASSUME NEW m \in Nat \ {0}, NEW s \in Nat \ {0}, Coprime(s, m), NEW e \in 1 .. m - 1
  PROVE  ~Multiple(e * s, m)
<1>1. SUFFICES ASSUME Multiple(e * s, m) PROVE FALSE   OBVIOUS
<1>2. PICK D : D = {x \in 1 .. m : Multiple(x * s, m)}   OBVIOUS
<1>3. e \in D
  <2>1. e \in 1 .. m   OBVIOUS
  <2> QED   BY <1>1, <1>2, <2>1, Zenon
<1>4. D \subseteq Nat /\ D # {}
  <2>1. \A x \in D : x \in 1 .. m
    BY <1>2
  <2>2. \A x \in D : x \in Nat
    BY <2>1
  <2> QED   BY <1>3, <2>2
<1>5. PICK o \in D : \A x \in D : o <= x
  BY <1>4, LeastNat
<1>6. o \in 1 .. m - 1 /\ o \in Nat \ {0}
  BY <1>2, <1>3, <1>5
<1>7. PICK c \in Int : o * s = c * m
  BY <1>2, <1>5 DEF Multiple
<1>8. PICK r : r = m % o   OBVIOUS
<1>9. r \in 0 .. o - 1
  <2>1. m \in Int /\ o \in Nat \ {0}
    BY <1>6
  <2>2. m % o \in 0 .. o - 1
    BY <2>1, ModFacts
  <2> QED   BY <1>8, <2>2
<1>10. PICK q \in Int : m = q * o + r
  <2>1. m \in Int /\ o \in Nat \ {0}
    BY <1>6
  <2>2. \E q \in Int : m = q * o + (m % o)
    BY <2>1, ModFacts
  <2> QED   BY <1>8, <2>2
<1>11. Multiple(r * s, m)
  <2>1. r = m - q * o
    BY <1>6, <1>9, <1>10
  <2>2. r * s = m * s - q * (o * s)
    BY <2>1, <1>6
  <2>3. r * s = m * s - q * (c * m)
    BY <1>7, <2>2
  <2>4. r * s = (s - q * c) * m
    BY <2>3
  <2>5. s - q * c \in Int   OBVIOUS
  <2> QED   BY <2>4, <2>5 DEF Multiple
<1>12. r = 0
  <2>1. SUFFICES ASSUME r # 0 PROVE FALSE   OBVIOUS
  <2>2. r \in 1 .. m
    BY <1>6, <1>9, <2>1
  <2>3. r \in D
    BY <1>2, <1>11, <2>2
  <2> QED   BY <1>5, <1>6, <1>9, <2>3
<1>13. m = q * o
  BY <1>6, <1>10, <1>12
<1>14. q \in 2 .. m
  <2>1. q > 1
    <3>1. CASE q <= 0
      <4>1. q * o <= 0
        BY <1>6, <3>1
      <4> QED   BY <1>13, <4>1
    <3>2. CASE q = 1
      BY <1>6, <1>13, <3>2
    <3> QED   BY <3>1, <3>2
  <2>2. q * o >= q
    BY <1>6, <2>1
  <2> QED   BY <1>13, <2>1, <2>2
<1>15. s = c * q
  <2>1. o * s = o * (c * q)
    <3>1. c * m = c * (q * o)
      BY <1>13
    <3>2. c * (q * o) = o * (c * q)
      BY <1>6
    <3> QED   BY <1>7, <3>1, <3>2
  <2>2. PICK d : d = c * q   OBVIOUS
  <2>3. d \in Int /\ o * s = o * d
    BY <2>1, <2>2
  <2>4. o * (s - d) = 0
    BY <1>6, <2>3
  <2>5. s - d = 0
    BY <1>6, <2>3, <2>4
  <2> QED   BY <2>2, <2>3, <2>5
<1>16. s % q = 0 /\ m % q = 0
  <2>1. q \in Nat \ {0} /\ 0 \in 0 .. q - 1
    BY <1>14
  <2>2. s = c * q + 0 /\ m = o * q + 0
    BY <1>6, <1>13, <1>15
  <2>3. s % q = 0
    BY <2>1, <2>2, RemainderIs
  <2>4. m % q = 0
    BY <1>6, <2>1, <2>2, RemainderIs
  <2> QED   BY <2>3, <2>4
<1> QED   BY <1>14, <1>16 DEF Coprime

\* The row a places after another, round the table.
LEMMA Turned ==
  ASSUME NEW m \in Nat \ {0}, NEW r \in 0 .. m - 1, NEW a \in 1 .. m - 1
  PROVE  (r + a) % m = IF r + a < m THEN r + a ELSE r + a - m
<1>1. CASE r + a < m
  <2>1. r + a \in 0 .. m - 1 /\ r + a = 0 * m + (r + a) /\ 0 \in Int
    BY <1>1
  <2>2. (r + a) % m = r + a
    BY <2>1, RemainderIs
  <2> QED   BY <1>1, <2>2
<1>2. CASE ~(r + a < m)
  <2>1. r + a - m \in 0 .. m - 1 /\ r + a = 1 * m + (r + a - m) /\ 1 \in Int
    BY <1>2
  <2>2. (r + a) % m = r + a - m
    BY <2>1, RemainderIs
  <2> QED   BY <1>2, <2>2
<1> QED   BY <1>1, <1>2

-----------------------------------------------------------------------------
(* The first k of a set, in order. *)

\* The member of rank t - 1 stands at place t.
LEMMA RankedFirsts ==
  ASSUME NEW S, IsFiniteSet(S), NEW R, StrictTotal(S, R), NEW k \in Nat, NEW m,
         m = IF k <= Cardinality(S) THEN k ELSE Cardinality(S),
         NEW z \in [1 .. m -> S], \A t \in 1 .. m : RankIn(S, R, z[t]) = t - 1
  PROVE  Firsts(z, m, S, R, k)
<1>1. Cardinality(S) \in Nat
  BY FS_CardinalityType
<1>2. m \in 0 .. k /\ m \in Nat
  BY <1>1
<1>3. ASSUME NEW x \in S, NEW t \in 1 .. m, t <= RankIn(S, R, x) PROVE <<z[t], x>> \in R
  <2>1. z[t] \in S /\ RankIn(S, R, z[t]) = t - 1 /\ t \in Int   OBVIOUS
  <2>2. RankIn(S, R, x) \in 0 .. Cardinality(S) - 1
    BY Ranks
  <2>3. ~(RankIn(S, R, x) < t - 1) /\ RankIn(S, R, x) # t - 1
    BY <1>1, <1>3, <2>1, <2>2
  <2>4. ~(<<x, z[t]>> \in R)
    <3>1. <<x, z[t]>> \in R => RankIn(S, R, x) < RankIn(S, R, z[t])
      BY <2>1, Ranks
    <3> QED   BY <2>1, <2>3, <3>1
  <2>5. z[t] # x
    BY <2>1, <2>3
  <2> QED   BY <2>1, <2>4, <2>5 DEF StrictTotal
<1>4. ASSUME NEW t \in 1 .. m, NEW u \in 1 .. m, t < u PROVE <<z[t], z[u]>> \in R
  <2>1. z[u] \in S /\ RankIn(S, R, z[u]) = u - 1 /\ t \in Int /\ u \in Int   OBVIOUS
  <2>2. t <= RankIn(S, R, z[u])
    BY <1>4, <2>1
  <2> QED   BY <1>3, <2>1, <2>2
<1>5. ASSUME NEW s \in S, ~(\E t \in 1 .. m : z[t] = s)
      PROVE  m = k /\ \A t \in 1 .. m : <<z[t], s>> \in R
  <2>1. PICK r : r = RankIn(S, R, s)   OBVIOUS
  <2>2. r \in 0 .. Cardinality(S) - 1
    BY <2>1, Ranks
  <2>3. r >= m
    <3>1. SUFFICES ASSUME r < m PROVE FALSE
      BY <1>2, <2>2
    <3>2. r + 1 \in 1 .. m
      BY <1>1, <1>2, <2>2, <3>1
    <3>3. z[r + 1] \in S /\ RankIn(S, R, z[r + 1]) = (r + 1) - 1
      BY <3>2
    <3>4. (r + 1) - 1 = r
      BY <2>2
    <3>5. z[r + 1] = s
      BY <2>1, <3>3, <3>4, Ranks
    <3> QED   BY <1>5, <3>2, <3>5
  <2>4. m = k
    BY <1>1, <1>2, <2>2, <2>3
  <2>5. ASSUME NEW t \in 1 .. m PROVE <<z[t], s>> \in R
    <3>1. t <= r
      BY <1>2, <2>2, <2>3
    <3> QED   BY <1>3, <2>1, <3>1
  <2> QED   BY <2>4, <2>5
<1> QED   BY <1>2, <1>4, <1>5 DEF Firsts

\* A list that repeats nothing names as many members as it is long.
LEMMA ImageSize ==
  ASSUME NEW o \in Nat, NEW z, \A t, u \in 1 .. o : z[t] = z[u] => t = u
  PROVE  IsFiniteSet(Image(z, o)) /\ Cardinality(Image(z, o)) = o
<1>1. PICK W, f : W = Image(z, o) /\ f = [t \in 1 .. o |-> z[t]]   OBVIOUS
<1>2. f \in Surjection(1 .. o, W)
  BY <1>1 DEF Surjection, Image
<1>3. f \in Injection(1 .. o, W)
  BY <1>1 DEF Injection, IsInjective, Image
<1>4. ExistsBijection(1 .. o, W)
  BY <1>2, <1>3 DEF Bijection, ExistsBijection
<1>5. IsFiniteSet(1 .. o)
  BY FS_Interval
<1>6. Cardinality(1 .. o) = o
  <2>1. Cardinality(1 .. o) = IF 1 > o THEN 0 ELSE o - 1 + 1
    BY FS_Interval
  <2>2. (IF 1 > o THEN 0 ELSE o - 1 + 1) = o   OBVIOUS
  <2> QED   BY <2>1, <2>2
<1>7. IsFiniteSet(W) /\ Cardinality(W) = Cardinality(1 .. o)
  BY <1>4, <1>5, FS_Bijection
<1> QED   BY <1>1, <1>6, <1>7

\* What stands at place t has t - 1 members before it, and the length is that of
\* the set where that is less than k.
LEMMA FirstsRanks ==
  ASSUME NEW S, IsFiniteSet(S), NEW R, StrictTotal(S, R), NEW k \in Nat, NEW m, NEW z,
         Firsts(z, m, S, R, k)
  PROVE  /\ m = IF k <= Cardinality(S) THEN k ELSE Cardinality(S)
         /\ \A t \in 1 .. m : RankIn(S, R, z[t]) = t - 1
<1>1. Cardinality(S) \in Nat /\ m \in Nat /\ m <= k /\ z \in [1 .. m -> S]
  BY FS_CardinalityType DEF Firsts
<1>2. \A t, u \in 1 .. m : t < u => <<z[t], z[u]>> \in R
  BY DEF Firsts
<1>3. \A t, u \in 1 .. m : z[t] = z[u] => t = u
  <2>1. SUFFICES ASSUME NEW t \in 1 .. m, NEW u \in 1 .. m, z[t] = z[u], t # u PROVE FALSE   OBVIOUS
  <2>2. t < u \/ u < t
    BY <2>1
  <2>3. <<z[t], z[u]>> \in R \/ <<z[u], z[t]>> \in R
    BY <1>2, <2>2
  <2>4. z[t] \in S
    BY <1>1
  <2> QED   BY <2>1, <2>3, <2>4 DEF StrictTotal
<1>4. ASSUME NEW o \in 0 .. m
      PROVE  IsFiniteSet(Image(z, o)) /\ Cardinality(Image(z, o)) = o
  <2>1. o \in Nat /\ \A t \in 1 .. o : t \in 1 .. m
    BY <1>1
  <2>2. \A t, u \in 1 .. o : z[t] = z[u] => t = u
    BY <1>3, <2>1
  <2> QED   BY <2>1, <2>2, ImageSize
<1>5. m = IF k <= Cardinality(S) THEN k ELSE Cardinality(S)
  <2>1. PICK W : W = Image(z, m)   OBVIOUS
  <2>2. m \in 0 .. m
    BY <1>1
  <2>3. IsFiniteSet(W) /\ Cardinality(W) = m
    BY <1>4, <2>1, <2>2
  <2>4. W \in SUBSET S
    BY <1>1, <2>1 DEF Image
  <2>5. m <= Cardinality(S)
    BY <2>3, <2>4, FS_Subset
  <2>6. CASE m = k
    BY <1>1, <2>5, <2>6
  <2>7. CASE m # k
    <3>1. \A s \in S : s \in W
      BY <2>1, <2>7 DEF Firsts, Image
    <3>2. S = W
      BY <2>4, <3>1
    <3> QED   BY <1>1, <2>3, <2>7, <3>2
  <2> QED   BY <2>6, <2>7
<1>6. ASSUME NEW t \in 1 .. m PROVE RankIn(S, R, z[t]) = t - 1
  <2>1. PICK o : o = t - 1   OBVIOUS
  <2>2. o \in 0 .. m /\ \A u \in 1 .. m : u \in 1 .. o <=> u < t
    BY <1>1, <2>1
  <2>3. Below(S, R, z[t]) = Image(z, o)
    <3>1. ASSUME NEW u \in 1 .. o PROVE z[u] \in Below(S, R, z[t])
      <4>1. u \in 1 .. m /\ u < t
        BY <1>1, <2>2
      <4> QED   BY <1>1, <1>2, <4>1 DEF Below
    <3>2. ASSUME NEW s \in Below(S, R, z[t]) PROVE s \in Image(z, o)
      <4>1. s \in S /\ <<s, z[t]>> \in R /\ z[t] \in S
        BY <1>1 DEF Below
      <4>2. ~(<<z[t], s>> \in R)
        BY <4>1 DEF StrictTotal
      <4>3. PICK u \in 1 .. m : z[u] = s
        BY <4>1, <4>2 DEF Firsts
      <4>4. ~(t < u) /\ u # t
        BY <1>2, <4>1, <4>2, <4>3 DEF StrictTotal
      <4>5. u \in 1 .. o
        BY <2>2, <4>4
      <4> QED   BY <4>3, <4>5 DEF Image
    <3> QED   BY <3>1, <3>2 DEF Image
  <2>4. Cardinality(Image(z, o)) = o
    BY <1>4, <2>2
  <2> QED   BY <2>1, <2>3, <2>4 DEF RankIn
<1> QED   BY <1>5, <1>6

\* There is one such list.
LEMMA FirstsUnique ==
  ASSUME NEW S, IsFiniteSet(S), NEW R, StrictTotal(S, R), NEW k \in Nat, NEW m, NEW z,
         Firsts(z, m, S, R, k), NEW l, NEW y, Firsts(y, l, S, R, k)
  PROVE  m = l /\ z = y
<1>1. m = l
  BY FirstsRanks
<1>2. z \in [1 .. m -> S] /\ y \in [1 .. m -> S]
  BY <1>1 DEF Firsts
<1>3. ASSUME NEW t \in 1 .. m PROVE z[t] = y[t]
  <2>1. z[t] \in S /\ y[t] \in S
    BY <1>2
  <2>2. RankIn(S, R, z[t]) = t - 1
    BY FirstsRanks
  <2>3. RankIn(S, R, y[t]) = t - 1
    BY <1>1, FirstsRanks
  <2> QED   BY <2>1, <2>2, <2>3, Ranks
<1>4. z = y
  <2>1. z = [t \in 1 .. m |-> z[t]] /\ y = [t \in 1 .. m |-> y[t]]
    BY <1>2
  <2>2. [t \in 1 .. m |-> z[t]] = [t \in 1 .. m |-> y[t]]
    BY <1>3
  <2> QED   BY <2>1, <2>2
<1> QED   BY <1>1, <1>4

\* The members of a list before x are its first ones.
LEMMA PlaceOf ==
  ASSUME NEW S, NEW R, NEW x, StrictTotal(S \cup {x}, R), NEW k \in Nat, NEW m, NEW z,
         Firsts(z, m, S, R, k), \A t \in 1 .. m : z[t] # x,
         NEW p, p = Cardinality(PlacesBefore(z, m, R, x))
  PROVE  p \in 0 .. m /\ \A t \in 1 .. m : t <= p <=> <<z[t], x>> \in R
<1>1. m \in Nat /\ z \in [1 .. m -> S] /\ \A t, u \in 1 .. m : t < u => <<z[t], z[u]>> \in R
  BY DEF Firsts
<1>0. PICK B : B = PlacesBefore(z, m, R, x)   OBVIOUS
<1>2. B = {t \in 1 .. m : <<z[t], x>> \in R}
  BY <1>0 DEF PlacesBefore
<1>3. ASSUME NEW t \in B, NEW u \in 1 .. t PROVE u \in B
  <2>1. t \in 1 .. m /\ u \in 1 .. m /\ <<z[t], x>> \in R /\ t \in Int /\ u \in Int
    BY <1>1, <1>2
  <2>2. CASE u = t
    BY <2>2
  <2>3. CASE u # t
    <3>1. u < t
      BY <2>1, <2>3
    <3>2. <<z[u], z[t]>> \in R /\ z[u] \in S \cup {x} /\ z[t] \in S \cup {x} /\ x \in S \cup {x}
      BY <1>1, <2>1, <3>1
    <3>3. <<z[u], x>> \in R
      BY <2>1, <3>2 DEF StrictTotal
    <3> QED   BY <1>2, <2>1, <3>3
  <2> QED   BY <2>2, <2>3
<1>4. PICK o \in 0 .. m : B = 1 .. o
  <2>1. PICK M : M = {c \in 0 .. m : \A t \in B : t <= c}   OBVIOUS
  <2>2. m \in M /\ M \subseteq Nat
    BY <1>1, <1>2, <2>1
  <2>3. PICK c \in M : \A d \in M : c <= d
    BY <2>2, LeastNat
  <2>4. c \in 0 .. m /\ \A t \in B : t <= c
    BY <2>1, <2>3
  <2>5. \A t \in B : t \in 1 .. c
    <3>1. ASSUME NEW t \in B PROVE t \in 1 .. c
      <4>1. t \in 1 .. m /\ t <= c
        BY <1>2, <2>4
      <4> QED   BY <2>4, <4>1
    <3> QED   BY <3>1
  <2>6. c # 0 => c \in B
    <3>1. SUFFICES ASSUME c # 0, c \notin B PROVE FALSE   OBVIOUS
    <3>2. c - 1 \in 0 .. m
      BY <1>1, <2>4, <3>1
    <3>3. \A t \in B : t <= c - 1
      <4>1. ASSUME NEW t \in B PROVE t <= c - 1
        <5>1. t \in 1 .. c /\ t # c
          BY <2>5, <3>1
        <5> QED   BY <2>4, <5>1
      <4> QED   BY <4>1
    <3>4. c - 1 \in M
      BY <2>1, <3>2, <3>3
    <3> QED   BY <2>3, <2>4, <3>4
  <2>7. \A u \in 1 .. c : u \in B
    <3>1. ASSUME NEW u \in 1 .. c PROVE u \in B
      <4>1. c # 0 /\ c \in B
        BY <2>4, <2>6
      <4> QED   BY <1>3, <4>1
    <3> QED   BY <3>1
  <2> QED   BY <2>4, <2>5, <2>7
<1>5. p = o
  <2>1. Cardinality(1 .. o) = IF 1 > o THEN 0 ELSE o - 1 + 1
    BY <1>1, FS_Interval
  <2>2. Cardinality(1 .. o) = o
    BY <1>1, <2>1
  <2> QED   BY <1>0, <1>4, <2>2
<1>6. ASSUME NEW t \in 1 .. m PROVE t <= o <=> <<z[t], x>> \in R
  <2>1. t \in B <=> t \in 1 .. o
    BY <1>4
  <2>2. t \in 1 .. o <=> t <= o
    BY <1>1
  <2> QED   BY <1>2, <2>1, <2>2
<1> QED   BY <1>4, <1>5, <1>6

\* A list names different members.
LEMMA FirstsImage ==
  ASSUME NEW S, NEW R, StrictTotal(S, R), NEW k \in Nat, NEW m, NEW z, Firsts(z, m, S, R, k)
  PROVE  IsFiniteSet(Image(z, m)) /\ Cardinality(Image(z, m)) = m
<1>1. m \in Nat /\ z \in [1 .. m -> S] /\ \A t, u \in 1 .. m : t < u => <<z[t], z[u]>> \in R
  BY DEF Firsts
<1>2. \A t, u \in 1 .. m : z[t] = z[u] => t = u
  <2>1. SUFFICES ASSUME NEW t \in 1 .. m, NEW u \in 1 .. m, z[t] = z[u], t # u PROVE FALSE   OBVIOUS
  <2>2. t < u \/ u < t
    BY <2>1
  <2>3. <<z[t], z[u]>> \in R \/ <<z[u], z[t]>> \in R
    BY <1>1, <2>2
  <2>4. z[t] \in S
    BY <1>1
  <2> QED   BY <2>1, <2>3, <2>4 DEF StrictTotal
<1> QED   BY <1>1, <1>2, ImageSize

\* A member that is not among the k in a full list follows them.
LEMMA FirstsKeep ==
  ASSUME NEW S, NEW R, NEW x, x \notin S, StrictTotal(S \cup {x}, R), NEW k \in Nat,
         NEW m, NEW z, Firsts(z, m, S, R, k), NEW p, p >= k, p \in 0 .. m,
         \A t \in 1 .. m : t <= p <=> <<z[t], x>> \in R
  PROVE  Firsts(z, m, S \cup {x}, R, k)
<1>1. m \in 0 .. k /\ z \in [1 .. m -> S] /\ \A t, u \in 1 .. m : t < u => <<z[t], z[u]>> \in R
  BY DEF Firsts
<1>2. m = k /\ p = m
  BY <1>1
<1>3. \A t \in 1 .. m : <<z[t], x>> \in R
  BY <1>1, <1>2
<1>4. z \in [1 .. m -> S \cup {x}]
  BY <1>1
<1>5. ASSUME NEW s \in S \cup {x}
      PROVE  \/ \E t \in 1 .. m : z[t] = s
             \/ m = k /\ \A t \in 1 .. m : <<z[t], s>> \in R
  <2>1. CASE s = x
    BY <1>2, <1>3, <2>1
  <2>2. CASE s \in S
    BY <2>2 DEF Firsts
  <2> QED   BY <2>1, <2>2
<1> QED   BY <1>1, <1>4, <1>5 DEF Firsts

\* A member that goes in behind the first p is put there.
LEMMA FirstsInsert ==
  ASSUME NEW S, NEW R, NEW x, x \notin S, StrictTotal(S \cup {x}, R), NEW k \in Nat,
         NEW m, NEW z, Firsts(z, m, S, R, k), NEW p, p < k, p \in 0 .. m,
         \A t \in 1 .. m : t <= p <=> <<z[t], x>> \in R,
         NEW l, l = IF m + 1 <= k THEN m + 1 ELSE k
  PROVE  Firsts(Inserted(z, p, x, l), l, S \cup {x}, R, k)
<1>1. m \in 0 .. k /\ z \in [1 .. m -> S] /\ \A t, u \in 1 .. m : t < u => <<z[t], z[u]>> \in R
  BY DEF Firsts
<1>2. p \in Nat /\ m \in Nat /\ l \in 0 .. k /\ l \in Nat /\ p + 1 <= l /\ l <= m + 1 /\ p <= m
  BY <1>1
<1>3. PICK V : V = S \cup {x}   OBVIOUS
<1>4. ASSUME NEW a \in V, NEW b \in V, NEW c \in V, <<a, b>> \in R, <<b, c>> \in R
      PROVE  <<a, c>> \in R
  BY <1>3, <1>4 DEF StrictTotal
<1>5. ASSUME NEW t \in 1 .. m
      PROVE  z[t] \in V /\ (t <= p => <<z[t], x>> \in R) /\ (t > p => <<x, z[t]>> \in R)
  <2>1. z[t] \in S /\ z[t] # x
    BY <1>1
  <2>2. <<z[t], x>> \in R \/ <<x, z[t]>> \in R
    BY <2>1 DEF StrictTotal
  <2>3. t > p => ~(t <= p)
    BY <1>2
  <2> QED   BY <1>3, <2>1, <2>2, <2>3
<1>6. x \in V
  BY <1>3
<1>7. PICK y : y = Inserted(z, p, x, l)   OBVIOUS
<1>8. ASSUME NEW t \in 1 .. l
      PROVE  \/ t <= p /\ t \in 1 .. m /\ y[t] = z[t]
             \/ t = p + 1 /\ y[t] = x
             \/ t > p + 1 /\ t - 1 \in 1 .. m /\ t - 1 > p /\ y[t] = z[t - 1]
  <2>1. y[t] = IF t <= p THEN z[t] ELSE IF t = p + 1 THEN x ELSE z[t - 1]
    BY <1>7 DEF Inserted
  <2>2. CASE t <= p
    BY <1>2, <2>1, <2>2
  <2>3. CASE t = p + 1
    BY <1>2, <2>1, <2>3
  <2>4. CASE ~(t <= p) /\ t # p + 1
    BY <1>2, <2>1, <2>4
  <2> QED   BY <2>2, <2>3, <2>4
<1>9. y \in [1 .. l -> V]
  <2>1. ASSUME NEW t \in 1 .. l PROVE y[t] \in V
    BY <1>5, <1>6, <1>8
  <2>2. y = [t \in 1 .. l |-> y[t]]
    BY <1>7 DEF Inserted
  <2> QED   BY <2>1, <2>2
<1>10. ASSUME NEW t \in 1 .. l, NEW u \in 1 .. l, t < u PROVE <<y[t], y[u]>> \in R
  <2>0. t \in Int /\ u \in Int   OBVIOUS
  <2>1. CASE u <= p
    <3>1. t \in 1 .. m /\ u \in 1 .. m /\ y[t] = z[t] /\ y[u] = z[u]
      BY <1>2, <1>8, <1>10, <2>0, <2>1
    <3> QED   BY <1>1, <1>10, <3>1
  <2>2. CASE u = p + 1
    <3>1. t <= p /\ t \in 1 .. m /\ y[t] = z[t] /\ y[u] = x
      BY <1>2, <1>8, <1>10, <2>0, <2>2
    <3> QED   BY <1>5, <3>1
  <2>3. CASE u > p + 1
    <3>1. u - 1 \in 1 .. m /\ u - 1 > p /\ y[u] = z[u - 1]
      BY <1>2, <1>8, <2>0, <2>3
    <3>2. CASE t <= p
      <4>1. t \in 1 .. m /\ y[t] = z[t] /\ t < u - 1
        BY <1>2, <1>8, <2>0, <2>3, <3>2
      <4> QED   BY <1>1, <3>1, <4>1
    <3>3. CASE t = p + 1
      <4>1. y[t] = x
        BY <1>2, <1>8, <2>0, <3>3
      <4> QED   BY <1>5, <3>1, <4>1
    <3>4. CASE t > p + 1
      <4>1. t - 1 \in 1 .. m /\ y[t] = z[t - 1] /\ t - 1 < u - 1
        BY <1>2, <1>8, <1>10, <2>0, <3>4
      <4> QED   BY <1>1, <3>1, <4>1
    <3> QED   BY <1>2, <2>0, <3>2, <3>3, <3>4
  <2> QED   BY <1>2, <2>0, <2>1, <2>2, <2>3
<1>11. ASSUME NEW s \in V, ~(\E t \in 1 .. l : y[t] = s)
       PROVE  l = k /\ \A t \in 1 .. l : <<y[t], s>> \in R
  <2>1. p + 1 \in 1 .. l /\ y[p + 1] = x
    BY <1>2, <1>8
  <2>2. s \in S /\ s # x
    BY <1>3, <1>11, <2>1
  <2>3. CASE \E t \in 1 .. m : z[t] = s
    <3>1. PICK t \in 1 .. m : z[t] = s
      BY <2>3
    <3>2. ~(t <= p)
      <4>1. SUFFICES ASSUME t <= p PROVE FALSE   OBVIOUS
      <4>2. t \in 1 .. l /\ t <= p /\ ~(t = p + 1) /\ ~(t > p + 1)
        BY <1>2, <4>1
      <4>3. y[t] = z[t]
        BY <1>8, <4>2
      <4> QED   BY <1>11, <3>1, <4>2, <4>3
    <3>3. ~(t + 1 <= l)
      <4>1. SUFFICES ASSUME t + 1 <= l PROVE FALSE   OBVIOUS
      <4>2. t + 1 \in 1 .. l /\ t + 1 > p + 1 /\ ~(t + 1 <= p) /\ t + 1 # p + 1 /\ (t + 1) - 1 = t
        BY <1>2, <3>2, <4>1
      <4>3. y[t + 1] = z[t]
        BY <1>8, <4>2
      <4> QED   BY <1>11, <3>1, <4>2, <4>3
    <3>4. l = k /\ t = l /\ m = l
      BY <1>1, <1>2, <3>3
    <3>5. ASSUME NEW u \in 1 .. l PROVE <<y[u], s>> \in R
      <4>1. CASE u <= p
        <5>1. u \in 1 .. m /\ y[u] = z[u] /\ u < t
          BY <1>2, <1>8, <3>2, <4>1
        <5> QED   BY <1>1, <3>1, <5>1
      <4>2. CASE u = p + 1
        <5>1. y[u] = x /\ t > p
          BY <1>2, <1>8, <3>2, <4>2
        <5> QED   BY <1>5, <3>1, <5>1
      <4>3. CASE u > p + 1
        <5>1. u - 1 \in 1 .. m /\ y[u] = z[u - 1] /\ u - 1 < t
          BY <1>2, <1>8, <3>4, <4>3
        <5> QED   BY <1>1, <3>1, <5>1
      <4> QED   BY <1>2, <4>1, <4>2, <4>3
    <3> QED   BY <3>4, <3>5
  <2>4. CASE ~(\E t \in 1 .. m : z[t] = s)
    <3>1. m = k /\ \A t \in 1 .. m : <<z[t], s>> \in R
      BY <2>2, <2>4 DEF Firsts
    <3>2. l = k /\ p + 1 \in 1 .. m /\ p + 1 > p
      BY <1>2, <3>1
    <3>3. <<x, s>> \in R
      <4>1. <<x, z[p + 1]>> \in R /\ z[p + 1] \in V /\ <<z[p + 1], s>> \in R
        BY <1>5, <3>1, <3>2
      <4> QED   BY <1>4, <1>6, <4>1
    <3>4. ASSUME NEW u \in 1 .. l PROVE <<y[u], s>> \in R
      BY <1>8, <3>1, <3>3
    <3> QED   BY <3>2, <3>4
  <2> QED   BY <2>3, <2>4
<1> QED   BY <1>2, <1>3, <1>7, <1>9, <1>10, <1>11 DEF Firsts

\* The first of a set and of what comes to it are among the first of the set
\* and what comes to it.
LEMMA FirstsOfFirsts ==
  ASSUME NEW S, NEW T, NEW R, IsFiniteSet(S), IsFiniteSet(T), StrictTotal(S \cup T, R),
         NEW k \in Nat,
         NEW m, NEW h, Firsts(h, m, S, R, k), NEW l, NEW z,
         Firsts(z, l, Image(h, m) \cup T, R, k)
  PROVE  Firsts(z, l, S \cup T, R, k)
<1>1. PICK H : H = Image(h, m)   OBVIOUS
<1>2. PICK U : U = H \cup T   OBVIOUS
<1>3. Firsts(z, l, U, R, k)
  BY <1>1, <1>2
<1>4. m \in 0 .. k /\ h \in [1 .. m -> S]
  BY DEF Firsts
<1>5. H \subseteq S
  BY <1>1, <1>4 DEF Image
<1>6. U \subseteq S \cup T
  BY <1>2, <1>5
<1>7. StrictTotal(U, R) /\ StrictTotal(S, R)
  BY <1>6 DEF StrictTotal
<1>8. IsFiniteSet(H) /\ Cardinality(H) = m
  BY <1>1, <1>7, FirstsImage
<1>9. IsFiniteSet(U)
  BY <1>2, <1>8, FS_Union
<1>10. /\ l \in 0 .. k /\ z \in [1 .. l -> U]
       /\ \A t, u \in 1 .. l : t < u => <<z[t], z[u]>> \in R
  BY <1>3 DEF Firsts
<1>11. ASSUME NEW s \in S \cup T, ~(\E t \in 1 .. l : z[t] = s)
       PROVE  l = k /\ \A t \in 1 .. l : <<z[t], s>> \in R
  <2>1. CASE s \in U
    BY <1>3, <1>11, <2>1 DEF Firsts
  <2>2. CASE s \notin U
    <3>1. s \in S /\ ~(\E t \in 1 .. m : h[t] = s)
      BY <1>1, <1>2, <2>2 DEF Image
    <3>2. m = k /\ \A t \in 1 .. m : <<h[t], s>> \in R
      BY <3>1 DEF Firsts
    <3>3. Cardinality(U) \in Nat /\ k <= Cardinality(U)
      <4>1. H \in SUBSET U
        BY <1>2
      <4>2. Cardinality(H) <= Cardinality(U)
        BY <1>9, <4>1, FS_Subset
      <4>3. Cardinality(U) \in Nat
        BY <1>9, FS_CardinalityType
      <4> QED   BY <1>8, <3>2, <4>2, <4>3
    <3>4. l = IF k <= Cardinality(U) THEN k ELSE Cardinality(U)
      BY <1>3, <1>7, <1>9, FirstsRanks
    <3>5. l = k
      BY <3>3, <3>4
    <3>6. ASSUME NEW t \in 1 .. l, ~(<<z[t], s>> \in R) PROVE FALSE
      <4>1. z[t] \in U /\ z[t] \in S \cup T /\ z[t] # s
        BY <1>6, <1>10, <1>11
      <4>2. <<s, z[t]>> \in R
        BY <3>6, <4>1 DEF StrictTotal
      <4>3. H \in SUBSET Below(U, R, z[t])
        <5>1. ASSUME NEW a \in H PROVE a \in U /\ <<a, z[t]>> \in R
          <6>1. a \in U /\ a \in S \cup T /\ <<a, s>> \in R
            BY <1>1, <1>2, <1>5, <3>2 DEF Image
          <6> QED   BY <4>1, <4>2, <6>1 DEF StrictTotal
        <5> QED   BY <5>1 DEF Below
      <4>4. Below(U, R, z[t]) \in SUBSET U
        BY DEF Below
      <4>5. IsFiniteSet(Below(U, R, z[t]))
        BY <1>9, <4>4, FS_Subset
      <4>6. Cardinality(H) <= Cardinality(Below(U, R, z[t]))
        BY <4>3, <4>5, FS_Subset
      <4>7. RankIn(U, R, z[t]) = t - 1
        BY <1>3, <1>7, <1>9, FirstsRanks
      <4>8. m <= t - 1
        BY <1>8, <4>6, <4>7 DEF RankIn
      <4> QED   BY <1>4, <3>2, <3>5, <4>8
    <3> QED   BY <3>5, <3>6
  <2> QED   BY <2>1, <2>2
<1>12. z \in [1 .. l -> S \cup T]
  BY <1>6, <1>10
<1> QED   BY <1>10, <1>11, <1>12 DEF Firsts

-----------------------------------------------------------------------------
(* The rows of a build and their orders. *)

LEMMA MinOfTwo ==
  ASSUME NEW a \in Int, NEW b \in Int
  PROVE  Min({a, b}) = IF a <= b THEN a ELSE b
<1>1. PICK c : c = IF a <= b THEN a ELSE b   OBVIOUS
<1>2. c \in {a, b} /\ \A y \in {a, b} : c <= y
  BY <1>1
<1>3. ASSUME NEW x \in {a, b}, \A y \in {a, b} : x <= y PROVE x = c
  <2>1. x <= c /\ c <= x /\ x \in Int /\ c \in Int
    BY <1>2, <1>3
  <2> QED   BY <2>1
<1>4. Min({a, b}) = c
  BY <1>2, <1>3 DEF Min
<1> QED   BY <1>1, <1>4

LEMMA BuildFacts ==
  ASSUME build \in Builds
  PROVE  /\ n \in Nat /\ n >= 2 /\ degree \in 1 .. n - 1 /\ sample_count \in 1 .. degree
         /\ sample_count \in Nat /\ degree \in Nat /\ build.iters \in Nat \ {0}
         /\ Rows = 0 .. n - 1 /\ IsFiniteSet(Rows) /\ Cardinality(Rows) = n
<1>1. /\ build.xs \in Seq(Int) /\ Len(build.xs) >= 2 /\ build.degree \in Nat \ {0}
      /\ build.iters \in Nat \ {0} /\ SampleCap \in Nat \ {0}
  BY NnAssumption
<1>2. n \in Nat /\ n >= 2
  <2>1. Len(build.xs) \in Nat
    BY <1>1, LenProperties
  <2> QED   BY <1>1, <2>1 DEF n
<1>3. degree \in 1 .. n - 1
  <2>1. degree = IF build.degree <= n - 1 THEN build.degree ELSE n - 1
    BY SMTT(30), <1>1, <1>2, MinOfTwo DEF degree
  <2> QED   BY <1>1, <1>2, <2>1
<1>4. degree \in Nat
  BY <1>2, <1>3
<1>5. sample_count \in 1 .. degree /\ sample_count \in Nat
  <2>1. sample_count = IF degree <= SampleCap THEN degree ELSE SampleCap
    BY <1>1, <1>4, MinOfTwo DEF sample_count
  <2> QED   BY <1>1, <1>2, <1>3, <1>4, <2>1
<1>6. Rows = 0 .. n - 1
  BY DEF Rows
<1>7. IsFiniteSet(Rows) /\ Cardinality(Rows) = n
  <2>1. /\ IsFiniteSet(0 .. n - 1)
        /\ Cardinality(0 .. n - 1) = IF 0 > n - 1 THEN 0 ELSE (n - 1) - 0 + 1
    BY <1>2, FS_Interval
  <2> QED   BY <1>2, <1>6, <2>1
<1> QED   BY <1>1, <1>2, <1>3, <1>4, <1>5, <1>6, <1>7

LEMMA RowsAreNumbers ==
  ASSUME build \in Builds, NEW S, S \subseteq Rows
  PROVE  S \subseteq Nat /\ S \subseteq Int /\ IsFiniteSet(S) /\ Cardinality(S) \in Nat
<1>1. Rows \subseteq Nat
  BY BuildFacts
<1>2. IsFiniteSet(S)
  BY BuildFacts, FS_Subset
<1> QED   BY <1>1, <1>2, FS_CardinalityType

LEMMA DistanceIsInt ==
  ASSUME build \in Builds, NEW a \in Rows, NEW b \in Rows
  PROVE  distance(a, b) \in Int
<1>1. build.xs \in Seq(Int) /\ a + 1 \in 1 .. Len(build.xs) /\ b + 1 \in 1 .. Len(build.xs)
  <2>1. build.xs \in Seq(Int)
    BY NnAssumption
  <2>2. n \in Nat /\ a \in 0 .. n - 1 /\ b \in 0 .. n - 1
    BY BuildFacts
  <2> QED   BY <2>1, <2>2 DEF n
<1>2. build.xs[a + 1] \in Int /\ build.xs[b + 1] \in Int
  BY <1>1, ElementOfSeq
<1>3. PICK x, y : x = build.xs[a + 1] /\ y = build.xs[b + 1]   OBVIOUS
<1>4. (x - y) * (x - y) \in Int
  BY <1>2, <1>3
<1> QED   BY <1>3, <1>4 DEF distance

LEMMA NearIs ==
  ASSUME NEW row, NEW a \in Rows, NEW b \in Rows
  PROVE  <<a, b>> \in Near(row) <=> nearer(row, a, b)
BY DEF Near

LEMMA PrioIs ==
  ASSUME NEW target, NEW class, NEW a \in Rows, NEW b \in Rows
  PROVE  <<a, b>> \in Prio(target, class) <=> Ahead(a, b, target, class)
BY DEF Prio

LEMMA NearOrders ==
  ASSUME build \in Builds, NEW row \in Rows, NEW S, S \subseteq Rows
  PROVE  StrictTotal(S, Near(row))
<1>1. ASSUME NEW a \in S, NEW b \in S
      PROVE  /\ a \in Rows /\ b \in Rows /\ a \in Int /\ b \in Int
             /\ distance(row, a) \in Int /\ distance(row, b) \in Int
             /\ <<a, b>> \in Near(row) <=>
                  \/ distance(row, a) < distance(row, b)
                  \/ distance(row, a) = distance(row, b) /\ a < b
  BY DistanceIsInt, RowsAreNumbers, NearIs DEF nearer
<1>2. \A a \in S : <<a, a>> \notin Near(row)
  BY <1>1
<1>3. \A a, b \in S : a # b => <<a, b>> \in Near(row) \/ <<b, a>> \in Near(row)
  BY <1>1
<1>4. ASSUME NEW a \in S, NEW b \in S, NEW c \in S,
             <<a, b>> \in Near(row), <<b, c>> \in Near(row)
      PROVE  <<a, c>> \in Near(row)
  BY <1>1, <1>4
<1> QED   BY <1>2, <1>3, <1>4 DEF StrictTotal

LEMMA PrioOrders ==
  ASSUME build \in Builds, iteration \in 0 .. build.iters,
         NEW target \in Rows, NEW class \in {"new", "old"}, NEW S, S \subseteq Rows
  PROVE  StrictTotal(S, Prio(target, class))
<1>1. PICK p : p = [a \in Rows |-> Priority(a, target, class, iteration)]   OBVIOUS
<1>2. \A a \in Rows : p[a] \in Int
  <2>1. ASSUME NEW a \in Rows PROVE p[a] \in Int
    <3>1. a \in 0 .. Len(build.xs) - 1 /\ target \in 0 .. Len(build.xs) - 1
      BY DEF Rows, n
    <3>2. Priority(a, target, class, iteration) \in Int
      BY <3>1, NnAssumption
    <3> QED   BY <1>1, <3>2
  <2> QED   BY <2>1
<1>3. ASSUME NEW a \in S, NEW b \in S
      PROVE  /\ a \in Int /\ b \in Int /\ p[a] \in Int /\ p[b] \in Int
             /\ <<a, b>> \in Prio(target, class) <=> (p[a] < p[b] \/ (p[a] = p[b] /\ a < b))
  <2>1. a \in Rows /\ b \in Rows   OBVIOUS
  <2>2. p[a] = Priority(a, target, class, iteration) /\ p[b] = Priority(b, target, class, iteration)
    BY <1>1, <2>1
  <2>3. <<a, b>> \in Prio(target, class) <=> Ahead(a, b, target, class)
    BY <2>1, PrioIs
  <2> QED   BY <1>2, <2>1, <2>2, <2>3, RowsAreNumbers DEF Ahead
<1>4. \A a \in S : <<a, a>> \notin Prio(target, class)
  BY <1>3
<1>5. \A a, b \in S : a # b => <<a, b>> \in Prio(target, class) \/ <<b, a>> \in Prio(target, class)
  BY <1>3
<1>6. ASSUME NEW a \in S, NEW b \in S, NEW c \in S,
             <<a, b>> \in Prio(target, class), <<b, c>> \in Prio(target, class)
      PROVE  <<a, c>> \in Prio(target, class)
  BY <1>3, <1>6
<1> QED   BY <1>4, <1>5, <1>6 DEF StrictTotal

\* The rows of S from the nearest on.
LEMMA NearestIs ==
  ASSUME build \in Builds, NEW row \in Rows, NEW S, S \subseteq Rows
  PROVE  /\ Nearest(row, S) \in [1 .. Cardinality(S) -> S]
         /\ \A i \in 1 .. Cardinality(S) : RankIn(S, Near(row), Nearest(row, S)[i]) = i - 1
<1>1. IsFiniteSet(S) /\ Cardinality(S) \in Nat /\ StrictTotal(S, Near(row))
  BY NearOrders, RowsAreNumbers
<1>2. ASSUME NEW x \in S
      PROVE  Cardinality({y \in S : nearer(row, y, x)}) = RankIn(S, Near(row), x)
  <2>1. {y \in S : nearer(row, y, x)} = Below(S, Near(row), x)
    BY NearIs DEF Below
  <2> QED   BY <2>1 DEF RankIn
<1>3. PICK z : z = Nearest(row, S)   OBVIOUS
<1>4. z = [i \in 1 .. Cardinality(S) |->
             CHOOSE x \in S : Cardinality({y \in S : nearer(row, y, x)}) = i - 1]
  BY <1>3 DEF Nearest, Ranked
<1>5. ASSUME NEW i \in 1 .. Cardinality(S)
      PROVE  z[i] \in S /\ RankIn(S, Near(row), z[i]) = i - 1
  <2>1. i - 1 \in 0 .. Cardinality(S) - 1
    BY <1>1
  <2>2. PICK x \in S : RankIn(S, Near(row), x) = i - 1
    BY <1>1, <2>1, RanksReach
  <2>3. z[i] = CHOOSE v \in S : Cardinality({y \in S : nearer(row, y, v)}) = i - 1
    BY <1>4
  <2>4. Cardinality({y \in S : nearer(row, y, x)}) = i - 1
    BY <1>2, <2>2
  <2>5. z[i] \in S /\ Cardinality({y \in S : nearer(row, y, z[i])}) = i - 1
    BY <2>3, <2>4
  <2> QED   BY <1>2, <2>5
<1>6. z \in [1 .. Cardinality(S) -> S]
  BY <1>4, <1>5
<1> QED   BY <1>3, <1>5, <1>6

\* A function on 1 .. m is a list.
LEMMA LengthIs ==
  ASSUME NEW V, NEW m \in Nat, NEW z \in [1 .. m -> V]
  PROVE  z \in Seq(V) /\ DOMAIN z = 1 .. m /\ Len(z) = m
<1>1. z \in Seq(V) /\ DOMAIN z = 1 .. m
  BY SeqDef
<1>2. Len(z) = m
  <2>1. DOMAIN z = 1 .. Len(z) /\ Len(z) \in Nat
    BY <1>1, LenProperties
  <2> QED   BY <1>1, <2>1
<1> QED   BY <1>1, <1>2

\* The first k of a list are a prefix of it.
LEMMA PrefixIs ==
  ASSUME NEW V, NEW m \in Nat, NEW z, OnFirst(z, m, V), NEW k \in Nat
  PROVE  CutTo(z, k) = Prefix(z, LesserOf(k, m))
<1>0. z \in [1 .. m -> V]
  BY DEF OnFirst
<1> PICK l : l = LesserOf(k, m)   OBVIOUS
<1>1. Len(z) = m
  BY <1>0, LengthIs
<1>2. Min({k, Len(z)}) = l
  BY <1>1, MinOfTwo DEF LesserOf
<1>3. l \in Nat /\ l <= m /\ l \in Int /\ 1 \in Int
  BY DEF LesserOf
<1>4. PICK y : y = SubSeq(z, 1, l)   OBVIOUS
<1>5. \A i \in 1 .. l : z[i] \in V
  BY <1>0, <1>3
<1>6. y \in Seq(V)
  BY <1>3, <1>4, <1>5, SubSeqProperties
<1>7. Len(y) = l
  <2>1. Len(y) = IF 1 <= l THEN l - 1 + 1 ELSE 0
    BY <1>3, <1>4, <1>5, SubSeqProperties
  <2> QED   BY <1>3, <2>1
<1>8. \A t \in 1 .. l : y[t] = z[t]
  <2>1. \A t \in 1 .. l - 1 + 1 : SubSeq(z, 1, l)[t] = z[1 + t - 1]
    BY <1>3, <1>5, SubSeqProperties
  <2>2. \A t \in 1 .. l : t \in 1 .. l - 1 + 1 /\ 1 + t - 1 = t
    BY <1>3
  <2> QED   BY <1>4, <2>1, <2>2
<1>9. y = [t \in 1 .. l |-> y[t]]
  <2>1. y \in [1 .. Len(y) -> V]
    BY <1>6, LenProperties
  <2> QED   BY <1>7, <2>1
<1>10. y = [t \in 1 .. l |-> z[t]]
  BY <1>8, <1>9
<1> QED   BY <1>2, <1>4, <1>10 DEF CutTo, Prefix

\* The rows a row keeps are its first ones.
LEMMA TopIs ==
  ASSUME build \in Builds, NEW row \in Rows, NEW S, S \subseteq Rows
  PROVE  Firsts(Top(row, S), IF degree <= Cardinality(S) THEN degree ELSE Cardinality(S),
                S, Near(row), degree)
<1>1. IsFiniteSet(S) /\ Cardinality(S) \in Nat /\ StrictTotal(S, Near(row)) /\ degree \in Nat
  BY BuildFacts, NearOrders, RowsAreNumbers
<1>2. PICK z, m : /\ z = Nearest(row, S)
                  /\ m = IF degree <= Cardinality(S) THEN degree ELSE Cardinality(S)   OBVIOUS
<1>3. /\ z \in [1 .. Cardinality(S) -> S]
      /\ \A i \in 1 .. Cardinality(S) : RankIn(S, Near(row), z[i]) = i - 1
  BY <1>2, NearestIs
<1>4. PICK y : y = [t \in 1 .. m |-> z[t]]   OBVIOUS
<1>5. Top(row, S) = y
  <2>1. PICK c : c = Cardinality(S)   OBVIOUS
  <2>2. c \in Nat /\ degree \in Nat
    BY <1>1, <2>1
  <2>4. OnFirst(z, c, S)
    BY <1>3, <2>1 DEF OnFirst
  <2>5. m = LesserOf(degree, c)
    BY <1>2, <2>1 DEF LesserOf
  <2>6. CutTo(z, degree) = Prefix(z, LesserOf(degree, c))
    BY <2>2, <2>4, PrefixIs
  <2>3. CutTo(z, degree) = Prefix(z, m)
    BY <2>5, <2>6
  <2> QED   BY <1>2, <1>4, <2>3 DEF Top, CutTo, Prefix
<1>6. m \in Nat /\ \A t \in 1 .. m : t \in 1 .. Cardinality(S)
  <2>1. PICK c, k : c = Cardinality(S) /\ k = degree   OBVIOUS
  <2>2. c \in Nat /\ k \in Nat /\ m = IF k <= c THEN k ELSE c
    BY <1>1, <1>2, <2>1
  <2>3. m \in Nat /\ \A t \in 1 .. m : t \in 1 .. c
    BY <2>2
  <2> QED   BY <2>1, <2>3
<1>7. y \in [1 .. m -> S] /\ \A t \in 1 .. m : RankIn(S, Near(row), y[t]) = t - 1
  BY <1>3, <1>4, <1>6
<1>8. Firsts(y, m, S, Near(row), degree)
  BY <1>1, <1>2, <1>7, RankedFirsts
<1> QED   BY <1>2, <1>5, <1>8

\* The sources a target should sample are the first of those that reach it.
LEMMA SampleIs ==
  ASSUME build \in Builds, iteration \in 0 .. build.iters,
         NEW target \in Rows, NEW class \in {"new", "old"},
         NEW S, S = {s \in Rows : Reaches(s, target, class)}
  PROVE  Firsts(SampleOf(target, class),
                IF sample_count <= Cardinality(S) THEN sample_count ELSE Cardinality(S),
                S, Prio(target, class), sample_count)
<1>0. S \subseteq Rows   OBVIOUS
<1>1. /\ IsFiniteSet(S) /\ Cardinality(S) \in Nat /\ StrictTotal(S, Prio(target, class))
      /\ sample_count \in Nat
  BY <1>0, BuildFacts, PrioOrders, RowsAreNumbers
<1>2. ASSUME NEW x \in S
      PROVE  Cardinality({y \in S : Ahead(y, x, target, class)}) = RankIn(S, Prio(target, class), x)
  <2>1. {y \in S : Ahead(y, x, target, class)} = Below(S, Prio(target, class), x)
    BY <1>0, PrioIs DEF Below
  <2> QED   BY <2>1 DEF RankIn
<1>3. PICK z : z = [i \in 1 .. Cardinality(S) |->
                      CHOOSE x \in S : Cardinality({y \in S : Ahead(y, x, target, class)}) = i - 1]
  OBVIOUS
<1>4. ASSUME NEW i \in 1 .. Cardinality(S)
      PROVE  z[i] \in S /\ RankIn(S, Prio(target, class), z[i]) = i - 1
  <2>1. i - 1 \in 0 .. Cardinality(S) - 1
    BY <1>1
  <2>2. PICK x \in S : RankIn(S, Prio(target, class), x) = i - 1
    BY <1>1, <2>1, RanksReach
  <2>3. z[i] = CHOOSE v \in S : Cardinality({y \in S : Ahead(y, v, target, class)}) = i - 1
    BY <1>3
  <2>4. Cardinality({y \in S : Ahead(y, x, target, class)}) = i - 1
    BY <1>2, <2>2
  <2>5. z[i] \in S /\ Cardinality({y \in S : Ahead(y, z[i], target, class)}) = i - 1
    BY <2>3, <2>4
  <2> QED   BY <1>2, <2>5
<1>5. z \in [1 .. Cardinality(S) -> S]
  BY <1>3, <1>4
<1>6. PICK y, m : /\ m = IF sample_count <= Cardinality(S) THEN sample_count ELSE Cardinality(S)
                  /\ y = [t \in 1 .. m |-> z[t]]   OBVIOUS
<1>7. SampleOf(target, class) = y
  <2>1. PICK c : c = Cardinality(S)   OBVIOUS
  <2>2. c \in Nat /\ sample_count \in Nat
    BY <1>1, <2>1
  <2>5. OnFirst(z, c, S)
    BY <1>5, <2>1 DEF OnFirst
  <2>6. m = LesserOf(sample_count, c)
    BY <1>6, <2>1 DEF LesserOf
  <2>7. CutTo(z, sample_count) = Prefix(z, LesserOf(sample_count, c))
    BY <2>2, <2>5, PrefixIs
  <2>3. CutTo(z, sample_count) = Prefix(z, m)
    BY <2>6, <2>7
  <2>4. SampleOf(target, class) = CutTo(z, sample_count)
    BY <1>3 DEF SampleOf, Ranked, CutTo
  <2> QED   BY <1>6, <2>3, <2>4 DEF Prefix
<1>8. m \in Nat /\ \A t \in 1 .. m : t \in 1 .. Cardinality(S)
  <2>1. PICK c, k : c = Cardinality(S) /\ k = sample_count   OBVIOUS
  <2>2. c \in Nat /\ k \in Nat /\ m = IF k <= c THEN k ELSE c
    BY <1>1, <1>6, <2>1
  <2>3. m \in Nat /\ \A t \in 1 .. m : t \in 1 .. c
    BY <2>2
  <2> QED   BY <2>1, <2>3
<1>9. y \in [1 .. m -> S] /\ \A t \in 1 .. m : RankIn(S, Prio(target, class), y[t]) = t - 1
  BY <1>4, <1>5, <1>6, <1>8
<1>10. Firsts(y, m, S, Prio(target, class), sample_count)
  BY <1>1, <1>6, <1>9, RankedFirsts
<1> QED   BY <1>6, <1>7, <1>10

-----------------------------------------------------------------------------
(* An insertion into a list. *)

LEMMA JoinedIs ==
  ASSUME NEW V, NEW a \in Seq(V), NEW b \in Seq(V)
  PROVE  a \o b \in Seq(V) /\ Joins(a \o b, a, b)
<1>1. a \o b \in Seq(V) /\ Len(a \o b) = Len(a) + Len(b)
  BY ConcatProperties
<1>2. \A i \in 1 .. Len(a) + Len(b) : (a \o b)[i] = IF i <= Len(a) THEN a[i] ELSE b[i - Len(a)]
  BY ConcatProperties
<1> QED   BY <1>1, <1>2 DEF Joins

\* Two parts of a list with a member between them.
LEMMA Spliced ==
  ASSUME NEW V, NEW m \in Nat, NEW z \in [1 .. m -> V], NEW p \in 0 .. m, NEW x \in V,
         NEW q \in p .. m
  PROVE  SubSeq(z, 1, p) \o <<x>> \o SubSeq(z, p + 1, q) = Inserted(z, p, x, q + 1)
<1>1. PICK a, b, c : a = SubSeq(z, 1, p) /\ b = SubSeq(z, p + 1, q) /\ c = <<x>>   OBVIOUS
<1>2. p \in Nat /\ q \in Nat /\ p <= q /\ q <= m   OBVIOUS
<1>3. \A i \in 1 .. p : z[i] \in V
  BY <1>2
<1>4. \A i \in p + 1 .. q : z[i] \in V
  BY <1>2
<1>5. a \in Seq(V) /\ Len(a) = p /\ \A i \in 1 .. p : a[i] = z[i]
  <2>1. a \in Seq(V)
    BY <1>1, <1>2, <1>3, SubSeqProperties
  <2>2. Len(a) = IF 1 <= p THEN p - 1 + 1 ELSE 0
    BY <1>1, <1>2, <1>3, SubSeqProperties
  <2>3. \A i \in 1 .. p - 1 + 1 : SubSeq(z, 1, p)[i] = z[1 + i - 1]
    BY <1>2, <1>3, SubSeqProperties
  <2>4. \A i \in 1 .. p : i \in 1 .. p - 1 + 1 /\ 1 + i - 1 = i
    BY <1>2
  <2>5. Len(a) = p
    BY <1>2, <2>2
  <2> QED   BY <1>1, <2>1, <2>3, <2>4, <2>5
<1>6. b \in Seq(V) /\ Len(b) = q - p /\ \A i \in 1 .. q - p : b[i] = z[p + i]
  <2>1. b \in Seq(V)
    BY <1>1, <1>2, <1>4, SubSeqProperties
  <2>2. Len(b) = IF p + 1 <= q THEN q - (p + 1) + 1 ELSE 0
    BY <1>1, <1>2, <1>4, SubSeqProperties
  <2>3. \A i \in 1 .. q - (p + 1) + 1 : SubSeq(z, p + 1, q)[i] = z[p + 1 + i - 1]
    BY <1>2, <1>4, SubSeqProperties
  <2>4. \A i \in 1 .. q - p : i \in 1 .. q - (p + 1) + 1 /\ p + 1 + i - 1 = p + i
    BY <1>2
  <2>5. Len(b) = q - p
    BY <1>2, <2>2
  <2> QED   BY <1>1, <2>1, <2>3, <2>4, <2>5
<1>7. c \in Seq(V) /\ Len(c) = 1 /\ c[1] = x
  BY <1>1
<1>8. PICK d : d = a \o c   OBVIOUS
<1>9. /\ d \in Seq(V) /\ Len(d) = p + 1
      /\ \A i \in 1 .. p + 1 : d[i] = IF i <= p THEN a[i] ELSE c[i - p]
  <2>1. d \in Seq(V) /\ Joins(d, a, c)
    BY <1>5, <1>7, <1>8, JoinedIs
  <2> QED   BY <1>5, <1>7, <2>1 DEF Joins
<1>10. PICK e : e = d \o b   OBVIOUS
<1>11. /\ e \in Seq(V) /\ Len(e) = (p + 1) + (q - p)
       /\ \A i \in 1 .. (p + 1) + (q - p) : e[i] = IF i <= p + 1 THEN d[i] ELSE b[i - (p + 1)]
  <2>1. e \in Seq(V) /\ Joins(e, d, b)
    BY <1>6, <1>9, <1>10, JoinedIs
  <2> QED   BY <1>6, <1>9, <2>1 DEF Joins
<1>12. (p + 1) + (q - p) = q + 1
  BY <1>2
<1>13. ASSUME NEW i \in 1 .. q + 1
       PROVE  e[i] = IF i <= p THEN z[i] ELSE IF i = p + 1 THEN x ELSE z[i - 1]
  <2>1. CASE i <= p
    <3>1. i \in 1 .. p /\ i \in 1 .. p + 1 /\ i <= p + 1
      BY <1>2, <2>1
    <3>2. e[i] = d[i] /\ d[i] = a[i] /\ a[i] = z[i]
      BY <1>5, <1>9, <1>11, <1>12, <2>1, <3>1
    <3> QED   BY <2>1, <3>2
  <2>2. CASE i = p + 1
    <3>1. i \in 1 .. p + 1 /\ i <= p + 1 /\ ~(i <= p) /\ i - p = 1
      BY <1>2, <2>2
    <3>2. e[i] = d[i] /\ d[i] = c[1]
      BY <1>9, <1>11, <1>12, <3>1
    <3> QED   BY <1>7, <2>2, <3>1, <3>2
  <2>3. CASE i > p + 1
    <3>1. i - (p + 1) \in 1 .. q - p /\ ~(i <= p + 1) /\ ~(i <= p) /\ i # p + 1
          /\ p + (i - (p + 1)) = i - 1
      BY <1>2, <2>3
    <3>2. e[i] = b[i - (p + 1)] /\ b[i - (p + 1)] = z[p + (i - (p + 1))]
      BY <1>6, <1>11, <1>12, <3>1
    <3> QED   BY <3>1, <3>2
  <2> QED   BY <1>2, <2>1, <2>2, <2>3
<1>14. e = [i \in 1 .. q + 1 |-> e[i]]
  <2>1. e \in [1 .. Len(e) -> V]
    BY <1>11, LenProperties
  <2> QED   BY <1>11, <1>12, <2>1
<1>15. e = Inserted(z, p, x, q + 1)
  BY <1>13, <1>14 DEF Inserted
<1> QED   BY <1>1, <1>8, <1>10, <1>15

\* A prefix of an insertion is an insertion.
LEMMA InsertedPrefix ==
  ASSUME NEW V, NEW m \in Nat, NEW z \in [1 .. m -> V], NEW p \in 0 .. m, NEW x \in V,
         NEW k \in Nat, NEW l, l = IF m + 1 <= k THEN m + 1 ELSE k
  PROVE  CutTo(Inserted(z, p, x, m + 1), k) = Inserted(z, p, x, l)
<1>1. PICK y : y = Inserted(z, p, x, m + 1)   OBVIOUS
<1>2. y \in [1 .. m + 1 -> V]
  <2>1. y = [t \in 1 .. m + 1 |-> IF t <= p THEN z[t] ELSE IF t = p + 1 THEN x ELSE z[t - 1]]
    BY <1>1 DEF Inserted
  <2>2. p \in Nat /\ p <= m   OBVIOUS
  <2>3. ASSUME NEW t \in 1 .. m + 1 PROVE y[t] \in V
    <3>1. CASE t <= p
      BY <2>1, <2>2, <3>1
    <3>2. CASE t = p + 1
      BY <2>1, <2>2, <3>2
    <3>3. CASE ~(t <= p) /\ t # p + 1
      <4>1. t - 1 \in 1 .. m
        BY <2>2, <3>3
      <4> QED   BY <2>1, <3>3, <4>1
    <3> QED   BY <3>1, <3>2, <3>3
  <2> QED   BY <2>1, <2>3
<1>3. m + 1 \in Nat   OBVIOUS
<1>5. l = (IF k <= m + 1 THEN k ELSE m + 1) /\ l \in Nat /\ l <= m + 1   OBVIOUS
<1>4. CutTo(y, k) = Prefix(y, l)
  <2>1. OnFirst(y, m + 1, V)
    BY <1>2 DEF OnFirst
  <2>2. CutTo(y, k) = Prefix(y, LesserOf(k, m + 1))
    BY <1>3, <2>1, PrefixIs
  <2>3. LesserOf(k, m + 1) = l
    BY <1>5 DEF LesserOf
  <2> QED   BY <2>2, <2>3
<1>6. Prefix(y, l) = Inserted(z, p, x, l)
  <2>1. ASSUME NEW t \in 1 .. l
        PROVE  y[t] = IF t <= p THEN z[t] ELSE IF t = p + 1 THEN x ELSE z[t - 1]
    <3>1. t \in 1 .. m + 1
      BY <1>5
    <3> QED   BY <1>1, <3>1 DEF Inserted
  <2> QED   BY <2>1 DEF Inserted, Prefix
<1> QED   BY <1>1, <1>4, <1>6

\* What consider leaves of the first sources of a set are the first of the set
\* and the source considered.
LEMMA ConsiderFirsts ==
  ASSUME build \in Builds, iteration \in 0 .. build.iters,
         NEW target \in Rows, NEW class \in {"new", "old"}, NEW S, S \subseteq Rows,
         NEW m, NEW held, Firsts(held, m, S, Prio(target, class), sample_count),
         NEW source \in Rows
  PROVE  \E l : Firsts(Consider(held, source, target, class), l, S \cup {source},
                       Prio(target, class), sample_count)
<1>1. PICK R, k, U : R = Prio(target, class) /\ k = sample_count /\ U = S \cup {source}   OBVIOUS
<1>2. k \in Nat /\ U \subseteq Rows
  BY <1>1, BuildFacts
<1>3. StrictTotal(U, R) /\ StrictTotal(S, R)
  BY <1>1, <1>2, PrioOrders
<1>4. Firsts(held, m, S, R, k)
  BY <1>1
<1>5. m \in 0 .. k /\ m \in Nat /\ held \in [1 .. m -> S] /\ held \in [1 .. m -> U]
  BY <1>1, <1>2, <1>4 DEF Firsts
<1>6. held \in Seq(U) /\ DOMAIN held = 1 .. m
  BY <1>5, SeqDef
<1>7. ToSet(held) = {held[t] : t \in 1 .. m}
  BY <1>6 DEF ToSet
<1>8. PICK p : p = Cardinality(PlacesBefore(held, m, R, source))   OBVIOUS
<1>9. PICK new : new = Consider(held, source, target, class)   OBVIOUS
<1>10. {i \in DOMAIN held : Ahead(held[i], source, target, class)}
         = PlacesBefore(held, m, R, source)
  <2>1. ASSUME NEW t \in 1 .. m
        PROVE  <<held[t], source>> \in R <=> Ahead(held[t], source, target, class)
    <3>1. held[t] \in Rows
      BY <1>2, <1>5
    <3> QED   BY <1>1, <3>1, PrioIs
  <2> QED   BY <1>6, <2>1 DEF PlacesBefore
<1>11. PICK grown : grown = SubSeq(held, 1, p) \o <<source>> \o SubSeq(held, p + 1, Len(held))
  OBVIOUS
<1>12. new = IF source \in ToSet(held) \/ p >= k THEN held
             ELSE SubSeq(grown, 1, Min({k, Len(grown)}))
  BY <1>1, <1>8, <1>9, <1>10, <1>11 DEF Consider
<1>13. CASE source \in ToSet(held)
  <2>1. source \in S
    BY <1>5, <1>7, <1>13
  <2>2. U = S /\ new = held
    BY <1>1, <1>12, <1>13, <2>1
  <2> QED   BY <1>1, <1>4, <1>9, <2>2
<1>14. CASE source \notin ToSet(held)
  <2>1. \A t \in 1 .. m : held[t] # source
    BY <1>7, <1>14
  <2>2. p \in 0 .. m /\ \A t \in 1 .. m : t <= p <=> <<held[t], source>> \in R
    <3>1. StrictTotal(S \cup {source}, R)
      BY <1>1, <1>3
    <3> QED   BY <1>2, <1>4, <1>8, <2>1, <3>1, PlaceOf
  <2>3. CASE source \in S
    <3>1. U = S
      BY <1>1, <2>3
    <3>2. m = k /\ \A t \in 1 .. m : <<held[t], source>> \in R
      BY <1>4, <2>1, <2>3 DEF Firsts
    <3>3. p = m
      <4>1. m = 0 \/ m \in 1 .. m
        BY <1>5
      <4>2. m <= p \/ m = 0
        BY <2>2, <3>2, <4>1
      <4> QED   BY <1>5, <2>2, <4>2
    <3>4. new = held
      BY <1>5, <1>12, <3>2, <3>3
    <3> QED   BY <1>1, <1>4, <1>9, <3>1, <3>4
  <2>4. CASE source \notin S
    <3>1. CASE p >= k
      <4>1. Firsts(held, m, S \cup {source}, R, k)
        <5>1. StrictTotal(S \cup {source}, R)
          BY <1>1, <1>3
        <5> QED   BY <1>2, <1>4, <2>2, <2>4, <3>1, <5>1, FirstsKeep
      <4>2. new = held
        BY <1>12, <3>1
      <4> QED   BY <1>1, <1>9, <4>1, <4>2
    <3>2. CASE ~(p >= k)
      <4>1. p < k
        BY <1>2, <1>5, <2>2, <3>2
      <4>2. PICK l : l = IF m + 1 <= k THEN m + 1 ELSE k   OBVIOUS
      <4>3. Len(held) = m
        BY <1>5, <1>6, LenProperties
      <4>4. grown = Inserted(held, p, source, m + 1)
        <5>1. source \in U /\ m \in p .. m
          BY <1>1, <1>5, <2>2
        <5>2. SubSeq(held, 1, p) \o <<source>> \o SubSeq(held, p + 1, m)
                = Inserted(held, p, source, m + 1)
          BY ZenonT(40), <1>5, <2>2, <5>1, Spliced
        <5> QED   BY <1>11, <4>3, <5>2
      <4>5. new = Inserted(held, p, source, l)
        <5>1. source \in U
          BY <1>1
        <5>2. k \in Nat /\ m \in Nat /\ held \in [1 .. m -> U] /\ p \in 0 .. m
          BY <1>2, <1>5, <2>2
        <5>3. CutTo(Inserted(held, p, source, m + 1), k) = Inserted(held, p, source, l)
          BY <4>2, <5>1, <5>2, InsertedPrefix
        <5> QED   BY <1>12, <1>14, <3>2, <4>4, <5>3 DEF CutTo
      <4>6. Firsts(Inserted(held, p, source, l), l, S \cup {source}, R, k)
        <5>1. StrictTotal(S \cup {source}, R)
          BY <1>1, <1>3
        <5> QED   BY <1>2, <1>4, <2>2, <2>4, <4>1, <4>2, <5>1, FirstsInsert
      <4> QED   BY <1>1, <1>9, <4>5, <4>6
    <3> QED   BY <3>1, <3>2
  <2> QED   BY <2>3, <2>4
<1> QED   BY <1>13, <1>14

\* A list of rows stays one.
LEMMA ConsiderType ==
  ASSUME build \in Builds, NEW target, NEW class, NEW held \in Seq(Rows), NEW source \in Rows
  PROVE  Consider(held, source, target, class) \in Seq(Rows)
<1>1. PICK m : m = Len(held)   OBVIOUS
<1>2. m \in Nat /\ held \in [1 .. m -> Rows] /\ DOMAIN held = 1 .. m
  BY <1>1, LenProperties
<1>3. PICK B : B = {i \in DOMAIN held : Ahead(held[i], source, target, class)}   OBVIOUS
<1>4. PICK p : p = Cardinality(B)   OBVIOUS
<1>5. p \in 0 .. m
  <2>1. IsFiniteSet(1 .. m) /\ Cardinality(1 .. m) = IF 1 > m THEN 0 ELSE m - 1 + 1
    BY <1>2, FS_Interval
  <2>2. B \in SUBSET (1 .. m)
    BY <1>2, <1>3
  <2>3. IsFiniteSet(B) /\ p <= Cardinality(1 .. m)
    BY <1>4, <2>1, <2>2, FS_Subset
  <2>4. p \in Nat
    BY <1>4, <2>3, FS_CardinalityType
  <2>5. Cardinality(1 .. m) = m
    BY <1>2, <2>1
  <2> QED   BY <1>2, <2>3, <2>4, <2>5
<1>6. PICK a, b, c : a = SubSeq(held, 1, p) /\ b = SubSeq(held, p + 1, m) /\ c = <<source>>
  OBVIOUS
<1>7. a \in Seq(Rows)
  <2>1. \A i \in 1 .. p : held[i] \in Rows
    BY <1>2, <1>5
  <2>2. p \in Int /\ 1 \in Int
    BY <1>5
  <2> QED   BY <1>6, <2>1, <2>2, SubSeqProperties
<1>8. b \in Seq(Rows)
  <2>1. \A i \in p + 1 .. m : held[i] \in Rows
    BY <1>2, <1>5
  <2>2. p + 1 \in Int /\ m \in Int
    BY <1>2, <1>5
  <2> QED   BY <1>6, <2>1, <2>2, SubSeqProperties
<1>9. PICK grown : grown = a \o c \o b   OBVIOUS
<1>10. grown \in Seq(Rows)
  <2>1. c \in Seq(Rows)
    BY <1>6
  <2>2. a \o c \in Seq(Rows)
    BY <1>7, <2>1, ConcatProperties
  <2> QED   BY <1>8, <1>9, <2>2, ConcatProperties
<1>11. SubSeq(grown, 1, Min({sample_count, Len(grown)})) \in Seq(Rows)
  <2>1. PICK o : o = Min({sample_count, Len(grown)})   OBVIOUS
  <2>2. Len(grown) \in Nat /\ sample_count \in Nat /\ \A i \in 1 .. Len(grown) : grown[i] \in Rows
    BY <1>10, BuildFacts, LenProperties
  <2>3. o = IF sample_count <= Len(grown) THEN sample_count ELSE Len(grown)
    BY <2>1, <2>2, MinOfTwo
  <2>4. o \in Int /\ 1 \in Int /\ \A i \in 1 .. o : grown[i] \in Rows
    BY SMTT(30), <2>2, <2>3
  <2> QED   BY <2>1, <2>4, SubSeqProperties
<1>12. \/ Consider(held, source, target, class) = held
       \/ Consider(held, source, target, class) = SubSeq(grown, 1, Min({sample_count, Len(grown)}))
  BY <1>1, <1>3, <1>4, <1>6, <1>9 DEF Consider
<1> QED   BY <1>11, <1>12

LEMMA ReverseFold ==
  ASSUME build \in Builds, NEW target, NEW class, NEW held \in Seq(Rows), NEW order \in Seq(Rows),
         \A i \in 1 .. Len(held) : Reaches(held[i], target, class),
         NEW sources, sources = held \o order, NEW L, L = Len(sources)
  PROVE  FoldsTo(reverse_list(held, target, class, order), sources, L, target, class)
<1>1. sources \in Seq(Rows) /\ L = Len(held) + Len(order)
  BY ConcatProperties
<1>2. L \in Nat /\ \A i \in 1 .. L : sources[i] \in Rows
  BY <1>1, LenProperties
<1>3. ASSUME NEW i \in 1 .. L, i <= Len(held) PROVE Reaches(sources[i], target, class)
  <2>1. Len(held) \in Nat /\ i \in 1 .. Len(held)
    BY <1>3, LenProperties
  <2>2. sources[i] = held[i]
    BY <1>1, <1>3, ConcatProperties
  <2> QED   BY <2>1, <2>2
<1>4. PICK V, J : V = Seq(Rows) /\ J = 0 + 1 .. L /\ J = 1 .. L   OBVIOUS
<1>5. PICK G : G = [i \in J |-> [z \in V |->
                      IF Reaches(sources[i], target, class)
                      THEN Consider(z, sources[i], target, class) ELSE z]]   OBVIOUS
<1>6. G \in [J -> [V -> V]]
  <2>1. ASSUME NEW i \in J, NEW z \in V
        PROVE  (IF Reaches(sources[i], target, class)
                THEN Consider(z, sources[i], target, class) ELSE z) \in V
    <3>1. sources[i] \in Rows /\ z \in Seq(Rows)
      BY <1>2, <1>4
    <3>2. Consider(z, sources[i], target, class) \in Seq(Rows)
      BY <3>1, ConsiderType
    <3> QED   BY <1>4, <3>2
  <2> QED   BY <1>5, <2>1
<1>7. Steps(0, L, V, <<>>, J, G)
  <2>1. <<>> \in V
    BY <1>4, EmptySeq
  <2>2. 0 \in Int /\ L \in Int /\ 0 <= L /\ J = 0 + 1 .. L
    BY <1>2, <1>4
  <2> QED   BY <1>6, <2>1, <2>2, Recursion
<1>8. PICK g \in [0 .. L -> V] : g[0] = <<>> /\ \A i \in J : g[i] = G[i][g[i - 1]]
  BY <1>7 DEF Steps
<1>9. ASSUME NEW i \in 1 .. L
      PROVE  g[i] = IF Reaches(sources[i], target, class)
                    THEN Consider(g[i - 1], sources[i], target, class) ELSE g[i - 1]
  <2>1. i \in J /\ i - 1 \in 0 .. L
    BY <1>2, <1>4
  <2>2. g[i] = G[i][g[i - 1]] /\ g[i - 1] \in V
    BY <1>8, <2>1
  <2> QED   BY <1>5, <2>1, <2>2
<1> DEFINE Def(fun) ==
      fun = [i \in 0 .. L |->
               IF i = 0 THEN <<>>
               ELSE IF i <= Len(held) \/ Reaches(sources[i], target, class)
                    THEN Consider(fun[i - 1], sources[i], target, class)
                    ELSE fun[i - 1]]
<1>10. Def(g)
  <2>1. ASSUME NEW i \in 0 .. L
        PROVE  g[i] = IF i = 0 THEN <<>>
                      ELSE IF i <= Len(held) \/ Reaches(sources[i], target, class)
                           THEN Consider(g[i - 1], sources[i], target, class)
                           ELSE g[i - 1]
    <3>1. CASE i = 0
      BY <1>8, <3>1
    <3>2. CASE i # 0
      <4>1. i \in 1 .. L
        BY <1>2, <3>2
      <4> QED   BY <1>3, <1>9, <3>2, <4>1
    <3> QED   BY <3>1, <3>2
  <2> QED   BY <1>8, <2>1
<1>11. PICK f : f = CHOOSE fun : Def(fun)   OBVIOUS
<1>12. Def(f)
  BY <1>10, <1>11
<1>13. reverse_list(held, target, class, order) = f[L]
  BY <1>11 DEF reverse_list
<1>14. ASSUME NEW i \in 0 .. L
       PROVE  f[i] = IF i = 0 THEN <<>>
                     ELSE IF i <= Len(held) \/ Reaches(sources[i], target, class)
                          THEN Consider(f[i - 1], sources[i], target, class)
                          ELSE f[i - 1]
  BY <1>12
<1> HIDE DEF Def
<1>15. f[0] = <<>>
  <2>1. 0 \in 0 .. L
    BY <1>2
  <2> QED   BY <1>14, <2>1
<1>16. ASSUME NEW i \in 1 .. L
       PROVE  f[i] = IF Reaches(sources[i], target, class)
                     THEN Consider(f[i - 1], sources[i], target, class) ELSE f[i - 1]
  <2>1. i \in 0 .. L /\ i # 0
    BY <1>2
  <2> QED   BY <1>3, <1>14, <2>1
<1> QED   BY <1>13, <1>15, <1>16 DEF FoldsTo

\* Whatever order the sources of a chunk arrive in, the list holds the first of
\* the sources so far and of those in the chunk that reach the target.
LEMMA ReverseFirsts ==
  ASSUME build \in Builds, iteration \in 0 .. build.iters,
         NEW target \in Rows, NEW class \in {"new", "old"},
         NEW A, A \subseteq Rows, NEW C, C \subseteq Rows, NEW order \in Arrivals(C),
         NEW m, NEW held,
         Firsts(held, m, Reaching(A, target, class), Prio(target, class), sample_count)
  PROVE  \E l : Firsts(reverse_list(held, target, class, order), l,
                       Reaching(A \cup C, target, class), Prio(target, class), sample_count)
<1>1. PICK R, k, S : /\ R = Prio(target, class) /\ k = sample_count
                     /\ S = Reaching(A, target, class)   OBVIOUS
<1>2. k \in Nat /\ S \subseteq Rows /\ \A s \in S : Reaches(s, target, class)
  BY <1>1, BuildFacts DEF Reaching
<1>3. Firsts(held, m, S, R, k)
  BY <1>1
<1>4. m \in 0 .. k /\ m \in Nat /\ held \in [1 .. m -> S]
  BY <1>2, <1>3 DEF Firsts
<1>5. held \in Seq(Rows) /\ held \in Seq(S) /\ Len(held) = m
  <2>1. held \in [1 .. m -> Rows]
    BY <1>2, <1>4
  <2>2. held \in Seq(S) /\ held \in Seq(Rows)
    BY <1>4, <2>1, SeqDef
  <2>3. DOMAIN held = 1 .. Len(held) /\ Len(held) \in Nat
    BY <2>2, LenProperties
  <2> QED   BY <1>4, <2>2, <2>3
<1>6. PICK o : o = Cardinality(C)   OBVIOUS
<1>7. IsFiniteSet(C) /\ o \in Nat
  BY <1>6, RowsAreNumbers
<1>8. order \in [1 .. o -> C] /\ \A t, u \in 1 .. o : order[t] = order[u] => t = u
  BY <1>6 DEF Arrivals, IsInjective
<1>9. \A c \in C : \E t \in 1 .. o : order[t] = c
  <2>1. order \in Injection(1 .. o, C)
    BY <1>8 DEF Injection, IsInjective
  <2>2. IsFiniteSet(1 .. o) /\ Cardinality(1 .. o) = IF 1 > o THEN 0 ELSE o - 1 + 1
    BY <1>7, FS_Interval
  <2>3. Cardinality(1 .. o) = Cardinality(C)
    BY <1>6, <1>7, <2>2
  <2>4. order \in Surjection(1 .. o, C)
    BY <1>7, <2>1, <2>2, <2>3, FS_Injection
  <2> QED   BY <2>4 DEF Surjection
<1>10. order \in Seq(Rows) /\ Len(order) = o
  <2>1. order \in [1 .. o -> Rows]
    BY <1>8
  <2>2. order \in Seq(Rows)
    BY <1>7, <2>1, SeqDef
  <2>3. DOMAIN order = 1 .. Len(order) /\ Len(order) \in Nat
    BY <2>2, LenProperties
  <2> QED   BY <1>7, <2>1, <2>2, <2>3
<1>11. PICK sources, L : sources = held \o order /\ L = Len(sources)   OBVIOUS
<1>12. /\ L = m + o /\ sources \in Seq(Rows)
       /\ \A i \in 1 .. m + o : sources[i] = IF i <= m THEN held[i] ELSE order[i - m]
  <2>1. sources \in Seq(Rows) /\ Joins(sources, held, order)
    BY <1>5, <1>10, <1>11, JoinedIs
  <2> QED   BY <1>5, <1>10, <1>11, <2>1 DEF Joins
<1>13. L \in Nat /\ \A i \in 1 .. L : sources[i] \in Rows
  <2>1. L \in Nat
    BY <1>4, <1>7, <1>12
  <2>2. \A i \in 1 .. Len(sources) : sources[i] \in Rows
    BY <1>12, ElementOfSeq
  <2> QED   BY <1>11, <2>1, <2>2
<1>14. \A i \in 1 .. Len(held) : Reaches(held[i], target, class)
  BY <1>2, <1>4, <1>5
<1>26. FoldsTo(reverse_list(held, target, class, order), sources, L, target, class)
  BY <1>5, <1>10, <1>11, <1>14, ReverseFold
<1>15. PICK f : /\ f[0] = <<>>
                /\ \A i \in 1 .. L :
                     f[i] = IF Reaches(sources[i], target, class)
                            THEN Consider(f[i - 1], sources[i], target, class) ELSE f[i - 1]
                /\ reverse_list(held, target, class, order) = f[L]
  BY <1>26 DEF FoldsTo
<1>16. PICK Z : Z = [i \in 0 .. L |-> {s \in Rows : /\ Reaches(s, target, class)
                                                    /\ \E j \in 1 .. i : sources[j] = s}]   OBVIOUS
<1>17. PICK T : T = {i \in 0 .. L : \E l : Firsts(f[i], l, Z[i], R, k)}   OBVIOUS
<1>18. 0 \in T
  <2>1. 0 \in 0 .. L
    BY <1>13
  <2>2. Z[0] = {}
    BY <1>16, <2>1
  <2>3. f[0] \in [1 .. 0 -> {}] /\ 0 \in 0 .. k
    BY <1>2, <1>15
  <2>4. Firsts(f[0], 0, {}, R, k)
    BY <2>3 DEF Firsts
  <2> QED   BY <1>17, <2>1, <2>2, <2>4
<1>19. ASSUME NEW i \in 0 + 1 .. L, i - 1 \in T PROVE i \in T
  <2>1. i \in 1 .. L /\ i \in 0 .. L /\ i - 1 \in 0 .. L /\ i \in Nat /\ i - 1 \in Nat
    BY <1>13
  <2>2. PICK x : x = sources[i]   OBVIOUS
  <2>3. x \in Rows
    BY <1>13, <2>1, <2>2
  <2>4. PICK l : Firsts(f[i - 1], l, Z[i - 1], R, k)
    BY <1>17, <1>19
  <2>5. Z[i - 1] \subseteq Rows
    BY <1>16, <2>1
  <2>6. \A j \in 1 .. i : j \in 1 .. i - 1 \/ j = i
    BY <2>1
  <2>7. i \in 1 .. i /\ \A j \in 1 .. i - 1 : j \in 1 .. i
    BY <2>1
  <2>8. CASE Reaches(x, target, class)
    <3>1. Z[i] = Z[i - 1] \cup {x}
      BY <1>16, <2>1, <2>2, <2>3, <2>6, <2>7, <2>8
    <3>2. f[i] = Consider(f[i - 1], x, target, class)
      BY <1>15, <2>1, <2>2, <2>8
    <3>3. Firsts(f[i - 1], l, Z[i - 1], Prio(target, class), sample_count)
      BY <1>1, <2>4
    <3>4. \E q : Firsts(Consider(f[i - 1], x, target, class), q, Z[i - 1] \cup {x},
                        Prio(target, class), sample_count)
      BY <2>3, <2>5, <3>3, ConsiderFirsts
    <3> QED   BY <1>1, <1>17, <2>1, <3>1, <3>2, <3>4
  <2>9. CASE ~Reaches(x, target, class)
    <3>1. Z[i] = Z[i - 1]
      BY <1>16, <2>1, <2>2, <2>3, <2>6, <2>7, <2>9
    <3>2. f[i] = f[i - 1]
      BY <1>15, <2>1, <2>2, <2>9
    <3> QED   BY <1>17, <2>1, <2>4, <3>1, <3>2
  <2> QED   BY <2>8, <2>9
<1>20. L \in T
  <2>1. \A i \in 0 .. L : i \in T
    <3>1. 0 \in Int /\ L \in Int
      BY <1>13
    <3> QED   BY <1>18, <1>19, <3>1, Climb
  <2> QED   BY <1>13, <2>1
<1>21. PICK l : Firsts(f[L], l, Z[L], R, k)
  BY <1>17, <1>20
<1>22. PICK H, W : H = Image(held, m) /\ W = Reaching(C, target, class)   OBVIOUS
<1>23. Z[L] = H \cup W
  <2>1. L \in 0 .. L
    BY <1>13
  <2>2. ASSUME NEW s \in Z[L] PROVE s \in H \cup W
    <3>1. s \in Rows /\ Reaches(s, target, class)
      BY <1>16, <2>1, <2>2
    <3>2. PICK j \in 1 .. L : sources[j] = s
      BY <1>16, <2>1, <2>2
    <3>3. CASE j <= m
      <4>1. j \in 1 .. m /\ sources[j] = held[j]
        BY <1>4, <1>12, <3>2, <3>3
      <4> QED   BY <1>22, <3>2, <4>1 DEF Image
    <3>4. CASE ~(j <= m)
      <4>1. j - m \in 1 .. o /\ sources[j] = order[j - m]
        BY <1>4, <1>7, <1>12, <3>2, <3>4
      <4>2. s \in C
        BY <1>8, <3>2, <4>1
      <4> QED   BY <1>22, <3>1, <4>2 DEF Reaching
    <3> QED   BY <3>3, <3>4
  <2>3. ASSUME NEW s \in H PROVE s \in Z[L]
    <3>1. PICK t \in 1 .. m : held[t] = s
      BY <1>22, <2>3 DEF Image
    <3>2. t \in 1 .. L /\ sources[t] = held[t]
      BY <1>4, <1>7, <1>12, <3>1
    <3>3. s \in Rows /\ Reaches(s, target, class)
      BY <1>2, <1>4, <3>1
    <3> QED   BY <1>16, <2>1, <3>1, <3>2, <3>3
  <2>4. ASSUME NEW s \in W PROVE s \in Z[L]
    <3>1. s \in C /\ Reaches(s, target, class) /\ s \in Rows
      BY <1>22, <2>4 DEF Reaching
    <3>2. PICK t \in 1 .. o : order[t] = s
      BY <1>9, <3>1
    <3>3. m + t \in 1 .. L /\ m + t \in 1 .. m + o /\ ~(m + t <= m) /\ (m + t) - m = t
      BY <1>4, <1>7, <1>12, <3>2
    <3>4. sources[m + t] = s
      BY <1>12, <3>2, <3>3
    <3> QED   BY <1>16, <2>1, <3>1, <3>3, <3>4
  <2> QED   BY <2>2, <2>3, <2>4
<1>24. Firsts(f[L], l, S \cup W, R, k)
  <2>1. Firsts(f[L], l, Image(held, m) \cup W, R, k)
    BY <1>21, <1>22, <1>23
  <2>2. W \subseteq Rows /\ S \cup W \subseteq Rows
    BY <1>2, <1>22 DEF Reaching
  <2>3. IsFiniteSet(S) /\ IsFiniteSet(W)
    BY <1>2, <2>2, RowsAreNumbers
  <2>4. StrictTotal(S \cup W, R)
    BY <1>1, <2>2, PrioOrders
  <2> QED   BY <1>2, <1>3, <2>1, <2>3, <2>4, FirstsOfFirsts
<1>25. S \cup W = Reaching(A \cup C, target, class)
  BY <1>1, <1>22 DEF Reaching
<1> QED   BY <1>1, <1>15, <1>24, <1>25

-----------------------------------------------------------------------------
(* Rows of the graphs. *)

LEMMA EdgeFields ==
  ASSUME NEW row, NEW list \in [1 .. degree -> Edges(row)], NEW t \in 1 .. degree
  PROVE  list[t].id \in Rows /\ list[t].id # row /\ list[t].new \in BOOLEAN
         /\ list[t] = [id |-> list[t].id, new |-> list[t].new]
<1>1. list[t] \in Edges(row)   OBVIOUS
<1> QED   BY <1>1 DEF Edges

LEMMA RankedIsDrawn ==
  ASSUME build \in Builds, NEW row \in Rows, NEW list, RankedList(row, list)
  PROVE  DrawnList(row, list)
<1>1. degree \in Nat /\ list \in [1 .. degree -> Edges(row)]
  BY BuildFacts DEF RankedList
<1>2. ASSUME NEW t \in 1 .. degree, NEW u \in 1 .. degree, t < u PROVE list[t].id # list[u].id
  <2>1. list[t].id \in Rows
    BY <1>1, EdgeFields
  <2>2. <<list[t].id, list[u].id>> \in Near(row)
    BY <1>2 DEF RankedList
  <2>3. StrictTotal(Rows, Near(row))
    BY NearOrders
  <2> QED   BY <2>1, <2>2, <2>3 DEF StrictTotal
<1>3. \A t, u \in 1 .. degree : t # u => t < u \/ u < t
  BY <1>1
<1>4. \A t, u \in 1 .. degree : list[t].id = list[u].id => t = u
  BY <1>2, <1>3
<1> QED   BY <1>1, <1>4 DEF DrawnList

LEMMA DrawnIds ==
  ASSUME build \in Builds, NEW row \in Rows, NEW list, DrawnList(row, list)
  PROVE  /\ Len(list) = degree /\ DOMAIN list = 1 .. degree
         /\ Ids(list) = {list[t].id : t \in 1 .. degree}
         /\ Ids(list) \subseteq Rows \ {row}
         /\ Cardinality(Ids(list)) = degree
<1>1. degree \in Nat /\ list \in [1 .. degree -> Edges(row)]
  BY BuildFacts DEF DrawnList
<1>2. list \in Seq(Edges(row)) /\ DOMAIN list = 1 .. degree
  BY <1>1, SeqDef
<1>3. Len(list) = degree
  BY <1>1, LengthIs
<1>4. Ids(list) = {list[t].id : t \in 1 .. degree}
  BY <1>2 DEF Ids
<1>5. Ids(list) \subseteq Rows \ {row}
  <2>1. \A t \in 1 .. degree : list[t].id \in Rows /\ list[t].id # row
    BY <1>1, EdgeFields
  <2> QED   BY <1>4, <2>1
<1>6. Cardinality(Ids(list)) = degree
  <2>1. PICK z : z = IdsOf(list)   OBVIOUS
  <2>2. \A t \in 1 .. degree : z[t] = list[t].id
    BY <2>1 DEF IdsOf
  <2>3. \A t, u \in 1 .. degree : z[t] = z[u] => t = u
    BY <2>2 DEF DrawnList
  <2>4. Cardinality(Image(z, degree)) = degree
    BY <1>1, <2>3, ImageSize
  <2>5. Image(z, degree) = Ids(list)
    BY <1>4, <2>2 DEF Image
  <2> QED   BY <2>4, <2>5
<1> QED   BY <1>2, <1>3, <1>4, <1>5, <1>6

\* A ranked list is the whole of its rows in order.
LEMMA RankedFirst ==
  ASSUME build \in Builds, NEW row \in Rows, NEW list, RankedList(row, list)
  PROVE  Firsts(IdsOf(list), degree, Ids(list), Near(row), degree)
<1>1. degree \in Nat /\ list \in [1 .. degree -> Edges(row)]
  BY BuildFacts DEF RankedList
<1>2. PICK z, S : z = IdsOf(list) /\ S = Ids(list)   OBVIOUS
<1>3. z = [t \in 1 .. degree |-> z[t]] /\ \A t \in 1 .. degree : z[t] = list[t].id
  BY <1>2 DEF IdsOf
<1>4. S = {list[t].id : t \in 1 .. degree}
  BY <1>2, RankedIsDrawn, DrawnIds
<1>5. z \in [1 .. degree -> S]
  BY <1>3, <1>4
<1>6. \A t, u \in 1 .. degree : t < u => <<z[t], z[u]>> \in Near(row)
  BY <1>3 DEF RankedList
<1>7. \A s \in S : \E t \in 1 .. degree : z[t] = s
  BY <1>3, <1>4
<1>8. degree \in 0 .. degree
  BY <1>1
<1>9. Firsts(z, degree, S, Near(row), degree)
  BY <1>5, <1>6, <1>7, <1>8 DEF Firsts
<1> QED   BY <1>2, <1>9

\* A list whose rows are the first of a set is ranked.
LEMMA FirstRanked ==
  ASSUME NEW row, NEW list \in [1 .. degree -> Edges(row)], NEW S,
         Firsts(IdsOf(list), degree, S, Near(row), degree)
  PROVE  RankedList(row, list)
<1>1. PICK z : z = IdsOf(list)   OBVIOUS
<1>2. \A t \in 1 .. degree : z[t] = list[t].id
  BY <1>1 DEF IdsOf
<1>3. \A t, u \in 1 .. degree : t < u => <<z[t], z[u]>> \in Near(row)
  BY <1>1 DEF Firsts
<1> QED   BY <1>2, <1>3 DEF RankedList

\* The nearest degree of a set with that many rows make a ranked list.
LEMMA TopRanked ==
  ASSUME build \in Builds, NEW row \in Rows, NEW S, S \subseteq Rows \ {row},
         degree <= Cardinality(S),
         NEW new \in [1 .. degree -> BOOLEAN]
  PROVE  /\ Len(Top(row, S)) = degree
         /\ RankedList(row, [i \in 1 .. degree |-> [id |-> Top(row, S)[i], new |-> new[i]]])
<1>0. S \subseteq Rows   OBVIOUS
<1>1. PICK z : z = Top(row, S)   OBVIOUS
<1>2. degree \in Nat
  BY BuildFacts
<1>3. Firsts(z, degree, S, Near(row), degree)
  BY <1>0, <1>1, TopIs
<1>4. z \in [1 .. degree -> S] /\ \A t, u \in 1 .. degree : t < u => <<z[t], z[u]>> \in Near(row)
  BY <1>3 DEF Firsts
<1>5. Len(z) = degree
  BY <1>2, <1>4, LengthIs
<1>6. PICK list : list = [i \in 1 .. degree |-> [id |-> z[i], new |-> new[i]]]   OBVIOUS
<1>7. ASSUME NEW i \in 1 .. degree
      PROVE  list[i] \in Edges(row) /\ list[i].id = z[i]
  <2>1. list[i] = [id |-> z[i], new |-> new[i]] /\ z[i] \in Rows \ {row} /\ new[i] \in BOOLEAN
    BY <1>4, <1>6
  <2> QED   BY <2>1 DEF Edges
<1>8. list \in [1 .. degree -> Edges(row)]
  BY <1>6, <1>7
<1>9. RankedList(row, list)
  BY <1>4, <1>7, <1>8 DEF RankedList
<1> QED   BY <1>1, <1>5, <1>6, <1>9

\* The list of edges that are not new.
LEMMA TopOldRanked ==
  ASSUME build \in Builds, NEW row \in Rows, NEW S, S \subseteq Rows \ {row},
         degree <= Cardinality(S)
  PROVE  /\ Len(Top(row, S)) = degree
         /\ RankedList(row, [i \in 1 .. degree |-> [id |-> Top(row, S)[i], new |-> FALSE]])
<1>1. PICK new : new = [i \in 1 .. degree |-> FALSE]   OBVIOUS
<1>2. new \in [1 .. degree -> BOOLEAN]
  BY <1>1
<1>3. [i \in 1 .. degree |-> [id |-> Top(row, S)[i], new |-> new[i]]]
        = [i \in 1 .. degree |-> [id |-> Top(row, S)[i], new |-> FALSE]]
  BY <1>1
<1> QED   BY ZenonT(40), <1>2, <1>3, TopRanked

-----------------------------------------------------------------------------
(* The rows drawn on the device. *)

\* The step taken shares no divisor with the modulus.
LEMMA StepIsCoprime ==
  ASSUME NEW m \in Nat \ {0}, NEW s \in Nat \ {0}
  PROVE  CoprimeStep(s, m) \in Nat \ {0} /\ Coprime(CoprimeStep(s, m), m)
<1> DEFINE nth(j) == ((s - 1 + j) % m) + 1
<1>1. \A j \in Nat : nth(j) \in Nat \ {0}
  <2>1. ASSUME NEW j \in Nat PROVE nth(j) \in Nat \ {0}
    <3>1. PICK a : a = s - 1 + j   OBVIOUS
    <3>2. a \in Int
      BY <3>1
    <3>3. a % m \in 0 .. m - 1
      BY <3>2, ModFacts
    <3>4. (a % m) + 1 \in Nat \ {0}
      BY <3>3
    <3> QED   BY <3>1, <3>4
  <2> QED   BY <2>1
<1>2. \E j \in 0 .. m : nth(j) = 1
  <2>1. PICK r : r = (s - 1) % m   OBVIOUS
  <2>2. s - 1 \in Int   OBVIOUS
  <2>3. r \in 0 .. m - 1
    BY <2>1, <2>2, ModFacts
  <2>4. PICK q \in Int : s - 1 = q * m + r
    BY <2>1, <2>2, ModFacts
  <2>5. PICK j : j = m - r   OBVIOUS
  <2>6. j \in 0 .. m
    BY <2>3, <2>5
  <2>7. PICK a : a = s - 1 + j   OBVIOUS
  <2>8. a = (q + 1) * m + 0
    BY <2>3, <2>4, <2>5, <2>7
  <2>9. q + 1 \in Int /\ 0 \in 0 .. m - 1   OBVIOUS
  <2>10. a % m = 0
    BY <2>8, <2>9, RemainderIs
  <2>11. nth(j) = 1
    BY <2>7, <2>10
  <2> QED   BY <2>6, <2>11
<1> HIDE DEF nth
<1>3. Coprime(1, m)
  <2>1. ASSUME NEW d \in 2 .. m PROVE 1 % d # 0
    <3>1. d \in Nat \ {0} /\ 1 \in 0 .. d - 1 /\ 1 = 0 * d + 1 /\ 0 \in Int   OBVIOUS
    <3>2. 1 % d = 1
      BY <3>1, RemainderIs
    <3> QED   BY <3>2
  <2> QED   BY <2>1 DEF Coprime
<1>4. PICK J : J = {j \in 0 .. m : Coprime(nth(j), m)}   OBVIOUS
<1>5. J # {} /\ J \subseteq Nat
  BY <1>2, <1>3, <1>4
<1>6. PICK x \in J : \A y \in J : x <= y
  BY <1>5, LeastNat
<1>7. Min(J) \in J
  BY <1>6 DEF Min
<1>8. CoprimeStep(s, m) = nth(Min(J))
  BY <1>4 DEF CoprimeStep, nth
<1>9. Min(J) \in Nat /\ Coprime(nth(Min(J)), m)
  BY <1>4, <1>7
<1> QED   BY <1>1, <1>8, <1>9

\* Each edge drawn leads to another row, none to the row itself.
LEMMA DrawnPlaces ==
  ASSUME build \in Builds, NEW row \in Rows,
         NEW modulus, modulus = n - 1, NEW start \in Nat, NEW step \in Nat \ {0},
         Coprime(step, modulus),
         NEW id, id = DrawnRows(row, start, step)
  PROVE  /\ id \in [0 .. degree - 1 -> Rows \ {row}]
         /\ \A e, f \in 0 .. degree - 1 : id[e] = id[f] => e = f
<1>1. /\ n \in Nat /\ n >= 2 /\ modulus \in Nat \ {0} /\ degree \in 1 .. modulus
      /\ row \in 0 .. n - 1 /\ Rows = 0 .. n - 1
  BY BuildFacts
<1>0. id = [e \in 0 .. degree - 1 |-> (row + 1 + ((start + e * step) % modulus)) % n]
  BY DEF DrawnRows
<1>2. PICK a : a = [e \in 0 .. degree - 1 |-> (start + e * step) % modulus]   OBVIOUS
<1>3. ASSUME NEW e \in 0 .. degree - 1 PROVE a[e] \in 0 .. modulus - 1
  <2>1. start + e * step \in Int   OBVIOUS
  <2> QED   BY <1>1, <1>2, <2>1, ModFacts
<1>4. ASSUME NEW e \in 0 .. degree - 1
      PROVE  id[e] = IF row + (a[e] + 1) < n THEN row + (a[e] + 1) ELSE row + (a[e] + 1) - n
  <2>1. a[e] + 1 \in 1 .. n - 1 /\ row + 1 + a[e] = row + (a[e] + 1)
    BY SMTT(30), <1>1, <1>3
  <2>2. id[e] = (row + (a[e] + 1)) % n
    BY <1>0, <1>2, <2>1
  <2>3. n \in Nat \ {0} /\ row \in 0 .. n - 1
    BY <1>1
  <2>4. PICK b : b = a[e] + 1   OBVIOUS
  <2>5. (row + b) % n = IF row + b < n THEN row + b ELSE row + b - n
    BY <2>1, <2>3, <2>4, Turned
  <2> QED   BY <2>2, <2>4, <2>5
<1>5. ASSUME NEW e \in 0 .. degree - 1 PROVE id[e] \in Rows \ {row}
  <2>1. PICK b : b = a[e] + 1   OBVIOUS
  <2>2. b \in 1 .. n - 1 /\ n \in Nat /\ row \in 0 .. n - 1
    BY <1>1, <1>3, <2>1
  <2>3. id[e] = IF row + b < n THEN row + b ELSE row + b - n
    BY <1>4, <2>1
  <2>4. CASE row + b < n
    BY <1>1, <2>2, <2>3, <2>4
  <2>5. CASE ~(row + b < n)
    <3>1. id[e] = row + b - n
      BY <2>3, <2>5
    <3>2. row + b - n \in 0 .. n - 1 /\ row + b - n # row
      BY <2>2, <2>5
    <3> QED   BY <1>1, <3>1, <3>2
  <2> QED   BY <2>4, <2>5
<1>6. ASSUME NEW e \in 0 .. degree - 1, NEW f \in 0 .. degree - 1, id[e] = id[f] PROVE a[e] = a[f]
  <2>1. PICK b, c : b = a[e] + 1 /\ c = a[f] + 1   OBVIOUS
  <2>6. a[e] \in 0 .. modulus - 1 /\ a[f] \in 0 .. modulus - 1
    BY <1>3
  <2>7. n \in Nat /\ row \in 0 .. n - 1 /\ modulus = n - 1
    BY <1>1
  <2>8. PICK x, y : x = a[e] /\ y = a[f]   OBVIOUS
  <2>9. x \in 0 .. n - 1 - 1 /\ y \in 0 .. n - 1 - 1 /\ b = x + 1 /\ c = y + 1
    BY <2>1, <2>6, <2>7, <2>8
  <2>10. b \in 1 .. n - 1 /\ c \in 1 .. n - 1 /\ x = b - 1 /\ y = c - 1
    BY <2>7, <2>9
  <2>2. /\ b \in 1 .. n - 1 /\ c \in 1 .. n - 1 /\ n \in Nat /\ row \in 0 .. n - 1
        /\ a[e] = b - 1 /\ a[f] = c - 1
    BY <2>7, <2>8, <2>10
  <2>3. /\ id[e] = IF row + b < n THEN row + b ELSE row + b - n
        /\ id[f] = IF row + c < n THEN row + c ELSE row + c - n
    BY <1>4, <2>1
  <2>4. (IF row + b < n THEN row + b ELSE row + b - n)
          = (IF row + c < n THEN row + c ELSE row + c - n)
    BY <1>6, <2>3
  <2>5. b = c
    BY <2>2, <2>4
  <2> QED   BY <2>2, <2>5
<1>7. ASSUME NEW e \in 0 .. degree - 1, NEW f \in 0 .. degree - 1, e < f PROVE a[e] # a[f]
  <2>1. SUFFICES ASSUME a[e] = a[f] PROVE FALSE   OBVIOUS
  <2>2. PICK x, y : x = start + f * step /\ y = start + e * step   OBVIOUS
  <2>3. x \in Int /\ y \in Int /\ x % modulus = y % modulus
    BY <1>2, <2>1, <2>2
  <2>4. Multiple(x - y, modulus)
    BY <1>1, <2>3, SameRemainder
  <2>5. x - y = (f - e) * step
    BY <2>2
  <2>6. f - e \in 1 .. modulus - 1
    BY <1>1, <1>7
  <2> QED   BY <1>1, <2>4, <2>5, <2>6, CoprimeSteps
<1>8. ASSUME NEW e \in 0 .. degree - 1, NEW f \in 0 .. degree - 1, id[e] = id[f] PROVE e = f
  <2>1. a[e] = a[f]
    BY <1>6, <1>8
  <2>2. ~(e < f) /\ ~(f < e)
    BY <1>7, <2>1
  <2> QED   BY <1>1, <2>2
<1>9. id = [e \in 0 .. degree - 1 |-> id[e]]
  BY <1>0
<1> QED   BY <1>5, <1>8, <1>9

LEMMA EdgeOrder ==
  ASSUME build \in Builds, NEW row \in Rows, NEW E, E = 0 .. degree - 1,
         NEW id \in [E -> Rows \ {row}], \A e, f \in E : id[e] = id[f] => e = f,
         NEW Q, Q = EdgeBefore(row, E, id)
  PROVE  /\ StrictTotal(E, Q)
         /\ \A e, f \in E : <<e, f>> \in Q => <<id[e], id[f]>> \in Near(row)
<1>1. StrictTotal(Rows, Near(row)) /\ degree \in Nat
  BY BuildFacts, NearOrders
<1>2. ASSUME NEW e \in E, NEW f \in E PROVE <<e, f>> \in Q <=> <<id[e], id[f]>> \in Near(row)
  <2>1. id[e] \in Rows /\ id[f] \in Rows   OBVIOUS
  <2>2. id[e] = id[f] => ~(e < f)
    BY <1>1
  <2>3. <<e, f>> \in Q <=> nearer(row, id[e], id[f]) \/ (id[e] = id[f] /\ e < f)
    BY DEF EdgeBefore
  <2> QED   BY <2>1, <2>2, <2>3, NearIs
<1>3. \A e \in E : id[e] \in Rows   OBVIOUS
<1>4. \A e \in E : <<e, e>> \notin Q
  BY <1>1, <1>2, <1>3 DEF StrictTotal
<1>5. \A e, f \in E : e # f => <<e, f>> \in Q \/ <<f, e>> \in Q
  <2>1. ASSUME NEW e \in E, NEW f \in E, e # f PROVE <<e, f>> \in Q \/ <<f, e>> \in Q
    <3>1. id[e] # id[f]
      BY <2>1
    <3>2. <<id[e], id[f]>> \in Near(row) \/ <<id[f], id[e]>> \in Near(row)
      BY <1>1, <1>3, <3>1 DEF StrictTotal
    <3> QED   BY <1>2, <3>2
  <2> QED   BY <2>1
<1>6. \A e, f, g \in E : <<e, f>> \in Q /\ <<f, g>> \in Q => <<e, g>> \in Q
  <2>1. ASSUME NEW e \in E, NEW f \in E, NEW g \in E, <<e, f>> \in Q, <<f, g>> \in Q
        PROVE  <<e, g>> \in Q
    <3>1. <<id[e], id[f]>> \in Near(row) /\ <<id[f], id[g]>> \in Near(row)
      BY <1>2, <2>1
    <3>2. <<id[e], id[g]>> \in Near(row)
      BY <1>1, <1>3, <3>1 DEF StrictTotal
    <3> QED   BY <1>2, <3>2
  <2> QED   BY <2>1
<1> QED   BY <1>2, <1>4, <1>5, <1>6 DEF StrictTotal

\* What a row draws, in these terms.
LEMMA DrawnIs ==
  ASSUME NEW row
  PROVE  DrawnRow(row)
           = [i \in 1 .. degree |-> [id |-> DrawnTo(row, EdgeRanks(row)[i]), new |-> TRUE]]
BY DEF DrawnRow, Ranked, DrawnTo, PlacesAhead, EdgeRanks

\* A row starts with different rows, nearest first.
LEMMA DrawnRanked ==
  ASSUME build \in Builds, NEW row \in Rows
  PROVE  RankedList(row, DrawnRow(row))
<1>1. PICK modulus, start, step0 :
        modulus = n - 1 /\ start = build.seeds[row + 1].start /\ step0 = build.seeds[row + 1].step
  OBVIOUS
<1>2. /\ n \in Nat /\ n >= 2 /\ modulus \in Nat \ {0} /\ degree \in 1 .. modulus /\ degree \in Nat
      /\ row \in 0 .. n - 1
  BY <1>1, BuildFacts
<1>3. start \in Nat /\ step0 \in Nat \ {0}
  <2>1. row + 1 \in 1 .. Len(build.xs)
    BY <1>2 DEF n
  <2> QED   BY <1>1, <2>1, NnAssumption
<1>4. PICK step : step = CoprimeStep(step0, modulus)   OBVIOUS
<1>5. step \in Nat \ {0} /\ Coprime(step, modulus)
  BY <1>2, <1>3, <1>4, StepIsCoprime
<1>6. PICK E, id : E = 0 .. degree - 1 /\ id = DrawnRows(row, start, step)   OBVIOUS
<1>7. id \in [E -> Rows \ {row}] /\ \A e, f \in E : id[e] = id[f] => e = f
  BY SMTT(30), <1>1, <1>3, <1>5, <1>6, DrawnPlaces
<1>8. PICK Q : Q = EdgeBefore(row, E, id)   OBVIOUS
<1>9. StrictTotal(E, Q) /\ \A e, f \in E : <<e, f>> \in Q => <<id[e], id[f]>> \in Near(row)
  BY <1>6, <1>7, <1>8, EdgeOrder
<1>10. IsFiniteSet(E) /\ Cardinality(E) = degree
  <2>1. IsFiniteSet(E) /\ Cardinality(E) = IF 0 > degree - 1 THEN 0 ELSE (degree - 1) - 0 + 1
    BY <1>2, <1>6, FS_Interval
  <2> QED   BY <1>2, <2>1
<1>20. \A e \in E : DrawnTo(row, e) = id[e]
  BY <1>1, <1>4, <1>6 DEF DrawnRows, DrawnTo
<1>11. PICK ranks : ranks = EdgeRanks(row)   OBVIOUS
<1>22. ranks = [i \in 1 .. Cardinality(E) |->
                  CHOOSE x \in E : Cardinality(PlacesAhead(row, x)) = i - 1]
  BY <1>6, <1>11 DEF EdgeRanks
<1>21. DrawnRow(row) = [i \in 1 .. degree |-> [id |-> DrawnTo(row, ranks[i]), new |-> TRUE]]
  BY <1>11, DrawnIs
<1>12. ASSUME NEW x \in E PROVE Cardinality(PlacesAhead(row, x)) = RankIn(E, Q, x)
  <2>1. PlacesAhead(row, x) = Below(E, Q, x)
    BY <1>6, <1>8, <1>20 DEF Below, EdgeBefore, PlacesAhead
  <2> QED   BY <2>1 DEF RankIn
<1>13. ASSUME NEW i \in 1 .. degree PROVE ranks[i] \in E /\ RankIn(E, Q, ranks[i]) = i - 1
  <2>1. i - 1 \in 0 .. Cardinality(E) - 1
    BY <1>2, <1>10
  <2>2. PICK x \in E : RankIn(E, Q, x) = i - 1
    BY <1>9, <1>10, <2>1, RanksReach
  <2>3. ranks[i] = CHOOSE v \in E : Cardinality(PlacesAhead(row, v)) = i - 1
    BY <1>10, <1>22
  <2>4. Cardinality(PlacesAhead(row, x)) = i - 1
    BY <1>12, <2>2
  <2>5. ranks[i] \in E /\ Cardinality(PlacesAhead(row, ranks[i])) = i - 1
    BY <2>3, <2>4
  <2> QED   BY <1>12, <2>5
<1>14. ASSUME NEW t \in 1 .. degree, NEW u \in 1 .. degree, t < u
       PROVE  <<ranks[t], ranks[u]>> \in Q
  <2>1. /\ ranks[t] \in E /\ RankIn(E, Q, ranks[t]) = t - 1
        /\ ranks[u] \in E /\ RankIn(E, Q, ranks[u]) = u - 1
    BY <1>13
  <2>2. t - 1 # u - 1 /\ ~(u - 1 < t - 1)
    BY <1>2, <1>14
  <2>3. ranks[t] # ranks[u]
    BY <2>1, <2>2
  <2>4. <<ranks[u], ranks[t]>> \notin Q
    BY <1>9, <1>10, <2>1, <2>2, Ranks
  <2> QED   BY <1>9, <2>1, <2>3, <2>4 DEF StrictTotal
<1>15. PICK list : list = [i \in 1 .. degree |-> [id |-> id[ranks[i]], new |-> TRUE]]   OBVIOUS
<1>16. ASSUME NEW i \in 1 .. degree PROVE list[i] \in Edges(row) /\ list[i].id = id[ranks[i]]
  <2>1. list[i] = [id |-> id[ranks[i]], new |-> TRUE] /\ id[ranks[i]] \in Rows \ {row}
    BY <1>7, <1>13, <1>15
  <2> QED   BY <2>1 DEF Edges
<1>17. list \in [1 .. degree -> Edges(row)]
  BY <1>15, <1>16
<1>18. RankedList(row, list)
  <2>1. ASSUME NEW t \in 1 .. degree, NEW u \in 1 .. degree, t < u
        PROVE  <<list[t].id, list[u].id>> \in Near(row)
    BY <1>9, <1>13, <1>14, <1>16, <2>1
  <2> QED   BY <1>17, <2>1 DEF RankedList
<1>19. DrawnRow(row) = list
  BY <1>13, <1>15, <1>20, <1>21
<1> QED   BY <1>18, <1>19

-----------------------------------------------------------------------------
(* The list a row ends a turn with. *)

\* A tag is a truth value.
LEMMA TagType ==
  ASSUME NEW row, NEW candidate
  PROVE  tagged_new(row, candidate) \in BOOLEAN
BY DEF tagged_new

\* The ids of a list.
LEMMA ListIds ==
  ASSUME NEW row, NEW list \in [1 .. degree -> Edges(row)]
  PROVE  /\ Ids(list) = Image(IdsOf(list), degree)
         /\ Ids(list) \subseteq Rows \ {row}
         /\ DOMAIN list = 1 .. degree
         /\ \A t \in 1 .. degree : IdsOf(list)[t] = list[t].id
<1>1. \A t \in 1 .. degree : IdsOf(list)[t] = list[t].id
  BY DEF IdsOf
<1>2. DOMAIN list = 1 .. degree   OBVIOUS
<1>3. Ids(list) = {list[t].id : t \in 1 .. degree}
  BY <1>2 DEF Ids
<1>4. \A t \in 1 .. degree : list[t].id \in Rows \ {row}
  BY DEF Edges
<1>5. Ids(list) \subseteq Rows \ {row}
  BY <1>3, <1>4
<1>6. Ids(list) = Image(IdsOf(list), degree)
  BY <1>1, <1>3 DEF Image
<1> QED   BY <1>1, <1>2, <1>5, <1>6

\* The copy a turn starts with holds what the row held.
LEMMA AgedRow ==
  ASSUME build \in Builds, NEW row \in Rows, RankedList(row, current_ids[row])
  PROVE  MergedRow(row, Aged(current_ids[row]), {})
<1>1. PICK list, aged, S : /\ list = current_ids[row] /\ aged = Aged(list)
                           /\ S = Sampled(list, TRUE)   OBVIOUS
<1>2. RankedList(row, list)
  BY <1>1
<1>3. list \in [1 .. degree -> Edges(row)]
  BY <1>2 DEF RankedList
<1>4. DOMAIN list = 1 .. degree
  BY <1>3
<1>5. aged = [t \in 1 .. degree |->
                IF t \in S THEN [list[t] EXCEPT !.new = FALSE] ELSE list[t]]
  BY <1>1, <1>4 DEF Aged
<1>6. ASSUME NEW t \in 1 .. degree
      PROVE  /\ aged[t] \in Edges(row) /\ aged[t].id = list[t].id
             /\ aged[t].new = (t \notin S /\ list[t].new)
  <2>1. /\ list[t].id \in Rows /\ list[t].id # row /\ list[t].new \in BOOLEAN
        /\ list[t] = [id |-> list[t].id, new |-> list[t].new]
    <3>1. list[t] \in Edges(row)
      BY <1>3
    <3> QED   BY <3>1 DEF Edges
  <2>2. CASE t \in S
    <3>1. aged[t] = [list[t] EXCEPT !.new = FALSE]
      BY <1>5, <2>2
    <3>2. aged[t] = [id |-> list[t].id, new |-> FALSE]
      BY <2>1, <3>1
    <3>3. aged[t].id = list[t].id /\ aged[t].new = FALSE
      BY <3>2
    <3>4. list[t].id \in Rows \ {row} /\ FALSE \in BOOLEAN
      BY <2>1
    <3>5. aged[t] \in Edges(row)
      BY <3>2, <3>4 DEF Edges
    <3> QED   BY <2>2, <3>3, <3>5
  <2>3. CASE t \notin S
    <3>1. aged[t] = list[t]
      BY <1>5, <2>3
    <3> QED   BY <1>3, <2>1, <2>3, <3>1
  <2> QED   BY <2>2, <2>3
<1>7. aged \in [1 .. degree -> Edges(row)]
  BY <1>5, <1>6
<1>8. IdsOf(aged) = IdsOf(list)
  BY <1>6 DEF IdsOf
<1>9. Firsts(IdsOf(aged), degree, Ids(current_ids[row]) \cup {}, Near(row), degree)
  <2>1. Firsts(IdsOf(list), degree, Ids(list), Near(row), degree)
    BY <1>2, RankedFirst
  <2>2. Ids(current_ids[row]) \cup {} = Ids(list)
    BY <1>1
  <2> QED   BY <1>8, <2>1, <2>2
<1>10. \A t, u \in 1 .. degree : list[t].id = list[u].id => t = u
  BY <1>2, RankedIsDrawn DEF DrawnList
<1>11. ASSUME NEW t \in 1 .. degree
       PROVE  aged[t].new = tagged_new(row, aged[t].id)
  <2>1. PICK x : x = list[t].id   OBVIOUS
  <2>2. x \in Ids(current_ids[row])
    BY <1>1, <1>4, <2>1 DEF Ids
  <2>3. tagged_new(row, x) = (\E i \in DOMAIN list : list[i].id = x /\ list[i].new /\ i \notin S)
    BY <1>1, <2>2 DEF tagged_new
  <2>4. (\E i \in 1 .. degree : list[i].id = x /\ list[i].new /\ i \notin S)
          <=> (t \notin S /\ list[t].new)
    BY <1>10, <2>1
  <2>5. list[t].new \in BOOLEAN
    BY <1>3, EdgeFields
  <2>6. tagged_new(row, x) = (t \notin S /\ list[t].new)
    BY <1>4, <2>3, <2>4, <2>5
  <2> QED   BY <1>6, <2>1, <2>6
<1>12. TaggedList(row, aged)
  BY <1>11 DEF TaggedList
<1> QED   BY <1>1, <1>7, <1>9, <1>12 DEF MergedRow

\* Spliced, for a list that is named with its length.
LEMMA SplicedPart ==
  ASSUME NEW V, NEW m \in Nat, NEW z, OnFirst(z, m, V), NEW p \in 0 .. m, NEW x \in V,
         NEW q \in p .. m
  PROVE  Splice(z, p, x, q) = Inserted(z, p, x, q + 1)
<1>1. z \in [1 .. m -> V]
  BY DEF OnFirst
<1>2. ASSUME NEW l, l \in Nat, z \in [1 .. l -> V], p \in 0 .. l, q \in p .. l
      PROVE  SubSeq(z, 1, p) \o <<x>> \o SubSeq(z, p + 1, q) = Inserted(z, p, x, q + 1)
  BY ZenonT(40), <1>2, Spliced
<1>3. SubSeq(z, 1, p) \o <<x>> \o SubSeq(z, p + 1, q) = Inserted(z, p, x, q + 1)
  BY <1>1, <1>2
<1> QED   BY <1>3 DEF Splice

\* A candidate merged into a list.
LEMMA MergedStep ==
  ASSUME build \in Builds, NEW row \in Rows, RankedList(row, current_ids[row]),
         NEW S, S \subseteq Rows \ {row}, NEW list, MergedRow(row, list, S),
         NEW candidate \in Rows \ {row}
  PROVE  MergedRow(row, Merged(row, list, candidate), S \cup {candidate})
<1>1. PICK z, k, R, T, U : /\ z = IdsOf(list) /\ k = degree /\ R = Near(row)
                           /\ T = Ids(current_ids[row]) \cup S /\ U = T \cup {candidate}   OBVIOUS
<1>2. /\ list \in [1 .. k -> Edges(row)] /\ Firsts(z, k, T, R, k) /\ TaggedList(row, list)
  BY <1>1 DEF MergedRow
<1>3. k \in Nat /\ k >= 1
  BY <1>1, BuildFacts
<1>4. Ids(current_ids[row]) \subseteq Rows \ {row}
  BY ListIds DEF RankedList
<1>5. T \subseteq Rows /\ U \subseteq Rows
  BY <1>1, <1>4
<1>6. StrictTotal(U, R) /\ StrictTotal(T, R)
  BY <1>1, <1>5, NearOrders
<1>7. U = Ids(current_ids[row]) \cup (S \cup {candidate})
  BY <1>1
<1>8. /\ Ids(list) = Image(z, k) /\ DOMAIN list = 1 .. k
      /\ \A t \in 1 .. k : z[t] = list[t].id
  BY <1>1, <1>2, ListIds
<1>9. z \in [1 .. k -> T]
  BY <1>2 DEF Firsts
<1>10. ASSUME Firsts(z, k, U, R, k) PROVE MergedRow(row, list, S \cup {candidate})
  BY <1>1, <1>2, <1>7, <1>10 DEF MergedRow
<1>11. ASSUME candidate \in T PROVE MergedRow(row, list, S \cup {candidate})
  <2>1. U = T
    BY <1>1, <1>11
  <2> QED   BY <1>2, <1>10, <2>1
<1>12. CASE candidate \in Ids(list)
  <2>1. candidate \in T
    BY <1>8, <1>9, <1>12 DEF Image
  <2>2. Merged(row, list, candidate) = list
    BY <1>12 DEF Merged
  <2> QED   BY <1>11, <2>1, <2>2
<1>13. CASE candidate \notin Ids(list)
  <2>1. \A t \in 1 .. k : z[t] # candidate
    BY <1>8, <1>13 DEF Image
  <2>2. PICK p : p = Cardinality(PlacesBefore(z, k, R, candidate))   OBVIOUS
  <2>3. StrictTotal(T \cup {candidate}, R)
    BY <1>1, <1>6
  <2>4. p \in 0 .. k /\ \A t \in 1 .. k : t <= p <=> <<z[t], candidate>> \in R
    <3>1. Firsts(z, k, T, R, k)
      BY <1>2
    <3>2. k \in Nat
      BY <1>3
    <3>3. PICK m : m = k   OBVIOUS
    <3>4. Firsts(z, m, T, R, k)
      BY <3>1, <3>3
    <3>5. \A t \in 1 .. m : z[t] # candidate
      BY <2>1, <3>3
    <3>6. p = Cardinality(PlacesBefore(z, m, R, candidate))
      BY <2>2, <3>3
    <3>7. p \in 0 .. m /\ \A t \in 1 .. m : t <= p <=> <<z[t], candidate>> \in R
      BY <2>3, <3>2, <3>4, <3>5, <3>6, PlaceOf
    <3> QED   BY <3>3, <3>7
  <2>5. ASSUME NEW t \in 1 .. k
        PROVE  nearer(row, candidate, list[t].id) <=> <<z[t], candidate>> \notin R
    <3>1. z[t] \in Rows /\ z[t] = list[t].id /\ z[t] \in U /\ candidate \in U
      BY <1>1, <1>5, <1>8, <1>9
    <3>2. nearer(row, candidate, list[t].id) <=> <<candidate, z[t]>> \in R
      BY <1>1, <3>1, NearIs
    <3>3. <<candidate, z[t]>> \in R \/ <<z[t], candidate>> \in R
      BY <1>6, <2>1, <3>1 DEF StrictTotal
    <3>4. ~(<<candidate, z[t]>> \in R /\ <<z[t], candidate>> \in R)
      BY <1>6, <3>1 DEF StrictTotal
    <3> QED   BY <3>2, <3>3, <3>4
  <2>6. k \in 1 .. k
    BY <1>3
  <2>7. CASE ~nearer(row, candidate, list[k].id)
    <3>1. <<z[k], candidate>> \in R
      BY <2>5, <2>6, <2>7
    <3>2. p >= k
      BY <1>3, <2>4, <2>6, <3>1
    <3>3. Merged(row, list, candidate) = list
      BY <1>1, <2>7 DEF Merged
    <3>4. CASE candidate \in T
      BY <1>11, <3>3, <3>4
    <3>5. CASE candidate \notin T
      <4>1. Firsts(z, k, T \cup {candidate}, R, k)
        BY <1>2, <1>3, <2>3, <2>4, <3>2, <3>5, FirstsKeep
      <4> QED   BY <1>1, <1>10, <3>3, <4>1
    <3> QED   BY <3>4, <3>5
  <2>8. CASE nearer(row, candidate, list[k].id)
    <3>1. <<z[k], candidate>> \notin R
      BY <2>5, <2>6, <2>8
    <3>2. candidate \notin T
      <4>1. SUFFICES ASSUME candidate \in T PROVE FALSE   OBVIOUS
      <4>2. \/ \E t \in 1 .. k : z[t] = candidate
            \/ \A t \in 1 .. k : <<z[t], candidate>> \in R
        BY <1>2, <4>1 DEF Firsts
      <4> QED   BY <2>1, <2>6, <3>1, <4>2
    <3>3. p < k /\ p \in Nat
      BY <1>3, <2>4, <2>6, <3>1
    <3>4. PICK edge, y, w :
            /\ edge = [id |-> candidate, new |-> tagged_new(row, candidate)]
            /\ y = Inserted(list, p, edge, k) /\ w = Inserted(z, p, candidate, k)   OBVIOUS
    <3>5. edge \in Edges(row)
      BY <3>4, TagType DEF Edges
    <3>6. Cardinality({i \in DOMAIN list : ~nearer(row, candidate, list[i].id)}) = p
      <4>1. {i \in DOMAIN list : ~nearer(row, candidate, list[i].id)}
              = PlacesBefore(z, k, R, candidate)
        BY <1>8, <2>5 DEF PlacesBefore
      <4> QED   BY <2>2, <4>1
    <3>7. Merged(row, list, candidate)
            = SubSeq(list, 1, p) \o <<edge>> \o SubSeq(list, p + 1, k - 1)
      BY <1>1, <1>13, <2>8, <3>4, <3>6 DEF Merged
    <3>8. SubSeq(list, 1, p) \o <<edge>> \o SubSeq(list, p + 1, k - 1)
            = Inserted(list, p, edge, (k - 1) + 1)
      <4>1. k - 1 \in p .. k /\ p \in 0 .. k
        BY <1>3, <2>4, <3>3
      <4> QED
        <5>1. list \in [1 .. k -> Edges(row)] /\ k \in Nat
          BY <1>2, <1>3
        <5>2. PICK q : q = k - 1   OBVIOUS
        <5>3. p \in 0 .. k /\ q \in p .. k
          BY <4>1, <5>2
        <5>5. PICK V, x : V = Edges(row) /\ x = edge   OBVIOUS
        <5>6. OnFirst(list, k, V)
          BY <5>1, <5>5 DEF OnFirst
        <5>7. x \in V /\ k \in Nat
          BY <3>5, <5>1, <5>5
        <5>8. Splice(list, p, x, q) = Inserted(list, p, x, q + 1)
          BY <5>3, <5>6, <5>7, SplicedPart
        <5>4. SubSeq(list, 1, p) \o <<edge>> \o SubSeq(list, p + 1, q)
                = Inserted(list, p, edge, q + 1)
          BY <5>5, <5>8 DEF Splice
        <5> QED   BY <5>2, <5>4
    <3>9. Merged(row, list, candidate) = y
      <4>1. (k - 1) + 1 = k
        BY <1>3
      <4> QED   BY <3>4, <3>7, <3>8, <4>1
    <3>10. Firsts(w, k, T \cup {candidate}, R, k)
      <4>1. PICK l : l = IF k + 1 <= k THEN k + 1 ELSE k   OBVIOUS
      <4>2. l = k
        BY <1>3, <4>1
      <4>3. Firsts(Inserted(z, p, candidate, l), l, T \cup {candidate}, R, k)
        BY <1>2, <1>3, <2>3, <2>4, <3>2, <3>3, <4>1, FirstsInsert
      <4> QED   BY <3>4, <4>2, <4>3
    <3>11. ASSUME NEW t \in 1 .. k
           PROVE  /\ y[t] \in Edges(row) /\ y[t].id = w[t]
                  /\ y[t].new = tagged_new(row, y[t].id)
      <4>1. /\ y[t] = IF t <= p THEN list[t] ELSE IF t = p + 1 THEN edge ELSE list[t - 1]
            /\ w[t] = IF t <= p THEN z[t] ELSE IF t = p + 1 THEN candidate ELSE z[t - 1]
        BY <3>4 DEF Inserted
      <4>2. \A u \in 1 .. k : /\ list[u] \in Edges(row) /\ z[u] = list[u].id
                              /\ list[u].new = tagged_new(row, list[u].id)
        BY <1>1, <1>2, <1>8 DEF TaggedList
      <4>3. CASE t <= p
        BY <4>1, <4>2, <4>3
      <4>4. CASE t = p + 1
        <5>1. y[t] = edge /\ w[t] = candidate
          BY <3>3, <4>1, <4>4
        <5> QED   BY <3>4, <3>5, <5>1
      <4>5. CASE ~(t <= p) /\ t # p + 1
        <5>1. t - 1 \in 1 .. k
          BY <1>3, <3>3, <4>5
        <5> QED   BY <4>1, <4>2, <4>5, <5>1
      <4> QED   BY <4>3, <4>4, <4>5
    <3>12. y \in [1 .. k -> Edges(row)]
      BY <3>4, <3>11 DEF Inserted
    <3>13. IdsOf(y) = w
      <4>1. w = [t \in 1 .. k |-> w[t]]
        BY <3>4 DEF Inserted
      <4> QED   BY <1>1, <3>11, <4>1 DEF IdsOf
    <3>14. TaggedList(row, y)
      BY <1>1, <3>11 DEF TaggedList
    <3> QED   BY <1>1, <1>7, <3>9, <3>10, <3>12, <3>13, <3>14 DEF MergedRow
  <2> QED   BY <2>7, <2>8
<1> QED   BY <1>12, <1>13

\* What a turn leaves is what the row would choose itself.
LEMMA MergedIsTop ==
  ASSUME build \in Builds, NEW row \in Rows, RankedList(row, current_ids[row]),
         NEW S, S \subseteq Rows \ {row}, NEW list, MergedRow(row, list, S)
  PROVE  /\ RankedList(row, list)
         /\ list = LET closest == Top(row, Ids(current_ids[row]) \cup S)
                   IN [i \in 1 .. degree |-> [id |-> closest[i], new |-> tagged_new(row, closest[i])]]
<1>1. PICK T, closest : T = Ids(current_ids[row]) \cup S /\ closest = Top(row, T)   OBVIOUS
<1>2. /\ list \in [1 .. degree -> Edges(row)] /\ TaggedList(row, list)
      /\ Firsts(IdsOf(list), degree, T, Near(row), degree)
  BY <1>1 DEF MergedRow
<1>3. Ids(current_ids[row]) \subseteq Rows \ {row}
  BY ListIds DEF RankedList
<1>4. T \subseteq Rows
  BY <1>1, <1>3
<1>5. IsFiniteSet(T) /\ StrictTotal(T, Near(row)) /\ degree \in Nat
  BY <1>4, NearOrders, RowsAreNumbers, BuildFacts
<1>6. PICK m : m = IF degree <= Cardinality(T) THEN degree ELSE Cardinality(T)   OBVIOUS
<1>7. Firsts(closest, m, T, Near(row), degree)
  BY <1>1, <1>4, <1>6, TopIs
<1>8. IdsOf(list) = closest
  BY <1>2, <1>5, <1>7, FirstsUnique
<1>9. ASSUME NEW t \in 1 .. degree
      PROVE  list[t] = [id |-> closest[t], new |-> tagged_new(row, closest[t])]
  <2>1. list[t] = [id |-> list[t].id, new |-> list[t].new]
    <3>1. list[t] \in Edges(row)
      BY <1>2
    <3> QED   BY <3>1 DEF Edges
  <2>2. list[t].id = closest[t]
    BY <1>8 DEF IdsOf
  <2>3. list[t].new = tagged_new(row, list[t].id)
    BY <1>2 DEF TaggedList
  <2> QED   BY <2>1, <2>2, <2>3
<1>10. list = [t \in 1 .. degree |-> list[t]]
  BY <1>2
<1>11. list = [t \in 1 .. degree |-> [id |-> closest[t], new |-> tagged_new(row, closest[t])]]
  BY <1>9, <1>10
<1>12. RankedList(row, list)
  BY <1>2, FirstRanked
<1> QED   BY <1>1, <1>11, <1>12

-----------------------------------------------------------------------------
(* What the vertices propose, and the lists of the sources. *)

\* The members of such a list are rows.
LEMMA ListedRows ==
  ASSUME build \in Builds, NEW lists, NEW class, NEW upto \in 0 .. n,
         Listed(lists, class, upto), NEW row \in Rows
  PROVE  ToSet(lists[row]) \subseteq Rows
<1>1. PICK m : Firsts(lists[row], m, Reaching(0 .. upto - 1, row, class),
                      Prio(row, class), sample_count)
  BY DEF Listed
<1>2. PICK z : z = lists[row]   OBVIOUS
<1>3. z \in [1 .. m -> Reaching(0 .. upto - 1, row, class)]
  BY <1>1, <1>2 DEF Firsts
<1>4. 0 .. upto - 1 \subseteq Rows
  BY BuildFacts
<1>5. Reaching(0 .. upto - 1, row, class) \subseteq Rows
  BY <1>4 DEF Reaching
<1>6. ToSet(z) = {z[t] : t \in 1 .. m}
  BY <1>3 DEF ToSet
<1>7. \A t \in 1 .. m : z[t] \in Rows
  <2>1. PICK W : W = Reaching(0 .. upto - 1, row, class)   OBVIOUS
  <2>2. z \in [1 .. m -> W] /\ W \subseteq Rows
    BY <1>3, <1>5, <2>1
  <2> QED   BY <2>2
<1>8. ToSet(z) \subseteq Rows
  BY <1>6, <1>7
<1> QED   BY <1>2, <1>8

\* A chunk of sources takes the lists one chunk further.
LEMMA ReverseStep ==
  ASSUME build \in Builds, iteration \in 0 .. build.iters, row_at \in Rows,
         NEW lists, NEW class \in {"new", "old"}, Listed(lists, class, row_at),
         NEW order \in Arrivals(Chunk(ReverseChunk)),
         NEW upto, upto = IF row_at + ReverseChunk >= n THEN n ELSE row_at + ReverseChunk
  PROVE  Listed([row \in Rows |-> reverse_list(lists[row], row, class, order)], class, upto)
<1>1. PICK A, C : A = 0 .. row_at - 1 /\ C = Chunk(ReverseChunk)   OBVIOUS
<1>2. n \in Nat /\ Rows = 0 .. n - 1 /\ row_at \in Nat /\ row_at < n
  BY BuildFacts
<1>3. ReverseChunk \in Nat /\ ReverseChunk >= 1
  BY NnAssumption
<1>4. Min({row_at + ReverseChunk, n}) = upto
  <2>1. row_at + ReverseChunk \in Int /\ n \in Int
    BY <1>2, <1>3
  <2> QED   BY <1>2, <1>3, <2>1, MinOfTwo
<1>5. upto \in Nat /\ upto <= n /\ row_at <= upto
  BY <1>2, <1>3
<1>6. C = row_at .. upto - 1
  BY <1>1, <1>4 DEF Chunk
<1>7. A \subseteq Rows /\ C \subseteq Rows /\ A \cup C = 0 .. upto - 1
  BY <1>1, <1>2, <1>5, <1>6
<1>8. order \in Arrivals(C)
  BY <1>1
<1>9. PICK L : L = [row \in Rows |-> reverse_list(lists[row], row, class, order)]   OBVIOUS
<1>10. ASSUME NEW row \in Rows
       PROVE  \E m : Firsts(L[row], m, Reaching(0 .. upto - 1, row, class),
                            Prio(row, class), sample_count)
  <2>1. PICK m : Firsts(lists[row], m, Reaching(A, row, class), Prio(row, class), sample_count)
    BY <1>1 DEF Listed
  <2>2. \E l : Firsts(reverse_list(lists[row], row, class, order), l,
                      Reaching(A \cup C, row, class), Prio(row, class), sample_count)
    BY <1>7, <1>8, <2>1, ReverseFirsts
  <2>3. L[row] = reverse_list(lists[row], row, class, order)
    BY <1>9
  <2> QED   BY <1>7, <2>2, <2>3
<1>11. Listed(L, class, upto)
  BY <1>10 DEF Listed
<1> QED   BY <1>9, <1>11

\* The lists of all sources are what the targets should sample.
LEMMA ListedSample ==
  ASSUME build \in Builds, iteration \in 0 .. build.iters,
         NEW lists, NEW class \in {"new", "old"}, Listed(lists, class, n), NEW row \in Rows
  PROVE  lists[row] = SampleOf(row, class)
<1>1. PICK S, R, k : /\ S = {s \in Rows : Reaches(s, row, class)}
                     /\ R = Prio(row, class) /\ k = sample_count   OBVIOUS
<1>2. S \subseteq Rows
  BY <1>1
<1>3. IsFiniteSet(S) /\ StrictTotal(S, R) /\ k \in Nat
  BY <1>1, <1>2, PrioOrders, RowsAreNumbers, BuildFacts
<1>4. Reaching(0 .. n - 1, row, class) = S
  BY <1>1, BuildFacts DEF Reaching
<1>5. PICK m : Firsts(lists[row], m, S, R, k)
  BY <1>1, <1>4 DEF Listed
<1>6. PICK l : l = IF k <= Cardinality(S) THEN k ELSE Cardinality(S)   OBVIOUS
<1>7. Firsts(SampleOf(row, class), l, S, R, k)
  BY <1>1, <1>6, SampleIs
<1> QED   BY <1>3, <1>5, <1>7, FirstsUnique

LEMMA BestPairsOther ==
  ASSUME build \in Builds, NEW S, S \subseteq Rows, NEW T, T \subseteq Rows,
         NEW p \in BestPairs(S, T)
  PROVE  OtherPair(p)
<1>1. PICK a \in {x \in S : T \ {x} # {}} : p = <<a, Nearest(a, T \ {a})[1]>>
  BY DEF BestPairs
<1>2. PICK U, c, z : U = T \ {a} /\ c = Cardinality(U) /\ z = Nearest(a, U)   OBVIOUS
<1>3. a \in Rows /\ U # {} /\ U \subseteq Rows
  BY <1>1, <1>2
<1>4. IsFiniteSet(U) /\ c \in Nat
  BY <1>2, <1>3, RowsAreNumbers
<1>5. c # 0
  BY <1>2, <1>3, <1>4, FS_EmptySet
<1>6. z \in [1 .. c -> U]
  BY <1>2, <1>3, NearestIs
<1>7. 1 \in 1 .. c
  BY <1>4, <1>5
<1>8. z[1] \in U
  BY <1>6, <1>7
<1>9. p = <<a, z[1]>>
  BY <1>1, <1>2
<1> QED   BY <1>2, <1>3, <1>8, <1>9 DEF OtherPair

\* So are the pairs of a vertex.
LEMMA PairsOther ==
  ASSUME build \in Builds, Listed(reverse_new, "new", n), Listed(reverse_old, "old", n),
         NEW vertex \in Rows, RankedList(vertex, current_ids[vertex]), NEW p \in Pairs(vertex)
  PROVE  OtherPair(p)
<1>1. n \in 0 .. n
  BY BuildFacts
<1>2. PICK list : list = current_ids[vertex]   OBVIOUS
<1>3. list \in [1 .. degree -> Edges(vertex)]
  BY <1>2 DEF RankedList
<1>4. \A new : \A i \in Sampled(list, new) : list[i].id \in Rows
  BY <1>3 DEF Sampled, Edges
<1>5. NewIds(vertex) \subseteq Rows
  <2>1. ToSet(reverse_new[vertex]) \subseteq Rows
    BY <1>1, ListedRows
  <2> QED   BY <1>2, <1>4, <2>1 DEF NewIds
<1>6. OldIds(vertex) \subseteq Rows
  <2>1. ToSet(reverse_old[vertex]) \subseteq Rows
    BY <1>1, ListedRows
  <2> QED   BY <1>2, <1>4, <2>1 DEF OldIds
<1>7. \/ p \in BestPairs(NewIds(vertex), NewIds(vertex))
      \/ p \in BestPairs(NewIds(vertex), OldIds(vertex))
      \/ p \in BestPairs(OldIds(vertex), NewIds(vertex))
  BY DEF Pairs
<1> QED   BY <1>5, <1>6, <1>7, BestPairsOther

-----------------------------------------------------------------------------
(* The lists of the host, and of few rows. *)

\* The exact list of a row.
LEMMA ExactRanked ==
  ASSUME build \in Builds, NEW row \in Rows
  PROVE  RankedList(row,
           [i \in 1 .. degree |-> [id |-> Top(row, Rows \ {row})[i], new |-> FALSE]])
<1>1. PICK S : S = Rows \ {row}   OBVIOUS
<1>2. S \subseteq Rows \ {row} /\ S \subseteq Rows
  BY <1>1
<1>3. Cardinality(S) = n - 1
  <2>1. IsFiniteSet(Rows) /\ Cardinality(Rows) = n
    BY BuildFacts
  <2> QED   BY <1>1, <2>1, FS_RemoveElement
<1>4. degree <= Cardinality(S)
  BY <1>3, BuildFacts
<1>5. RankedList(row, [i \in 1 .. degree |-> [id |-> Top(row, S)[i], new |-> FALSE]])
  BY <1>2, <1>4, TopOldRanked
<1> QED   BY <1>1, <1>5

\* The rows the host draws.
LEMMA HostDrawn ==
  ASSUME build \in Builds, NEW row \in Rows,
         NEW f \in [1 .. degree -> 1 .. n - 1], IsInjective(f),
         NEW list,
         list = [i \in 1 .. degree |-> [id |-> (row + f[i]) % n, new |-> FALSE]]
  PROVE  DrawnList(row, list)
<1>1. n \in Nat \ {0} /\ row \in 0 .. n - 1 /\ Rows = 0 .. n - 1
  BY BuildFacts
<1>2. ASSUME NEW i \in 1 .. degree
      PROVE  /\ list[i] = [id |-> (row + f[i]) % n, new |-> FALSE]
             /\ list[i].id = IF row + f[i] < n THEN row + f[i] ELSE row + f[i] - n
  <2>1. PICK b : b = f[i]   OBVIOUS
  <2>2. b \in 1 .. n - 1
    BY <2>1
  <2>3. list[i] = [id |-> (row + b) % n, new |-> FALSE]
    BY <2>1
  <2>4. (row + b) % n = IF row + b < n THEN row + b ELSE row + b - n
    BY <1>1, <2>2, Turned
  <2> QED   BY <2>1, <2>3, <2>4
<1>3. ASSUME NEW i \in 1 .. degree PROVE list[i] \in Edges(row)
  <2>1. PICK b, x : b = f[i] /\ x = list[i].id   OBVIOUS
  <2>2. b \in 1 .. n - 1 /\ x = IF row + b < n THEN row + b ELSE row + b - n
    BY <1>2, <2>1
  <2>3. x \in 0 .. n - 1 /\ x # row
    BY <1>1, <2>2
  <2>4. list[i] = [id |-> x, new |-> FALSE]
    BY <1>2, <2>1
  <2>5. x \in Rows \ {row} /\ FALSE \in BOOLEAN
    BY <1>1, <2>3
  <2> QED   BY <2>4, <2>5 DEF Edges
<1>4. list \in [1 .. degree -> Edges(row)]
  BY <1>3
<1>5. ASSUME NEW t \in 1 .. degree, NEW u \in 1 .. degree, list[t].id = list[u].id
      PROVE  t = u
  <2>1. PICK b, c : b = f[t] /\ c = f[u]   OBVIOUS
  <2>2. b \in 1 .. n - 1 /\ c \in 1 .. n - 1
    BY <2>1
  <2>3. /\ list[t].id = IF row + b < n THEN row + b ELSE row + b - n
        /\ list[u].id = IF row + c < n THEN row + c ELSE row + c - n
    BY <1>2, <2>1
  <2>4. (IF row + b < n THEN row + b ELSE row + b - n)
          = (IF row + c < n THEN row + c ELSE row + c - n)
    BY <1>5, <2>3
  <2>5. b = c
    BY <1>1, <2>2, <2>4
  <2>6. f[t] = f[u] => t = u
    BY DEF IsInjective
  <2> QED   BY <2>1, <2>5, <2>6
<1> QED   BY <1>4, <1>5 DEF DrawnList

\* It is ranked, whatever its neighbours hold.
LEMMA HostRanked ==
  ASSUME build \in Builds, NEW row \in Rows, \A u \in Rows : DrawnList(u, current_ids[u])
  PROVE  RankedList(row, HostList(row))
<1>1. PICK S : S = HostCandidates(row)   OBVIOUS
<1>2. \A u \in Rows : Ids(current_ids[u]) \subseteq Rows /\ u \notin Ids(current_ids[u])
  BY DrawnIds
<1>3. S \subseteq Rows \ {row}
  BY <1>1, <1>2 DEF HostCandidates
<1>4. Ids(current_ids[row]) \subseteq S
  BY <1>1, <1>2 DEF HostCandidates
<1>5. Cardinality(Ids(current_ids[row])) = degree
  BY DrawnIds
<1>6. IsFiniteSet(S)
  BY <1>3, RowsAreNumbers
<1>7. degree <= Cardinality(S)
  BY <1>4, <1>5, <1>6, FS_Subset
<1>8. PICK closest : closest = Top(row, S)   OBVIOUS
<1>9. /\ Len(closest) = degree
      /\ RankedList(row, [i \in 1 .. degree |-> [id |-> closest[i], new |-> FALSE]])
  BY <1>3, <1>7, <1>8, TopOldRanked
<1>10. \A i \in 1 .. degree : (IF i <= Len(closest) THEN closest[i] ELSE -1) = closest[i]
  BY <1>9, BuildFacts
<1>11. HostList(row) = [i \in 1 .. degree |-> [id |-> closest[i], new |-> FALSE]]
  BY <1>1, <1>8, <1>10 DEF HostList
<1> QED   BY <1>9, <1>11

-----------------------------------------------------------------------------
(* What a step leaves as it is. *)

\* The sizes and the order of a call stay with it.
LEMMA KeepBuild ==
  ASSUME build' = build
  PROVE  /\ n' = n /\ Rows' = Rows /\ degree' = degree /\ sample_count' = sample_count
         /\ \A row : Near(row)' = Near(row)
<1>1. n' = n
  BY DEF n
<1>2. Rows' = Rows
  BY <1>1 DEF Rows
<1>3. degree' = degree
  BY <1>1 DEF degree
<1>4. sample_count' = sample_count
  BY <1>3 DEF sample_count
<1>5. \A row : Near(row)' = Near(row)
  BY <1>2 DEF Near, nearer, distance
<1> QED   BY <1>1, <1>2, <1>3, <1>4, <1>5

\* So does what it means for a list to be ranked.
LEMMA KeepRanked ==
  ASSUME build' = build, NEW row, NEW list
  PROVE  /\ RankedList(row, list)' <=> RankedList(row, list)
         /\ DrawnList(row, list)' <=> DrawnList(row, list)
<1>1. degree' = degree /\ Edges(row)' = Edges(row) /\ Near(row)' = Near(row)
  BY KeepBuild DEF Edges
<1> QED   BY <1>1 DEF RankedList, DrawnList

\* A merged list stays one while the current graph stays.
LEMMA KeepMerged ==
  ASSUME build' = build, current_ids' = current_ids, NEW row, NEW list, NEW S
  PROVE  MergedRow(row, list, S)' <=> MergedRow(row, list, S)
<1>1. degree' = degree /\ Edges(row)' = Edges(row) /\ Near(row)' = Near(row)
      /\ sample_count' = sample_count
  BY KeepBuild DEF Edges
<1>2. IdsOf(list)' = IdsOf(list)
  BY <1>1 DEF IdsOf
<1>3. ASSUME NEW candidate PROVE tagged_new(row, candidate)' = tagged_new(row, candidate)
  BY <1>1 DEF tagged_new, Sampled
<1>4. TaggedList(row, list)' <=> TaggedList(row, list)
  BY <1>1, <1>3 DEF TaggedList
<1>5. Ids(current_ids[row])' = Ids(current_ids[row])   OBVIOUS
<1> QED   BY <1>1, <1>2, <1>4, <1>5 DEF MergedRow

\* The lists of the sources stay what they are for a turn.
LEMMA KeepListed ==
  ASSUME build' = build, current_ids' = current_ids, iteration' = iteration,
         NEW lists, NEW class, NEW upto
  PROVE  Listed(lists, class, upto)' <=> Listed(lists, class, upto)
<1>1. Rows' = Rows /\ sample_count' = sample_count
  BY KeepBuild
<1>2. ASSUME NEW row PROVE Prio(row, class)' = Prio(row, class)
  BY <1>1 DEF Prio, Ahead
<1>3. ASSUME NEW row, NEW S PROVE Reaching(S, row, class)' = Reaching(S, row, class)
  BY <1>1 DEF Reaching, Reaches, Sampled
<1> QED   BY <1>1, <1>2, <1>3 DEF Listed

-----------------------------------------------------------------------------
(* One lemma for each step. *)

\* A call begins.
LEMMA BuildStep ==
  ASSUME NnInv, nndescent_build
  PROVE  NnInv'
<1>1. phase = "idle" /\ build' \in Builds /\ iteration' = iteration /\ iteration = 0
  BY DEF NnInv, nndescent_build
<1>2. phase' \in {"exact", "preflight", "host_draw", "refused"}
  BY DEF nndescent_build
<1> QED   BY <1>1, <1>2 DEF NnInv

\* The exact graph is ranked.
LEMMA ExactStep ==
  ASSUME NnInv, knn_graph_brute
  PROVE  NnInv'
<1>1. phase = "exact" /\ build \in Builds /\ build' = build /\ phase' = "returned"
  BY DEF NnInv, knn_graph_brute, Finished
<1>2. PICK g : g = current_ids'   OBVIOUS
<1>3. g = [row \in Rows |->
             [i \in 1 .. degree |-> [id |-> Top(row, Rows \ {row})[i], new |-> FALSE]]]
  BY <1>2 DEF knn_graph_brute, Finished
<1>4. ASSUME NEW row \in Rows PROVE RankedList(row, g[row])
  <2>1. g[row] = [i \in 1 .. degree |-> [id |-> Top(row, Rows \ {row})[i], new |-> FALSE]]
    BY <1>3
  <2> QED   BY <1>1, <2>1, ExactRanked
<1>5. Rows' = Rows
  BY <1>1, KeepBuild
<1>6. \A row \in Rows : RankedList(row, g[row])'
  BY <1>1, <1>4, KeepRanked
<1>7. AllRanked'
  BY <1>2, <1>5, <1>6 DEF AllRanked
<1> QED   BY <1>1, <1>7 DEF NnInv

\* The device accepts the call or refuses it.
LEMMA PreflightStep ==
  ASSUME NnInv, Preflight
  PROVE  NnInv'
<1>1. phase = "preflight" /\ build \in Builds /\ iteration = 0
  BY DEF NnInv, Preflight
<1>2. /\ build' = build /\ iteration' = iteration
      /\ phase' \in {"draw", "refused"}
  BY DEF Preflight
<1> QED   BY <1>1, <1>2 DEF NnInv

\* What the device draws is ranked.
LEMMA DrawStep ==
  ASSUME NnInv, Draw
  PROVE  NnInv'
<1>1. phase = "draw" /\ build \in Builds /\ iteration = 0
  BY DEF NnInv, Draw
<1>2. /\ build' = build /\ iteration' = iteration /\ phase' = "age"
      /\ current_ids' = [row \in Rows |-> DrawnRow(row)]
  BY DEF Draw
<1>3. PICK g : g = current_ids'   OBVIOUS
<1>4. ASSUME NEW row \in Rows PROVE RankedList(row, g[row])
  <2>1. g[row] = DrawnRow(row)
    BY <1>2, <1>3
  <2> QED   BY <1>1, <2>1, DrawnRanked
<1>5. Rows' = Rows
  BY <1>2, KeepBuild
<1>6. \A row \in Rows : RankedList(row, g[row])'
  BY <1>2, <1>4, KeepRanked
<1>7. AllRanked'
  BY <1>3, <1>5, <1>6 DEF AllRanked
<1>8. iteration' \in 0 .. build'.iters - 1
  BY <1>1, <1>2, BuildFacts
<1>9. Turning'
  BY <1>1, <1>2, <1>7, <1>8 DEF Turning
<1> QED   BY <1>2, <1>9 DEF NnInv

\* A step of a turn that is not its last leaves the current graph.
LEMMA TurnStays ==
  ASSUME Turning, build' = build, current_ids' = current_ids, iteration' = iteration
  PROVE  Turning'
<1>1. Rows' = Rows
  BY KeepBuild
<1>2. \A row \in Rows : RankedList(row, current_ids[row])'
  <2>1. PICK g : g = current_ids   OBVIOUS
  <2>2. \A row \in Rows : RankedList(row, g[row])'
    BY <2>1, KeepRanked DEF Turning, AllRanked
  <2>3. g = current_ids'
    BY <2>1
  <2> QED   BY <2>2, <2>3
<1>3. AllRanked'
  BY <1>1, <1>2 DEF AllRanked
<1> QED   BY <1>3 DEF Turning

\* A merged next graph, in primed terms.
LEMMA KeepNext ==
  ASSUME build' = build, current_ids' = current_ids, NEW g, g = next_ids', DOMAIN g = Rows,
         NEW S, \A row \in Rows : S[row] \subseteq Rows \ {row} /\ MergedRow(row, g[row], S[row])
  PROVE  NextHolds(S)'
<1>1. Rows' = Rows
  BY KeepBuild
<1>2. \A row \in Rows : MergedRow(row, g[row], S[row])'
  BY KeepMerged
<1>3. \A row \in Rows : MergedRow(row, next_ids[row], S[row])'
  BY <1>2
<1> QED   BY <1>1, <1>3 DEF NextHolds

\* A turn begins with a copy of the graph and with empty lists.
LEMMA AgeStep ==
  ASSUME NnInv, Age
  PROVE  NnInv'
<1>1. phase = "age" /\ Turning
  BY DEF NnInv, Age
<1>2. /\ build' = build /\ current_ids' = current_ids /\ iteration' = iteration
      /\ phase' = "reverse_new" /\ row_at' = 0
      /\ next_ids' = [row \in Rows |-> Aged(current_ids[row])]
      /\ reverse_new' = [row \in Rows |-> <<>>] /\ reverse_old' = [row \in Rows |-> <<>>]
      /\ offered' = [row \in Rows |-> {}]
  BY DEF Age
<1>3. build \in Builds /\ \A row \in Rows : RankedList(row, current_ids[row])
  BY <1>1 DEF Turning, AllRanked
<1>4. Turning'
  BY <1>1, <1>2, TurnStays
<1>5. Rows' = Rows /\ 0 \in Rows
  BY <1>2, <1>3, KeepBuild, BuildFacts
<1>6. PICK none : none = [row \in Rows |-> {}]   OBVIOUS
<1>7. NextHolds(none)'
  <2>1. PICK g : g = next_ids'   OBVIOUS
  <2>2. ASSUME NEW row \in Rows
        PROVE  none[row] \subseteq Rows \ {row} /\ MergedRow(row, g[row], none[row])
    <3>1. g[row] = Aged(current_ids[row]) /\ none[row] = {}
      BY <1>2, <1>6, <2>1
    <3>2. MergedRow(row, Aged(current_ids[row]), {})
      BY <1>3, AgedRow
    <3> QED   BY <3>1, <3>2
  <2>3. DOMAIN g = Rows
    BY <1>2, <2>1
  <2> QED   BY <1>2, <2>1, <2>2, <2>3, KeepNext
<1>8. ASSUME NEW class \in {"new", "old"}, NEW lists, lists = [row \in Rows |-> <<>>]
      PROVE  Listed(lists, class, 0)'
  <2>1. ASSUME NEW row \in Rows
        PROVE  Firsts(lists[row], 0, Reaching(0 .. 0 - 1, row, class),
                      Prio(row, class), sample_count)
    <3>1. Reaching(0 .. 0 - 1, row, class) = {}
      BY DEF Reaching
    <3>2. lists[row] \in [1 .. 0 -> {}] /\ 0 \in 0 .. sample_count
      BY <1>3, <1>8, BuildFacts
    <3> QED   BY <3>1, <3>2 DEF Firsts
  <2>2. Listed(lists, class, 0)
    BY <2>1 DEF Listed
  <2> QED   BY <1>2, <2>2, KeepListed
<1>9. Listed(reverse_new, "new", row_at)' /\ Listed(reverse_old, "old", 0)'
  <2>1. PICK lists : lists = [row \in Rows |-> <<>>]   OBVIOUS
  <2>2. Listed(lists, "new", 0)' /\ Listed(lists, "old", 0)'
    BY <1>8, <2>1
  <2>3. reverse_new' = lists /\ reverse_old' = lists /\ row_at' = 0
    BY <1>2, <2>1
  <2> QED   BY <2>2, <2>3
<1>10. NextHolds([row \in Rows |-> {}])'
  BY <1>5, <1>6, <1>7
<1>11. \A row \in Rows' : offered'[row] = {}
  BY <1>2, <1>5
<1>12. Listing'
  BY <1>2, <1>5, <1>10, <1>11 DEF Listing
<1> QED   BY <1>2, <1>4, <1>9, <1>12 DEF NnInv

\* A chunk of sources is listed, for one class after the other.
LEMMA ListStep ==
  ASSUME NnInv, build_reverse
  PROVE  NnInv'
<1>1. /\ phase \in {"reverse_new", "reverse_old"} /\ Turning /\ row_at \in Rows
      /\ NextHolds([row \in Rows |-> {}]) /\ \A row \in Rows : offered[row] = {}
  BY DEF NnInv, build_reverse, Listing
<1>2. /\ build' = build /\ current_ids' = current_ids /\ iteration' = iteration /\ next_ids' = next_ids
      /\ offered' = offered
  BY DEF build_reverse
<1>3. build \in Builds /\ iteration \in 0 .. build.iters
  BY <1>1, BuildFacts DEF Turning
<1>4. Turning'
  BY <1>1, <1>2, TurnStays
<1>5. Rows' = Rows /\ n' = n /\ n \in Nat /\ n >= 1 /\ Rows = 0 .. n - 1
  BY <1>2, <1>3, KeepBuild, BuildFacts
<1>6. ReverseChunk \in Nat \ {0}
  BY NnAssumption
<1>7. PICK last : last = (row_at + ReverseChunk >= n)   OBVIOUS
<1>8. /\ row_at' = IF last THEN 0 ELSE row_at + ReverseChunk
      /\ phase' = IF ~last THEN phase
                  ELSE IF phase = "reverse_new" THEN "reverse_old" ELSE "join"
  BY <1>7 DEF build_reverse
<1>9. PICK upto : upto = IF row_at + ReverseChunk >= n THEN n ELSE row_at + ReverseChunk   OBVIOUS
<1>10. row_at' \in Rows
  <2>1. CASE last
    BY <1>5, <1>8, <2>1
  <2>2. CASE ~last
    <3>1. row_at' = row_at + ReverseChunk /\ ~(row_at + ReverseChunk >= n)
      BY <1>7, <1>8, <2>2
    <3> QED   BY <1>1, <1>5, <1>6, <3>1
  <2> QED   BY <2>1, <2>2
<1>11. PICK order \in Arrivals(Chunk(ReverseChunk)) :
         IF phase = "reverse_new"
         THEN /\ reverse_new' = [row \in Rows |-> reverse_list(reverse_new[row], row, "new", order)]
              /\ reverse_old' = reverse_old
         ELSE /\ reverse_old' = [row \in Rows |-> reverse_list(reverse_old[row], row, "old", order)]
              /\ reverse_new' = reverse_new
  BY ZenonT(30) DEF build_reverse
<1>12. \A row \in Rows' : offered'[row] = {}
  BY <1>1, <1>2, <1>5
<1>13. ASSUME NEW S, \A row \in Rows : S[row] = {} PROVE NextHolds(S)'
  <2>1. PICK g : g = next_ids   OBVIOUS
  <2>2. DOMAIN g = Rows /\ \A row \in Rows : MergedRow(row, g[row], {})
    BY <1>1, <2>1 DEF NextHolds
  <2>3. g = next_ids'
    BY <1>2, <2>1
  <2>4. \A row \in Rows : S[row] \subseteq Rows \ {row} /\ MergedRow(row, g[row], S[row])
    BY <1>13, <2>2
  <2> QED   BY <1>2, <2>2, <2>3, <2>4, KeepNext
<1>14. NextHolds([row \in Rows |-> {}])'
  <2>1. PICK none : none = [row \in Rows |-> {}]   OBVIOUS
  <2>2. \A row \in Rows : none[row] = {}
    BY <2>1
  <2>3. NextHolds(none)'
    BY <1>13, <2>2
  <2> QED   BY <1>5, <2>1, <2>3
<1>18. Listing'
  BY <1>10, <1>12, <1>14, <1>5 DEF Listing
<1>15. NextHolds(offered)'
  <2>1. PICK none : none = offered   OBVIOUS
  <2>2. NextHolds(none)'
    BY <1>1, <1>13, <2>1
  <2>3. none = offered'
    BY <1>2, <2>1
  <2> QED   BY <2>2, <2>3
<1>16. CASE phase = "reverse_new"
  <2>1. Listed(reverse_new, "new", row_at) /\ Listed(reverse_old, "old", 0)
    BY <1>16 DEF NnInv
  <2>2. PICK lists, others : lists = reverse_new /\ others = reverse_old   OBVIOUS
  <2>3. PICK L : L = [row \in Rows |-> reverse_list(lists[row], row, "new", order)]   OBVIOUS
  <2>4. Listed(lists, "new", row_at) /\ Listed(others, "old", 0)
    BY <2>1, <2>2
  <2>5. Listed([row \in Rows |-> reverse_list(lists[row], row, "new", order)], "new", upto)
    BY <1>1, <1>3, <1>9, <2>4, ReverseStep
  <2>6. Listed(L, "new", upto)' /\ Listed(others, "old", 0)'
    BY <1>2, <2>3, <2>4, <2>5, KeepListed
  <2>7. reverse_new' = L /\ reverse_old' = others
    BY <1>11, <1>16, <2>2, <2>3
  <2>8. Listed(reverse_new, "new", upto)' /\ Listed(reverse_old, "old", 0)'
    BY <2>6, <2>7
  <2>9. CASE last
    <3>1. phase' = "reverse_old" /\ upto = n' /\ row_at' = 0
      BY <1>5, <1>7, <1>8, <1>9, <1>16, <2>9
    <3>2. Listed(reverse_new, "new", n)' /\ Listed(reverse_old, "old", row_at)'
      BY <2>8, <3>1
    <3> QED   BY <1>4, <1>18, <3>1, <3>2 DEF NnInv
  <2>10. CASE ~last
    <3>1. phase' = "reverse_new" /\ row_at' = upto
      BY <1>7, <1>8, <1>9, <1>16, <2>10
    <3>2. Listed(reverse_new, "new", row_at)' /\ Listed(reverse_old, "old", 0)'
      BY <2>8, <3>1
    <3> QED   BY <1>4, <1>18, <3>1, <3>2 DEF NnInv
  <2> QED   BY <2>9, <2>10
<1>17. CASE phase = "reverse_old"
  <2>1. Listed(reverse_new, "new", n) /\ Listed(reverse_old, "old", row_at)
    BY <1>17 DEF NnInv
  <2>2. PICK lists, others : lists = reverse_old /\ others = reverse_new   OBVIOUS
  <2>3. PICK L : L = [row \in Rows |-> reverse_list(lists[row], row, "old", order)]   OBVIOUS
  <2>4. Listed(lists, "old", row_at) /\ Listed(others, "new", n)
    BY <2>1, <2>2
  <2>5. Listed([row \in Rows |-> reverse_list(lists[row], row, "old", order)], "old", upto)
    BY <1>1, <1>3, <1>9, <2>4, ReverseStep
  <2>12. PICK all : all = n   OBVIOUS
  <2>6. Listed(L, "old", upto)' /\ Listed(others, "new", all)'
    BY <1>2, <2>3, <2>4, <2>5, <2>12, KeepListed
  <2>7. reverse_old' = L /\ reverse_new' = others /\ all = n'
    BY <1>5, <1>11, <1>17, <2>2, <2>3, <2>12
  <2>8. Listed(reverse_old, "old", upto)' /\ Listed(reverse_new, "new", n)'
    BY <2>6, <2>7
  <2>9. CASE last
    <3>1. phase' = "join" /\ upto = n' /\ row_at' = 0
      BY <1>5, <1>7, <1>8, <1>9, <1>17, <2>9
    <3>2. AllListed'
      BY <2>8, <3>1 DEF AllListed
    <3> QED   BY <1>4, <1>15, <3>1, <3>2 DEF NnInv
  <2>10. CASE ~last
    <3>1. phase' = "reverse_old" /\ row_at' = upto
      BY <1>7, <1>8, <1>9, <1>17, <2>10
    <3>2. Listed(reverse_new, "new", n)' /\ Listed(reverse_old, "old", row_at)'
      BY <2>8, <3>1
    <3> QED   BY <1>4, <1>18, <3>1, <3>2 DEF NnInv
  <2> QED   BY <2>9, <2>10
<1> QED   BY <1>1, <1>16, <1>17

\* The pairs of a chunk are offered to their ends.
LEMMA JoinStep ==
  ASSUME NnInv, Propose
  PROVE  NnInv'
<1>1. phase = "join" /\ Turning /\ AllListed /\ row_at \in Nat /\ NextHolds(offered)
  BY DEF NnInv, Propose
<1>2. /\ build' = build /\ current_ids' = current_ids /\ iteration' = iteration /\ next_ids' = next_ids
      /\ reverse_new' = reverse_new /\ reverse_old' = reverse_old /\ row_at' = row_at
      /\ phase' = "merge"
  BY DEF Propose
<1>3. build \in Builds /\ \A row \in Rows : RankedList(row, current_ids[row])
  BY <1>1 DEF Turning, AllRanked
<1>4. Turning'
  BY <1>1, <1>2, TurnStays
<1>5. Rows' = Rows /\ n' = n /\ n \in Nat /\ Rows = 0 .. n - 1
  BY <1>2, <1>3, KeepBuild, BuildFacts
<1>6. PICK pairs : pairs = UNION {Pairs(vertex) : vertex \in Chunk(ProposalChunk)}   OBVIOUS
<1>7. PICK box, offer : box = inbox' /\ offer = offered'   OBVIOUS
<1>8. /\ box = [row \in Rows |-> {p[2] : p \in {q \in pairs : q[1] = row}}
                                   \cup {p[1] : p \in {q \in pairs : q[2] = row}}]
      /\ offer = [row \in Rows |-> offered[row] \cup box[row]]
  BY <1>6, <1>7 DEF Propose
<1>9. Chunk(ProposalChunk) \subseteq Rows
  <2>1. ProposalChunk \in Nat
    BY NnAssumption
  <2>2. Min({row_at + ProposalChunk, n})
          = IF row_at + ProposalChunk <= n THEN row_at + ProposalChunk ELSE n
    BY <1>1, <1>5, <2>1, MinOfTwo
  <2>3. PICK m : m = Min({row_at + ProposalChunk, n})   OBVIOUS
  <2>4. m \in Int /\ m <= n
    BY <1>1, <1>5, <2>1, <2>2, <2>3
  <2>5. Chunk(ProposalChunk) = row_at .. m - 1
    BY <2>3 DEF Chunk
  <2> QED   BY <1>1, <1>5, <2>4, <2>5
<1>10. \A p \in pairs : OtherPair(p)
  BY <1>1, <1>3, <1>6, <1>9, PairsOther DEF AllListed
<1>11. ASSUME NEW row \in Rows PROVE box[row] \subseteq Rows \ {row}
  BY <1>8, <1>10 DEF OtherPair
<1>12. ASSUME NEW row \in Rows PROVE MergedPart(row)'
  <2>1. offered[row] \subseteq Rows \ {row} /\ MergedRow(row, next_ids[row], offered[row])
    BY <1>1 DEF NextHolds
  <2>2. PICK list, S : list = next_ids[row] /\ S = offered[row]   OBVIOUS
  <2>3. MergedRow(row, list, S)'
    BY <1>2, <2>1, <2>2, KeepMerged
  <2>4. list = next_ids'[row]
    BY <1>2, <2>2
  <2>5. MergedRow(row, next_ids[row], S)'
    BY <2>3, <2>4
  <2>6. /\ offered'[row] = S \cup box[row] /\ inbox'[row] = box[row]
        /\ S \subseteq Rows \ {row} /\ box[row] \subseteq Rows \ {row}
    BY <1>7, <1>8, <1>11, <2>1, <2>2
  <2>7. /\ offered'[row] \subseteq Rows' \ {row} /\ inbox'[row] \subseteq offered'[row]
        /\ offered'[row] \ inbox'[row] \subseteq S /\ S \subseteq offered'[row]
    BY <1>5, <2>6
  <2> QED   BY <2>5, <2>7 DEF MergedPart
<1>13. Merging'
  <2>1. DOMAIN next_ids' = Rows' /\ DOMAIN inbox' = Rows'
    BY <1>1, <1>2, <1>5, <1>7, <1>8 DEF NextHolds
  <2> QED   BY <1>5, <1>12, <2>1 DEF Merging
<1>14. AllListed'
  <2>1. PICK a, b, all : a = reverse_new /\ b = reverse_old /\ all = n   OBVIOUS
  <2>2. Listed(a, "new", all) /\ Listed(b, "old", all)
    BY <1>1, <2>1 DEF AllListed
  <2>3. Listed(a, "new", all)' /\ Listed(b, "old", all)'
    BY <1>2, <2>2, KeepListed
  <2>4. a = reverse_new' /\ b = reverse_old' /\ all = n'
    BY <1>2, <1>5, <2>1
  <2> QED   BY <2>3, <2>4 DEF AllListed
<1>15. row_at' \in Nat
  BY <1>1, <1>2
<1> QED   BY <1>2, <1>4, <1>13, <1>14, <1>15 DEF NnInv

\* The lists of all sources stay for the rest of a turn.
LEMMA ListsStay ==
  ASSUME AllListed, build' = build, current_ids' = current_ids, iteration' = iteration,
         reverse_new' = reverse_new, reverse_old' = reverse_old
  PROVE  AllListed'
<1>1. PICK a, b, all : a = reverse_new /\ b = reverse_old /\ all = n   OBVIOUS
<1>2. Listed(a, "new", all) /\ Listed(b, "old", all)
  BY <1>1 DEF AllListed
<1>3. Listed(a, "new", all)' /\ Listed(b, "old", all)'
  BY <1>2, KeepListed
<1>4. a = reverse_new' /\ b = reverse_old' /\ all = n'
  BY <1>1, KeepBuild
<1> QED   BY <1>3, <1>4 DEF AllListed

\* A row merges one candidate.
LEMMA MergeStep ==
  ASSUME NnInv, MergeInbox
  PROVE  NnInv'
<1>1. phase = "merge" /\ Turning /\ AllListed /\ row_at \in Nat /\ Merging
  BY DEF NnInv, MergeInbox
<1>2. /\ build' = build /\ current_ids' = current_ids /\ iteration' = iteration /\ offered' = offered
      /\ reverse_new' = reverse_new /\ reverse_old' = reverse_old /\ row_at' = row_at
      /\ phase' = phase
  BY DEF MergeInbox
<1>3. build \in Builds /\ \A row \in Rows : RankedList(row, current_ids[row])
  BY <1>1 DEF Turning, AllRanked
<1>4. Turning' /\ AllListed'
  BY <1>1, <1>2, TurnStays, ListsStay
<1>5. Rows' = Rows
  BY <1>2, KeepBuild
<1>6. PICK at \in Rows :
        \E candidate \in inbox[at] :
          /\ next_ids' = [next_ids EXCEPT ![at] = Merged(at, next_ids[at], candidate)]
          /\ inbox' = [inbox EXCEPT ![at] = inbox[at] \ {candidate}]
  BY DEF MergeInbox
<1>7. PICK candidate \in inbox[at] :
          /\ next_ids' = [next_ids EXCEPT ![at] = Merged(at, next_ids[at], candidate)]
          /\ inbox' = [inbox EXCEPT ![at] = inbox[at] \ {candidate}]
  BY <1>6
<1>8. DOMAIN next_ids = Rows /\ DOMAIN inbox = Rows /\ \A row \in Rows : MergedPart(row)
  BY <1>1 DEF Merging
<1>9. ASSUME NEW row \in Rows PROVE MergedPart(row)'
  <2>1. PICK S : /\ offered[row] \ inbox[row] \subseteq S /\ S \subseteq offered[row]
                 /\ MergedRow(row, next_ids[row], S)
    BY <1>8 DEF MergedPart
  <2>2. offered[row] \subseteq Rows \ {row} /\ inbox[row] \subseteq offered[row]
    BY <1>8 DEF MergedPart
  <2>3. CASE row # at
    <3>1. next_ids'[row] = next_ids[row] /\ inbox'[row] = inbox[row]
      BY <1>7, <1>8, <2>3
    <3>2. PICK list : list = next_ids[row]   OBVIOUS
    <3>3. MergedRow(row, list, S)'
      BY <1>2, <2>1, <3>2, KeepMerged
    <3>4. list = next_ids'[row]
      BY <3>1, <3>2
    <3>5. MergedRow(row, next_ids[row], S)'
      BY <3>3, <3>4
    <3>6. /\ offered'[row] \subseteq Rows' \ {row} /\ inbox'[row] \subseteq offered'[row]
          /\ offered'[row] \ inbox'[row] \subseteq S /\ S \subseteq offered'[row]
      BY <1>2, <1>5, <2>1, <2>2, <3>1
    <3> QED   BY <3>5, <3>6 DEF MergedPart
  <2>4. CASE row = at
    <3>1. /\ next_ids'[row] = Merged(row, next_ids[row], candidate)
          /\ inbox'[row] = inbox[row] \ {candidate} /\ candidate \in inbox[row]
      BY <1>7, <1>8, <2>4
    <3>2. PICK list, T, new : /\ list = next_ids[row] /\ T = S \cup {candidate}
                              /\ new = Merged(row, list, candidate)   OBVIOUS
    <3>3. candidate \in Rows \ {row} /\ S \subseteq Rows \ {row} /\ MergedRow(row, list, S)
      BY <2>1, <2>2, <3>1, <3>2
    <3>4. MergedRow(row, Merged(row, list, candidate), S \cup {candidate})
      BY <1>3, <3>3, MergedStep
    <3>5. MergedRow(row, new, T)'
      BY <1>2, <3>2, <3>4, KeepMerged
    <3>6. new = next_ids'[row]
      BY <3>1, <3>2
    <3>7. MergedRow(row, next_ids[row], T)'
      BY <3>5, <3>6
    <3>8. /\ offered'[row] \subseteq Rows' \ {row} /\ inbox'[row] \subseteq offered'[row]
          /\ offered'[row] \ inbox'[row] \subseteq T /\ T \subseteq offered'[row]
      BY <1>2, <1>5, <2>1, <2>2, <3>1, <3>2
    <3> QED   BY <3>7, <3>8 DEF MergedPart
  <2> QED   BY <2>3, <2>4
<1>10. Merging'
  <2>1. DOMAIN next_ids' = Rows' /\ DOMAIN inbox' = Rows'
    BY <1>5, <1>7, <1>8
  <2> QED   BY <1>5, <1>9, <2>1 DEF Merging
<1>11. row_at' \in Nat /\ phase' = "merge"
  BY <1>1, <1>2
<1> QED   BY <1>4, <1>10, <1>11 DEF NnInv

\* All inboxes of a chunk are read.
LEMMA ChunkStep ==
  ASSUME NnInv, NextChunk
  PROVE  NnInv'
<1>1. /\ phase = "merge" /\ Turning /\ AllListed /\ row_at \in Nat /\ Merging
      /\ \A row \in Rows : inbox[row] = {}
  BY DEF NnInv, NextChunk
<1>2. /\ build' = build /\ current_ids' = current_ids /\ iteration' = iteration /\ offered' = offered
      /\ reverse_new' = reverse_new /\ reverse_old' = reverse_old /\ next_ids' = next_ids
  BY DEF NextChunk
<1>3. Turning' /\ AllListed'
  BY <1>1, <1>2, TurnStays, ListsStay
<1>4. ASSUME NEW row \in Rows
      PROVE  offered[row] \subseteq Rows \ {row} /\ MergedRow(row, next_ids[row], offered[row])
  <2>1. MergedPart(row) /\ inbox[row] = {}
    BY <1>1 DEF Merging
  <2>2. PICK S : /\ offered[row] \ inbox[row] \subseteq S /\ S \subseteq offered[row]
                 /\ MergedRow(row, next_ids[row], S)
    BY <2>1 DEF MergedPart
  <2>3. S = offered[row]
    BY <2>1, <2>2
  <2> QED   BY <2>1, <2>2, <2>3 DEF MergedPart
<1>5. NextHolds(offered)'
  <2>1. PICK g, S : g = next_ids /\ S = offered   OBVIOUS
  <2>2. \A row \in Rows : S[row] \subseteq Rows \ {row} /\ MergedRow(row, g[row], S[row])
    BY <1>4, <2>1
  <2>3. DOMAIN g = Rows /\ g = next_ids'
    BY <1>1, <1>2, <2>1 DEF Merging
  <2>4. NextHolds(S)'
    BY <1>2, <2>2, <2>3, KeepNext
  <2>5. S = offered'
    BY <1>2, <2>1
  <2> QED   BY <2>4, <2>5
<1>6. phase' \in {"join", "measure"} /\ row_at' \in Nat
  <2>1. ProposalChunk \in Nat
    BY NnAssumption
  <2> QED   BY <1>1, <2>1 DEF NextChunk
<1> QED   BY <1>3, <1>5, <1>6 DEF NnInv

\* The graphs change places at the end of a turn.
LEMMA MeasureStep ==
  ASSUME NnInv, Measure
  PROVE  NnInv'
<1>1. phase = "measure" /\ Turning /\ NextHolds(offered)
  BY DEF NnInv, Measure
<1>2. /\ build' = build /\ current_ids' = next_ids /\ iteration' = iteration + 1
      /\ phase' = IF converged' \/ iteration + 1 = build.iters THEN "returned" ELSE "age"
  BY DEF Measure
<1>3. build \in Builds /\ \A row \in Rows : RankedList(row, current_ids[row])
  BY <1>1 DEF Turning, AllRanked
<1>4. Rows' = Rows
  BY <1>2, KeepBuild
<1>5. PICK g : g = next_ids   OBVIOUS
<1>6. ASSUME NEW row \in Rows PROVE RankedList(row, g[row])
  BY <1>1, <1>3, <1>5, MergedIsTop DEF NextHolds
<1>7. \A row \in Rows : RankedList(row, g[row])'
  BY <1>2, <1>6, KeepRanked
<1>8. g = current_ids'
  BY <1>2, <1>5
<1>9. AllRanked'
  BY <1>4, <1>7, <1>8 DEF AllRanked
<1>10. CASE phase' = "returned"
  BY <1>2, <1>3, <1>9, <1>10 DEF NnInv
<1>11. CASE phase' # "returned"
  <2>1. phase' = "age" /\ iteration + 1 # build.iters
    BY <1>2, <1>11
  <2>2. build.iters \in Nat /\ iteration \in 0 .. build.iters - 1
    BY <1>1, <1>3, BuildFacts DEF Turning
  <2>3. iteration' \in 0 .. build'.iters - 1
    BY <1>2, <2>1, <2>2
  <2>4. Turning'
    BY <1>2, <1>3, <1>9, <2>3 DEF Turning
  <2> QED   BY <2>1, <2>4 DEF NnInv
<1> QED   BY <1>10, <1>11

\* The host draws the rows it starts with.
LEMMA HostDrawStep ==
  ASSUME NnInv, HostDraw
  PROVE  NnInv'
<1>1. phase = "host_draw" /\ build \in Builds /\ iteration = 0
  BY DEF NnInv, HostDraw
<1>2. /\ build' = build /\ iteration' = iteration /\ phase' = "sweep" /\ row_at' = 0
  BY DEF HostDraw
<1>3. PICK drawn \in [Rows -> {f \in [1 .. degree -> 1 .. n - 1] : IsInjective(f)}] :
        current_ids' = [row \in Rows |->
                      [i \in 1 .. degree |-> [id |-> (row + drawn[row][i]) % n, new |-> FALSE]]]
  BY DEF HostDraw
<1>4. PICK g : g = current_ids'   OBVIOUS
<1>5. ASSUME NEW row \in Rows PROVE DrawnList(row, g[row])
  <2>1. PICK f : f = drawn[row]   OBVIOUS
  <2>2. drawn[row] \in {h \in [1 .. degree -> 1 .. n - 1] : IsInjective(h)}   OBVIOUS
  <2>3. f \in [1 .. degree -> 1 .. n - 1] /\ IsInjective(f)
    BY <2>1, <2>2
  <2>4. g[row] = [i \in 1 .. degree |-> [id |-> (row + f[i]) % n, new |-> FALSE]]
    BY <1>3, <1>4, <2>1
  <2> QED   BY <1>1, <2>3, <2>4, HostDrawn
<1>6. /\ Rows' = Rows /\ 0 \in Rows /\ Rows = 0 .. n - 1 /\ n \in Nat
      /\ build.iters \in Nat
  BY <1>1, <1>2, KeepBuild, BuildFacts
<1>7. \A row \in Rows : DrawnList(row, g[row])'
  BY <1>2, <1>5, KeepRanked
<1>8. \A row \in Rows' : DrawnList(row, current_ids[row])'
  BY <1>4, <1>6, <1>7
<1>9. \A row \in Rows' : ~(row < row_at' \/ iteration' >= 1)
  BY <1>1, <1>2, <1>6
<1>10. DOMAIN current_ids' = Rows'
  BY <1>3, <1>6
<1>11. row_at' \in Rows' /\ iteration' \in 0 .. build'.iters /\ build' \in Builds
  BY <1>1, <1>2, <1>6
<1>12. Sweeping'
  BY <1>8, <1>9, <1>10, <1>11 DEF Sweeping
<1> QED   BY <1>2, <1>12 DEF NnInv

\* A sweep ranks one row in place.
LEMMA SweepStep ==
  ASSUME NnInv, HostSweep
  PROVE  NnInv'
<1>1. phase = "sweep" /\ Sweeping /\ iteration < build.iters
  BY DEF NnInv, HostSweep
<1>2. /\ build' = build /\ phase' = phase
      /\ row_at' = (row_at + 1) % n
      /\ iteration' = IF row_at + 1 = n THEN iteration + 1 ELSE iteration
      /\ current_ids' = [current_ids EXCEPT ![row_at] = HostList(row_at)]
  BY DEF HostSweep, HostList
<1>3. /\ build \in Builds /\ row_at \in Rows /\ iteration \in 0 .. build.iters
      /\ DOMAIN current_ids = Rows
      /\ \A row \in Rows : /\ DrawnList(row, current_ids[row])
                           /\ row < row_at \/ iteration >= 1 => RankedList(row, current_ids[row])
  BY <1>1 DEF Sweeping
<1>4. /\ n \in Nat /\ n >= 2 /\ Rows = 0 .. n - 1 /\ build.iters \in Nat /\ Rows' = Rows
  BY <1>2, <1>3, KeepBuild, BuildFacts
<1>5. PICK g : g = current_ids'   OBVIOUS
<1>6. RankedList(row_at, g[row_at])
  <2>1. RankedList(row_at, HostList(row_at))
    BY <1>3, HostRanked
  <2> QED   BY <1>2, <1>3, <1>5, <2>1
<1>7. \A row \in Rows : row # row_at => g[row] = current_ids[row]
  BY <1>2, <1>3, <1>5
<1>8. ASSUME NEW row \in Rows PROVE DrawnList(row, g[row])
  <2>1. CASE row = row_at
    BY <1>3, <1>6, <2>1, RankedIsDrawn
  <2>2. CASE row # row_at
    BY <1>3, <1>7, <2>2
  <2> QED   BY <2>1, <2>2
<1>9. /\ row_at' = IF row_at + 1 = n THEN 0 ELSE row_at + 1
      /\ row_at' \in Rows /\ iteration' \in 0 .. build.iters
  <2>1. row_at \in 0 .. n - 1 /\ n \in Nat \ {0} /\ 1 \in 1 .. n - 1
    BY <1>3, <1>4
  <2>2. (row_at + 1) % n = IF row_at + 1 < n THEN row_at + 1 ELSE row_at + 1 - n
    BY <2>1, Turned
  <2>3. row_at' = IF row_at + 1 = n THEN 0 ELSE row_at + 1
    BY <1>2, <2>1, <2>2
  <2> QED   BY <1>1, <1>2, <1>3, <1>4, <2>1, <2>3
<1>10. ASSUME NEW row \in Rows, row < row_at' \/ iteration' >= 1
       PROVE  RankedList(row, g[row])
  <2>1. CASE row = row_at
    BY <1>6, <2>1
  <2>2. CASE row # row_at
    <3>1. row < row_at \/ iteration >= 1
      BY <1>2, <1>3, <1>4, <1>9, <1>10, <2>2
    <3> QED   BY <1>3, <1>7, <2>2, <3>1
  <2> QED   BY <2>1, <2>2
<1>11. ASSUME NEW row \in Rows
       PROVE  /\ DrawnList(row, current_ids[row])'
              /\ (row < row_at \/ iteration >= 1 => RankedList(row, current_ids[row]))'
  <2>1. DrawnList(row, g[row])'
    BY <1>2, <1>8, KeepRanked
  <2>2. row < row_at' \/ iteration' >= 1 => RankedList(row, g[row])'
    BY <1>2, <1>10, KeepRanked
  <2> QED   BY <1>5, <2>1, <2>2
<1>12. DOMAIN current_ids' = Rows'
  BY <1>2, <1>3, <1>4
<1>13. Sweeping'
  BY <1>2, <1>3, <1>4, <1>9, <1>11, <1>12 DEF Sweeping
<1>14. phase' = "sweep"
  BY <1>1, <1>2
<1> QED   BY <1>13, <1>14 DEF NnInv

\* The sweeps end.
LEMMA DoneStep ==
  ASSUME NnInv, HostDone
  PROVE  NnInv'
<1>1. phase = "sweep" /\ Sweeping /\ iteration = build.iters
  BY DEF NnInv, HostDone
<1>2. build' = build /\ current_ids' = current_ids /\ phase' = "returned"
  BY DEF HostDone
<1>3. build \in Builds /\ iteration >= 1
  BY <1>1, BuildFacts DEF Sweeping
<1>4. \A row \in Rows : RankedList(row, current_ids[row])
  BY <1>1, <1>3 DEF Sweeping
<1>5. PICK g : g = current_ids   OBVIOUS
<1>6. \A row \in Rows : RankedList(row, g[row])'
  BY <1>2, <1>4, <1>5, KeepRanked
<1>7. Rows' = Rows /\ g = current_ids'
  BY <1>2, <1>5, KeepBuild
<1>8. AllRanked'
  BY <1>6, <1>7 DEF AllRanked
<1> QED   BY <1>2, <1>3, <1>8 DEF NnInv

\* A stutter changes nothing.
LEMMA IdleStep ==
  ASSUME NnInv, UNCHANGED nnVars
  PROVE  NnInv'
<1>1. /\ build' = build /\ phase' = phase /\ current_ids' = current_ids /\ next_ids' = next_ids
      /\ reverse_new' = reverse_new /\ reverse_old' = reverse_old /\ row_at' = row_at
      /\ inbox' = inbox /\ offered' = offered /\ iteration' = iteration
  BY DEF nnVars
<1>2. n' = n /\ Rows' = Rows
  BY <1>1, KeepBuild
<1>3. \A row, list : /\ RankedList(row, list)' <=> RankedList(row, list)
                    /\ DrawnList(row, list)' <=> DrawnList(row, list)
  BY <1>1, KeepRanked
<1>4. \A row, list, S : MergedRow(row, list, S)' <=> MergedRow(row, list, S)
  BY <1>1, KeepMerged
<1>5. \A lists, class, upto : Listed(lists, class, upto)' <=> Listed(lists, class, upto)
  BY <1>1, KeepListed
<1>6. AllRanked => AllRanked'
  <2>1. PICK g : g = current_ids   OBVIOUS
  <2>2. ASSUME AllRanked PROVE \A row \in Rows : RankedList(row, g[row])'
    <3>1. \A row \in Rows : RankedList(row, g[row])
      BY <2>1, <2>2 DEF AllRanked
    <3> QED   BY <1>1, <3>1, KeepRanked
  <2>3. g = current_ids'
    BY <1>1, <2>1
  <2> QED   BY <1>2, <2>2, <2>3 DEF AllRanked
<1>7. Turning => Turning'
  BY <1>1, TurnStays
<1>8. PICK a, b, at, all : a = reverse_new /\ b = reverse_old /\ at = row_at /\ all = n   OBVIOUS
<1>9. a = reverse_new' /\ b = reverse_old' /\ at = row_at' /\ all = n'
  BY <1>1, <1>2, <1>8
<1>10. /\ Listed(reverse_new, "new", row_at) => Listed(reverse_new, "new", row_at)'
       /\ Listed(reverse_new, "new", n) => Listed(reverse_new, "new", n)'
       /\ Listed(reverse_old, "old", row_at) => Listed(reverse_old, "old", row_at)'
       /\ Listed(reverse_old, "old", n) => Listed(reverse_old, "old", n)'
       /\ Listed(reverse_old, "old", 0) => Listed(reverse_old, "old", 0)'
  BY <1>5, <1>8, <1>9
<1>11. AllListed => AllListed'
  BY <1>1, ListsStay
<1>12. ASSUME NEW S, NextHolds(S) PROVE NextHolds(S)'
  <2>1. PICK g : g = next_ids   OBVIOUS
  <2>2. DOMAIN g = Rows /\ g = next_ids'
    BY <1>1, <1>12, <2>1 DEF NextHolds
  <2>3. \A row \in Rows : S[row] \subseteq Rows \ {row} /\ MergedRow(row, g[row], S[row])
    BY <1>12, <2>1 DEF NextHolds
  <2> QED   BY <1>1, <2>2, <2>3, KeepNext
<1>13. NextHolds(offered) => NextHolds(offered)'
  <2>1. PICK S : S = offered   OBVIOUS
  <2>2. S = offered'
    BY <1>1, <2>1
  <2> QED   BY <1>12, <2>1, <2>2
<1>14. Listing => Listing'
  <2>1. SUFFICES ASSUME Listing PROVE Listing'   OBVIOUS
  <2>2. PICK S : S = [row \in Rows |-> {}]   OBVIOUS
  <2>3. NextHolds(S)'
    BY <1>12, <2>1, <2>2 DEF Listing
  <2>4. S = [row \in Rows |-> {}]'
    BY <1>2, <2>2
  <2>5. NextHolds([row \in Rows |-> {}])'
    BY <2>3, <2>4
  <2>6. row_at' \in Rows' /\ \A row \in Rows' : offered'[row] = {}
    BY <1>1, <1>2, <2>1 DEF Listing
  <2> QED   BY <2>5, <2>6 DEF Listing
<1>15. Merging => Merging'
  <2>1. SUFFICES ASSUME Merging PROVE Merging'   OBVIOUS
  <2>2. ASSUME NEW row \in Rows PROVE MergedPart(row)'
    <3>1. PICK S : /\ offered[row] \ inbox[row] \subseteq S /\ S \subseteq offered[row]
                   /\ MergedRow(row, next_ids[row], S)
      BY <2>1 DEF Merging, MergedPart
    <3>2. offered[row] \subseteq Rows \ {row} /\ inbox[row] \subseteq offered[row]
      BY <2>1 DEF Merging, MergedPart
    <3>3. PICK list : list = next_ids[row]   OBVIOUS
    <3>4. MergedRow(row, list, S)'
      BY <1>4, <3>1, <3>3
    <3>5. list = next_ids'[row]
      BY <1>1, <3>3
    <3>6. MergedRow(row, next_ids[row], S)'
      BY <3>4, <3>5
    <3>7. /\ offered'[row] \subseteq Rows' \ {row} /\ inbox'[row] \subseteq offered'[row]
          /\ offered'[row] \ inbox'[row] \subseteq S /\ S \subseteq offered'[row]
      BY <1>1, <1>2, <3>1, <3>2
    <3> QED   BY <3>6, <3>7 DEF MergedPart
  <2> QED   BY <1>1, <1>2, <2>1, <2>2 DEF Merging
<1>16. Sweeping => Sweeping'
  <2>1. SUFFICES ASSUME Sweeping PROVE Sweeping'   OBVIOUS
  <2>2. PICK g : g = current_ids   OBVIOUS
  <2>3. g = current_ids'
    BY <1>1, <2>2
  <2>4. \A row \in Rows : /\ DrawnList(row, g[row])'
                          /\ row < row_at \/ iteration >= 1 => RankedList(row, g[row])'
    BY <1>3, <2>1, <2>2 DEF Sweeping
  <2> QED   BY <1>1, <1>2, <2>1, <2>3, <2>4 DEF Sweeping
<1> QED   BY <1>1, <1>6, <1>7, <1>10, <1>11, <1>13, <1>14, <1>15, <1>16 DEF NnInv

\* No call has begun.
LEMMA NnInvInit == NnInit => NnInv
BY DEF NnInit, NnInv

\* Every step keeps the invariant.
LEMMA NnInvStep ==
  ASSUME NnInv, [NnNext]_nnVars
  PROVE  NnInv'
<1>1. \/ nndescent_build \/ knn_graph_brute \/ Preflight \/ Draw \/ Age \/ build_reverse
      \/ Propose \/ MergeInbox \/ NextChunk \/ Measure \/ HostDraw \/ HostSweep \/ HostDone
      \/ UNCHANGED nnVars
  BY DEF NnNext
<1> QED
  BY <1>1, BuildStep, ExactStep, PreflightStep, DrawStep, AgeStep, ListStep, JoinStep, MergeStep,
     ChunkStep, MeasureStep, HostDrawStep, SweepStep, DoneStep, IdleStep

\* What a phase may count on holds in every reachable state.
THEOREM NnPhases == NnSpec => []NnInv
<1>1. NnInit => NnInv
  BY NnInvInit
<1>2. NnInv /\ [NnNext]_nnVars => NnInv'
  BY NnInvStep
<1> QED   BY <1>1, <1>2, PTL DEF NnSpec

\* Whatever route a call takes, however the inboxes were ordered and wherever
\* the loop stopped, each row of the graph it returns has degree different other
\* rows, nearest first (graphs.cpp 930-950 refuses any other graph).
THEOREM AlwaysBuildsRankOtherRows == NnSpec => []BuildsRankOtherRows
<1>1. NnInv => BuildsRankOtherRows
  <2>1. SUFFICES ASSUME NnInv, phase = "returned" PROVE BuildsRankOtherRows
    BY DEF BuildsRankOtherRows
  <2>2. build \in Builds /\ \A row \in Rows : RankedList(row, current_ids[row])
    BY <2>1 DEF NnInv, AllRanked
  <2>3. ASSUME NEW row \in Rows
        PROVE  /\ Len(current_ids[row]) = degree /\ Cardinality(Ids(current_ids[row])) = degree
               /\ Ids(current_ids[row]) \subseteq Rows \ {row}
               /\ \A i \in 1 .. degree - 1 :
                    nearer(row, current_ids[row][i].id, current_ids[row][i + 1].id)
    <3>1. PICK list : list = current_ids[row]   OBVIOUS
    <3>2. RankedList(row, list) /\ DrawnList(row, list)
      BY <2>2, <3>1, RankedIsDrawn
    <3>3. ASSUME NEW i \in 1 .. degree - 1 PROVE nearer(row, list[i].id, list[i + 1].id)
      <4>1. i \in 1 .. degree /\ i + 1 \in 1 .. degree /\ i < i + 1
        BY <2>2, BuildFacts
      <4>2. <<list[i].id, list[i + 1].id>> \in Near(row)
        BY <3>2, <4>1 DEF RankedList
      <4>3. list \in [1 .. degree -> Edges(row)]
        BY <3>2 DEF RankedList
      <4>4. list[i].id \in Rows /\ list[i + 1].id \in Rows
        BY <4>1, <4>3, EdgeFields
      <4> QED   BY <4>2, <4>4, NearIs
    <3> QED   BY <2>2, <3>1, <3>2, <3>3, DrawnIds
  <2> QED   BY <2>3 DEF BuildsRankOtherRows
<1> QED   BY <1>1, NnPhases, PTL

\* Whatever order the exchanges leave the inboxes in, the targets sample the
\* sources of the best priority, and a row ends a turn with the nearest of what
\* it held and was offered (backend_gpu.cpp 1610-1710, 1995-2060).
THEOREM AlwaysInboxOrderNeverMatters == NnSpec => []InboxOrderNeverMatters
<1>1. NnInv => InboxOrderNeverMatters
  <2>1. SUFFICES ASSUME NnInv PROVE InboxOrderNeverMatters   OBVIOUS
  <2>2. ASSUME phase \in {"join", "merge", "measure"}, NEW row \in Rows
        PROVE  reverse_new[row] = SampleOf(row, "new") /\ reverse_old[row] = SampleOf(row, "old")
    <3>1. Turning /\ AllListed
      BY <2>1, <2>2 DEF NnInv
    <3>2. build \in Builds /\ iteration \in 0 .. build.iters
      BY <3>1, BuildFacts DEF Turning
    <3>3. Listed(reverse_new, "new", n) /\ Listed(reverse_old, "old", n)
      BY <3>1 DEF AllListed
    <3>4. reverse_new[row] = SampleOf(row, "new")
      BY <3>2, <3>3, ListedSample
    <3>5. reverse_old[row] = SampleOf(row, "old")
      BY <3>2, <3>3, ListedSample
    <3> QED   BY <3>4, <3>5
  <2>3. ASSUME phase = "measure", NEW row \in Rows
        PROVE  next_ids[row] = LET closest == Top(row, Ids(current_ids[row]) \cup offered[row])
                           IN [i \in 1 .. degree |->
                                 [id |-> closest[i], new |-> tagged_new(row, closest[i])]]
    <3>1. Turning /\ NextHolds(offered)
      BY <2>1, <2>3 DEF NnInv
    <3>2. build \in Builds /\ RankedList(row, current_ids[row])
      BY <3>1 DEF Turning, AllRanked
    <3>3. offered[row] \subseteq Rows \ {row} /\ MergedRow(row, next_ids[row], offered[row])
      BY <3>1 DEF NextHolds
    <3> QED   BY <3>2, <3>3, MergedIsTop
  <2> QED   BY <2>2, <2>3 DEF InboxOrderNeverMatters
<1> QED   BY <1>1, NnPhases, PTL

-----------------------------------------------------------------------------
(* Widths, strides and blocks. *)

LEMMA PowerFacts ==
  ASSUME NEW e \in 0 .. 8
  PROVE  /\ Power(e) \in Powers /\ Power(e) \in Nat /\ Power(0) = 1
         /\ e > 0 => Power(e - 1) \in Strides /\ Power(e) = 2 * Power(e - 1)
<1>1. /\ Power(0) = 1 /\ Power(1) = 2 /\ Power(2) = 4 /\ Power(3) = 8 /\ Power(4) = 16
      /\ Power(5) = 32 /\ Power(6) = 64 /\ Power(7) = 128 /\ Power(8) = 256
  BY DEF Power
<1>2. e \in {0, 1, 2, 3, 4, 5, 6, 7, 8}   OBVIOUS
<1> QED   BY <1>1, <1>2 DEF Powers, Strides

\* The lanes of a block of two strides.
LEMMA PairFacts ==
  ASSUME NEW s \in Strides, NEW m, m = 2 * s, NEW b \in Nat, Starts(b, m), NEW i \in 0 .. s - 1
  PROVE  LeftOf(b + i, s) = b + i /\ LeftOf(b + s + i, s) = b + i
<1>1. CASE s = 1   BY <1>1 DEF LeftOf, Starts, Block, Up
<1>2. CASE s = 2   BY <1>2 DEF LeftOf, Starts, Block, Up
<1>3. CASE s = 4   BY <1>3 DEF LeftOf, Starts, Block, Up
<1>4. CASE s = 8   BY <1>4 DEF LeftOf, Starts, Block, Up
<1>5. CASE s = 16   BY <1>5 DEF LeftOf, Starts, Block, Up
<1>6. CASE s = 32   BY <1>6 DEF LeftOf, Starts, Block, Up
<1>7. CASE s = 64   BY <1>7 DEF LeftOf, Starts, Block, Up
<1>8. CASE s = 128   BY <1>8 DEF LeftOf, Starts, Block, Up
<1> QED   BY <1>1, <1>2, <1>3, <1>4, <1>5, <1>6, <1>7, <1>8 DEF Strides

\* A block of s slots is the first or the second half of one of 2 * s.
LEMMA HalfFacts ==
  ASSUME NEW s \in Strides, NEW m, m = 2 * s, NEW b \in Nat, Starts(b, s)
  PROVE  \/ Starts(b, m)
         \/ b - s \in Nat /\ Starts(b - s, m)
<1>1. CASE s = 1   BY SMTT(30), <1>1 DEF Starts, Block, Up
<1>2. CASE s = 2   BY SMTT(30), <1>2 DEF Starts, Block, Up
<1>3. CASE s = 4   BY SMTT(30), <1>3 DEF Starts, Block, Up
<1>4. CASE s = 8   BY SMTT(30), <1>4 DEF Starts, Block, Up
<1>5. CASE s = 16   BY SMTT(30), <1>5 DEF Starts, Block, Up
<1>6. CASE s = 32   BY SMTT(30), <1>6 DEF Starts, Block, Up
<1>7. CASE s = 64   BY SMTT(30), <1>7 DEF Starts, Block, Up
<1>8. CASE s = 128   BY SMTT(30), <1>8 DEF Starts, Block, Up
<1> QED   BY <1>1, <1>2, <1>3, <1>4, <1>5, <1>6, <1>7, <1>8 DEF Strides

\* A block of 2 * s slots has two halves, and they are blocks.
LEMMA WholeFacts ==
  ASSUME NEW s \in Strides, NEW m, m = 2 * s, NEW b \in Nat, Starts(b, m)
  PROVE  /\ Starts(b, s) /\ Starts(b + s, s)
         /\ Up(b, s) /\ ~Up(b + s, s)
<1>1. CASE s = 1   BY <1>1 DEF Starts, Block, Up
<1>2. CASE s = 2   BY <1>2 DEF Starts, Block, Up
<1>3. CASE s = 4   BY <1>3 DEF Starts, Block, Up
<1>4. CASE s = 8   BY <1>4 DEF Starts, Block, Up
<1>5. CASE s = 16   BY <1>5 DEF Starts, Block, Up
<1>6. CASE s = 32   BY <1>6 DEF Starts, Block, Up
<1>7. CASE s = 64   BY <1>7 DEF Starts, Block, Up
<1>8. CASE s = 128   BY <1>8 DEF Starts, Block, Up
<1> QED   BY <1>1, <1>2, <1>3, <1>4, <1>5, <1>6, <1>7, <1>8 DEF Strides

\* A slot lies in the block of m slots that begins at the last multiple of m.
LEMMA BlockOf ==
  ASSUME NEW m \in Powers, NEW i \in Nat
  PROVE  \E b \in Nat : Starts(b, m) /\ b <= i /\ i < b + m
<1>1. i - (i % m) \in Nat /\ Starts(i - (i % m), m) /\ i - (i % m) <= i /\ i < i - (i % m) + m
  <2>1. CASE m = 1   BY <2>1 DEF Starts, Block, Up
  <2>2. CASE m = 2   BY <2>2 DEF Starts, Block, Up
  <2>3. CASE m = 4   BY <2>3 DEF Starts, Block, Up
  <2>4. CASE m = 8   BY <2>4 DEF Starts, Block, Up
  <2>5. CASE m = 16   BY <2>5 DEF Starts, Block, Up
  <2>6. CASE m = 32   BY <2>6 DEF Starts, Block, Up
  <2>7. CASE m = 64   BY <2>7 DEF Starts, Block, Up
  <2>8. CASE m = 128   BY <2>8 DEF Starts, Block, Up
  <2>9. CASE m = 256   BY <2>9 DEF Starts, Block, Up
  <2> QED   BY <2>1, <2>2, <2>3, <2>4, <2>5, <2>6, <2>7, <2>8, <2>9 DEF Powers
<1> QED   BY <1>1

\* Smaller blocks lie in larger ones.
LEMMA Nested ==
  ASSUME NEW w \in Powers, NEW m \in Powers, m <= w, NEW b \in Nat, Starts(b, m),
         NEW i \in 0 .. m - 1
  PROVE  Block(b + i, w) = Block(b, w)
<1>1. CASE w = 1   BY <1>1 DEF Powers, Starts, Block, Up
<1>2. CASE w = 2   BY <1>2 DEF Powers, Starts, Block, Up
<1>3. CASE w = 4   BY <1>3 DEF Powers, Starts, Block, Up
<1>4. CASE w = 8   BY <1>4 DEF Powers, Starts, Block, Up
<1>5. CASE w = 16   BY <1>5 DEF Powers, Starts, Block, Up
<1>6. CASE w = 32   BY <1>6 DEF Powers, Starts, Block, Up
<1>7. CASE w = 64   BY <1>7 DEF Powers, Starts, Block, Up
<1>8. CASE w = 128   BY <1>8 DEF Powers, Starts, Block, Up
<1>9. CASE w = 256   BY <1>9 DEF Powers, Starts, Block, Up
<1> QED   BY <1>1, <1>2, <1>3, <1>4, <1>5, <1>6, <1>7, <1>8, <1>9 DEF Powers

\* A block that begins below the capacity ends there.
LEMMA Fits ==
  ASSUME NEW w \in Powers, NEW m \in Powers, m <= w, NEW b \in Nat, Starts(b, m), b < w
  PROVE  b + m <= w /\ Block(b, w) = 0
<1>1. CASE w = 1   BY <1>1 DEF Powers, Starts, Block, Up
<1>2. CASE w = 2   BY <1>2 DEF Powers, Starts, Block, Up
<1>3. CASE w = 4   BY <1>3 DEF Powers, Starts, Block, Up
<1>4. CASE w = 8   BY <1>4 DEF Powers, Starts, Block, Up
<1>5. CASE w = 16   BY <1>5 DEF Powers, Starts, Block, Up
<1>6. CASE w = 32   BY <1>6 DEF Powers, Starts, Block, Up
<1>7. CASE w = 64   BY <1>7 DEF Powers, Starts, Block, Up
<1>8. CASE w = 128   BY <1>8 DEF Powers, Starts, Block, Up
<1>9. CASE w = 256   BY <1>9 DEF Powers, Starts, Block, Up
<1> QED   BY <1>1, <1>2, <1>3, <1>4, <1>5, <1>6, <1>7, <1>8, <1>9 DEF Powers

\* Powers of two are ordered as they are numbered.
LEMMA PowerOrder ==
  ASSUME NEW e \in 0 .. 8, NEW d \in 0 .. e
  PROVE  Power(d) <= Power(e)
<1>1. /\ Power(0) = 1 /\ Power(1) = 2 /\ Power(2) = 4 /\ Power(3) = 8 /\ Power(4) = 16
      /\ Power(5) = 32 /\ Power(6) = 64 /\ Power(7) = 128 /\ Power(8) = 256
  BY DEF Power
<1>2. e \in {0, 1, 2, 3, 4, 5, 6, 7, 8} /\ d \in {0, 1, 2, 3, 4, 5, 6, 7, 8} /\ d <= e   OBVIOUS
<1> QED   BY <1>1, <1>2

-----------------------------------------------------------------------------
(* What a stage does to a block. *)

LEMMA FlatWaves ==
  ASSUME NEW m \in Nat, NEW S, S \cap 0 .. m - 1 = {} \/ 0 .. m - 1 \subseteq S
  PROVE  Wave(S, m)
<1>1. 0 \in 0 .. m /\ 0 <= 0   OBVIOUS
<1>2. \/ \A i \in 0 .. m - 1 : i \in S <=> (0 <= i /\ i < 0)
      \/ \A i \in 0 .. m - 1 : i \in S <=> ~(0 <= i /\ i < 0)   OBVIOUS
<1> QED   BY <1>1, <1>2 DEF Wave

LEMMA WaveIs ==
  ASSUME NEW m \in Nat, NEW S, NEW p \in 0 .. m, NEW q \in 0 .. m, p <= q,
         \/ \A i \in 0 .. m - 1 : i \in S <=> (p <= i /\ i < q)
         \/ \A i \in 0 .. m - 1 : i \in S <=> ~(p <= i /\ i < q)
  PROVE  Wave(S, m)
BY DEF Wave

LEMMA Halver ==
  ASSUME NEW s \in Nat \ {0}, NEW m, m = 2 * s, NEW S, Wave(S, m), NEW L, NEW U,
         Halves(S, s, L, U)
  PROVE  /\ Wave(L, s) /\ Wave(U, s)
         /\ L \cap 0 .. s - 1 = {} \/ 0 .. s - 1 \subseteq U
<1>1. PICK p \in 0 .. 2 * s, q \in 0 .. 2 * s :
        /\ p <= q
        /\ \/ \A i \in 0 .. 2 * s - 1 : i \in S <=> (p <= i /\ i < q)
           \/ \A i \in 0 .. 2 * s - 1 : i \in S <=> ~(p <= i /\ i < q)
  BY DEF Wave
<1>2. \A i \in 0 .. s - 1 : i \in 0 .. 2 * s - 1 /\ s + i \in 0 .. 2 * s - 1   OBVIOUS
<1>3. CASE \A i \in 0 .. 2 * s - 1 : i \in S <=> (p <= i /\ i < q)
  <2>1. \A i \in 0 .. s - 1 : /\ i \in L <=> (p <= i /\ i < q) /\ (p <= s + i /\ s + i < q)
                              /\ i \in U <=> (p <= i /\ i < q) \/ (p <= s + i /\ s + i < q)
    BY <1>2, <1>3 DEF Halves
  <2>2. CASE q <= s
    <3>1. L \cap 0 .. s - 1 = {}
      BY <2>1, <2>2
    <3>2. p \in 0 .. s /\ q \in 0 .. s /\ \A i \in 0 .. s - 1 : i \in U <=> (p <= i /\ i < q)
      BY <1>1, <2>1, <2>2
    <3> QED   BY <1>1, <3>1, <3>2, FlatWaves, WaveIs
  <2>3. CASE p >= s
    <3>1. L \cap 0 .. s - 1 = {}
      BY <2>1, <2>3
    <3>2. /\ p - s \in 0 .. s /\ q - s \in 0 .. s /\ p - s <= q - s
          /\ \A i \in 0 .. s - 1 : i \in U <=> (p - s <= i /\ i < q - s)
      BY <1>1, <2>1, <2>3
    <3> QED   BY <3>1, <3>2, FlatWaves, WaveIs
  <2>4. CASE p < s /\ s < q /\ q - s <= p
    <3>1. L \cap 0 .. s - 1 = {}
      BY <2>1, <2>4
    <3>2. /\ p \in 0 .. s /\ q - s \in 0 .. s
          /\ \A i \in 0 .. s - 1 : i \in U <=> ~(q - s <= i /\ i < p)
      BY <1>1, <2>1, <2>4
    <3> QED   BY <2>4, <3>1, <3>2, FlatWaves, WaveIs
  <2>5. CASE p < s /\ s < q /\ p < q - s
    <3>1. 0 .. s - 1 \subseteq U
      BY <2>1, <2>5
    <3>2. /\ p \in 0 .. s /\ q - s \in 0 .. s /\ p <= q - s
          /\ \A i \in 0 .. s - 1 : i \in L <=> (p <= i /\ i < q - s)
      BY <1>1, <2>1, <2>5
    <3> QED   BY <3>1, <3>2, FlatWaves, WaveIs
  <2> QED   BY <2>2, <2>3, <2>4, <2>5
<1>4. CASE \A i \in 0 .. 2 * s - 1 : i \in S <=> ~(p <= i /\ i < q)
  <2>1. \A i \in 0 .. s - 1 : /\ i \in L <=> ~(p <= i /\ i < q) /\ ~(p <= s + i /\ s + i < q)
                              /\ i \in U <=> ~(p <= i /\ i < q) \/ ~(p <= s + i /\ s + i < q)
    BY <1>2, <1>4 DEF Halves
  <2>2. CASE q <= s
    <3>1. 0 .. s - 1 \subseteq U
      BY <2>1, <2>2
    <3>2. p \in 0 .. s /\ q \in 0 .. s /\ \A i \in 0 .. s - 1 : i \in L <=> ~(p <= i /\ i < q)
      BY <1>1, <2>1, <2>2
    <3> QED   BY <1>1, <3>1, <3>2, FlatWaves, WaveIs
  <2>3. CASE p >= s
    <3>1. 0 .. s - 1 \subseteq U
      BY <2>1, <2>3
    <3>2. /\ p - s \in 0 .. s /\ q - s \in 0 .. s /\ p - s <= q - s
          /\ \A i \in 0 .. s - 1 : i \in L <=> ~(p - s <= i /\ i < q - s)
      BY <1>1, <2>1, <2>3
    <3> QED   BY <3>1, <3>2, FlatWaves, WaveIs
  <2>4. CASE p < s /\ s < q /\ q - s <= p
    <3>1. 0 .. s - 1 \subseteq U
      BY <2>1, <2>4
    <3>2. /\ p \in 0 .. s /\ q - s \in 0 .. s
          /\ \A i \in 0 .. s - 1 : i \in L <=> (q - s <= i /\ i < p)
      BY <1>1, <2>1, <2>4
    <3> QED   BY <2>4, <3>1, <3>2, FlatWaves, WaveIs
  <2>5. CASE p < s /\ s < q /\ p < q - s
    <3>1. L \cap 0 .. s - 1 = {}
      BY <2>1, <2>5
    <3>2. /\ p \in 0 .. s /\ q - s \in 0 .. s /\ p <= q - s
          /\ \A i \in 0 .. s - 1 : i \in U <=> ~(p <= i /\ i < q - s)
      BY <1>1, <2>1, <2>5
    <3> QED   BY <3>1, <3>2, FlatWaves, WaveIs
  <2> QED   BY <2>2, <2>3, <2>4, <2>5
<1> QED   BY <1>1, <1>3, <1>4

LEMMA PrecedesFacts ==
  ASSUME NEW V, Keyed(V), NEW x \in V, NEW y \in V, NEW z \in V
  PROVE  /\ ~Precedes(x, x)
         /\ Precedes(x, y) => ~Precedes(y, x)
         /\ Precedes(x, y) /\ Precedes(y, z) => Precedes(x, z)
         /\ Precedes(x, z) => Precedes(x, y) \/ Precedes(y, z)
<1>1. PICK a \in Int, b \in Int : a = x.key[1] /\ b = x.key[2]
  BY DEF Keyed
<1>2. PICK c \in Int, d \in Int : c = y.key[1] /\ d = y.key[2]
  BY DEF Keyed
<1>3. PICK e \in Int, f \in Int : e = z.key[1] /\ f = z.key[2]
  BY DEF Keyed
<1>4. ~Precedes(x, x) /\ (Precedes(x, y) <=> (a < c \/ (a = c /\ b < d)))
  BY <1>1, <1>2 DEF Precedes
<1>5. Precedes(y, x) <=> (c < a \/ (a = c /\ d < b))
  BY <1>1, <1>2 DEF Precedes
<1>6. Precedes(y, z) <=> (c < e \/ (c = e /\ d < f))
  BY <1>2, <1>3 DEF Precedes
<1>7. Precedes(x, z) <=> (a < e \/ (a = e /\ b < f))
  BY <1>1, <1>3 DEF Precedes
<1> QED   BY <1>4, <1>5, <1>6, <1>7

\* The smaller of two is below what either is below.
LEMMA PairBelow ==
  ASSUME NEW V, Keyed(V), NEW x \in V, NEW y \in V, NEW v \in V
  PROVE  /\ Precedes(IF Precedes(y, x) THEN y ELSE x, v) <=> Precedes(x, v) \/ Precedes(y, v)
         /\ Precedes(IF Precedes(y, x) THEN x ELSE y, v) <=> Precedes(x, v) /\ Precedes(y, v)
         /\ Precedes(IF Precedes(x, y) THEN y ELSE x, v) <=> Precedes(x, v) /\ Precedes(y, v)
         /\ Precedes(IF Precedes(x, y) THEN x ELSE y, v) <=> Precedes(x, v) \/ Precedes(y, v)
<1>1. /\ Precedes(y, x) => ~Precedes(x, y)
      /\ Precedes(y, x) /\ Precedes(x, v) => Precedes(y, v)
      /\ Precedes(x, y) /\ Precedes(y, v) => Precedes(x, v)
      /\ Precedes(y, v) => Precedes(y, x) \/ Precedes(x, v)
      /\ Precedes(x, v) => Precedes(x, y) \/ Precedes(y, v)
  BY PrecedesFacts
<1>2. CASE Precedes(y, x)
  BY <1>1, <1>2
<1>3. CASE Precedes(x, y)
  BY <1>1, <1>3
<1>4. CASE ~Precedes(x, y) /\ ~Precedes(y, x)
  BY <1>1, <1>4
<1> QED   BY <1>2, <1>3, <1>4

LEMMA ExchangePair ==
  ASSUME NEW given, NEW result, NEW size, NEW w, NEW s, NEW m, NEW b,
         StageAt(given, result, size, w, s, m, b), NEW i \in 0 .. s - 1
  PROVE  PairLeft(given, result, w, s, b, i)
<1>0. /\ w \in Powers /\ s \in Strides /\ m = 2 * s /\ m <= w
      /\ size \in Nat /\ DOMAIN given = 0 .. size - 1
      /\ b \in Nat /\ Starts(b, m) /\ b + m <= size
      /\ result = Exchange(given, w, s)
  BY DEF StageAt
<1>1. LeftOf(b + i, s) = b + i /\ LeftOf(b + s + i, s) = b + i
  BY <1>0, PairFacts
<1>2. s \in Nat /\ m \in Powers /\ m \in Nat /\ i \in 0 .. m - 1
  BY <1>0 DEF Strides, Powers
<1>3. (b + i) \div w = b \div w
  BY <1>0, <1>2, Nested DEF Block
<1>4. b + i \in 0 .. size - 1 /\ b + s + i \in 0 .. size - 1
  BY <1>0, <1>2
<1>5. \A j \in 0 .. size - 1 : LeftOf(j, s) = b + i =>
        result[j] = given[IF (IF ((b + i) \div w) % 2 = 0 THEN Precedes(given[b + i + s], given[b + i])
                              ELSE Precedes(given[b + i], given[b + i + s]))
                          THEN b + i + (b + i + s) - j ELSE j]
  BY <1>0 DEF Exchange
<1>6. b + i + s = b + s + i /\ b + i + (b + i + s) - (b + i) = b + s + i
      /\ b + i + (b + i + s) - (b + s + i) = b + i
  BY <1>0, <1>2
<1>7. result[b + i] = given[IF (IF Up(b, w) THEN Precedes(given[b + s + i], given[b + i])
                                ELSE Precedes(given[b + i], given[b + s + i]))
                            THEN b + s + i ELSE b + i]
  BY <1>1, <1>3, <1>4, <1>5, <1>6 DEF Up
<1>8. result[b + s + i] = given[IF (IF Up(b, w) THEN Precedes(given[b + s + i], given[b + i])
                                    ELSE Precedes(given[b + i], given[b + s + i]))
                                THEN b + i ELSE b + s + i]
  BY <1>1, <1>3, <1>4, <1>5, <1>6 DEF Up
<1> QED   BY <1>7, <1>8 DEF PairLeft

\* Blocks of the same size are apart.
LEMMA Apart2 ==
  ASSUME NEW m \in Powers, NEW b \in Nat, NEW c \in Nat, Starts(b, m), Starts(c, m)
  PROVE  /\ b < c => b + m <= c
         /\ Block(b, m) = Block(c, m) => b = c
<1>1. CASE m = 1   BY <1>1 DEF Starts, Block, Up
<1>2. CASE m = 2   BY <1>2 DEF Starts, Block, Up
<1>3. CASE m = 4   BY <1>3 DEF Starts, Block, Up
<1>4. CASE m = 8   BY <1>4 DEF Starts, Block, Up
<1>5. CASE m = 16   BY <1>5 DEF Starts, Block, Up
<1>6. CASE m = 32   BY <1>6 DEF Starts, Block, Up
<1>7. CASE m = 64   BY <1>7 DEF Starts, Block, Up
<1>8. CASE m = 128   BY <1>8 DEF Starts, Block, Up
<1>9. CASE m = 256   BY <1>9 DEF Starts, Block, Up
<1> QED   BY <1>1, <1>2, <1>3, <1>4, <1>5, <1>6, <1>7, <1>8, <1>9 DEF Powers

LEMMA BlockStage ==
  ASSUME NEW V, NEW size, NEW w, NEW s, NEW m, NEW given, NEW b,
         BlockBefore(given, V, size, w, s, m, b),
         NEW result, result = Exchange(given, w, s)
  PROVE  BlockAfter(given, V, w, s, m, b, result)
<1> USE DEF BlockBefore
<1>1. size \in Nat /\ s \in Nat \ {0} /\ m \in Powers /\ m <= size /\ b \in Nat
  BY DEF Powers, Strides
<1>2. b + m <= size
  BY <1>1, Fits
<1>3. ASSUME NEW i \in 0 .. s - 1
      PROVE  /\ b + i \in 0 .. size - 1 /\ b + s + i \in 0 .. size - 1
             /\ given[b + i] \in V /\ given[b + s + i] \in V
             /\ Up(b, w) => /\ result[b + i] = IF Precedes(given[b + s + i], given[b + i])
                                               THEN given[b + s + i] ELSE given[b + i]
                            /\ result[b + s + i] = IF Precedes(given[b + s + i], given[b + i])
                                                   THEN given[b + i] ELSE given[b + s + i]
             /\ ~Up(b, w) => /\ result[b + i] = IF Precedes(given[b + i], given[b + s + i])
                                            THEN given[b + s + i] ELSE given[b + i]
                             /\ result[b + s + i] = IF Precedes(given[b + i], given[b + s + i])
                                                THEN given[b + i] ELSE given[b + s + i]
  <2>1. b + i \in 0 .. size - 1 /\ b + s + i \in 0 .. size - 1
    BY <1>1, <1>2
  <2>2. DOMAIN given = 0 .. size - 1   OBVIOUS
  <2>3. given[b + i] \in V /\ given[b + s + i] \in V
    BY <2>1
  <2>4. /\ Up(b, w) => /\ result[b + i] = IF Precedes(given[b + s + i], given[b + i])
                                           THEN given[b + s + i] ELSE given[b + i]
                       /\ result[b + s + i] = IF Precedes(given[b + s + i], given[b + i])
                                               THEN given[b + i] ELSE given[b + s + i]
        /\ ~Up(b, w) => /\ result[b + i] = IF Precedes(given[b + i], given[b + s + i])
                                            THEN given[b + s + i] ELSE given[b + i]
                        /\ result[b + s + i] = IF Precedes(given[b + i], given[b + s + i])
                                                THEN given[b + i] ELSE given[b + s + i]
    <3>1. w \in Powers /\ s \in Strides /\ m = 2 * s /\ m <= w /\ Starts(b, m) /\ result = Exchange(given, w, s)
      OBVIOUS
    <3>2. StageAt(given, result, size, w, s, m, b)
      BY <1>1, <1>2, <2>2, <3>1 DEF StageAt
    <3>3. PairLeft(given, result, w, s, b, i)
      BY <3>2, ExchangePair
    <3> QED   BY <3>3 DEF PairLeft
  <2> QED   BY <2>1, <2>3, <2>4, Zenon
<1>4. ASSUME NEW i \in 0 .. s - 1
      PROVE  /\ i \in 0 .. m - 1 /\ s + i \in 0 .. m - 1 /\ b + (s + i) = b + s + i
             /\ \E j \in 0 .. m - 1 : result[b + i] = given[b + j]
             /\ \E j \in 0 .. m - 1 : result[b + s + i] = given[b + j]
             /\ result[b + i] \in V /\ result[b + s + i] \in V
  <2>1. i \in 0 .. m - 1 /\ s + i \in 0 .. m - 1 /\ b + (s + i) = b + s + i
    BY <1>1
  <2>2. result[b + i] \in {given[b + i], given[b + s + i]} /\ result[b + s + i] \in {given[b + i], given[b + s + i]}
    BY <1>3
  <2> QED   BY <1>3, <2>1, <2>2
<1>5. ASSUME NEW v \in V
      PROVE  /\ Wave(HighIn(result, v, b, s), s) /\ Wave(HighIn(result, v, b + s, s), s)
             /\ Up(b, w) => \/ HighIn(result, v, b, s) = {}
                            \/ 0 .. s - 1 \subseteq HighIn(result, v, b + s, s)
             /\ ~Up(b, w) => \/ HighIn(result, v, b + s, s) = {}
                             \/ 0 .. s - 1 \subseteq HighIn(result, v, b, s)
  <2>1. PICK S, L, U : /\ S = HighIn(given, v, b, m)
                       /\ L = HighIn(result, v, b, s) /\ U = HighIn(result, v, b + s, s)   OBVIOUS
  <2>2. ASSUME NEW i \in 0 .. s - 1
        PROVE  /\ i \in S <=> ~Precedes(given[b + i], v)
               /\ s + i \in S <=> ~Precedes(given[b + s + i], v)
               /\ i \in L <=> ~Precedes(result[b + i], v)
               /\ i \in U <=> ~Precedes(result[b + s + i], v)
    BY <1>4, <2>1 DEF HighIn
  <2>3. Wave(S, m) /\ L \subseteq 0 .. s - 1 /\ U \subseteq 0 .. s - 1
    BY <2>1 DEF HighIn
  <2>4. CASE Up(b, w)
    <3>1. ASSUME NEW i \in 0 .. s - 1
          PROVE  /\ i \in L <=> i \in S /\ s + i \in S
                 /\ i \in U <=> i \in S \/ s + i \in S
      BY <1>3, <2>2, <2>4, PairBelow
    <3>2. Wave(L, s) /\ Wave(U, s) /\ (L \cap 0 .. s - 1 = {} \/ 0 .. s - 1 \subseteq U)
      <4>1. Halves(S, s, L, U)
        BY <3>1 DEF Halves
      <4> QED   BY <1>1, <2>3, <4>1, Halver
    <3> QED   BY <2>1, <2>3, <2>4, <3>2
  <2>5. CASE ~Up(b, w)
    <3>1. ASSUME NEW i \in 0 .. s - 1
          PROVE  /\ i \in U <=> i \in S /\ s + i \in S
                 /\ i \in L <=> i \in S \/ s + i \in S
      BY <1>3, <2>2, <2>5, PairBelow
    <3>2. Wave(U, s) /\ Wave(L, s) /\ (U \cap 0 .. s - 1 = {} \/ 0 .. s - 1 \subseteq L)
      <4>1. Halves(S, s, U, L)
        BY <3>1 DEF Halves
      <4> QED   BY <1>1, <2>3, <4>1, Halver
    <3> QED   BY <2>1, <2>3, <2>5, <3>2
  <2> QED   BY <2>4, <2>5
<1>6. ASSUME NEW i \in 0 .. s - 1, NEW j \in 0 .. s - 1
      PROVE  InOrder(Up(b, w), result[b + i], result[b + s + j])
  <2>1. PICK x \in V, y \in V : x = result[b + i] /\ y = result[b + s + j]
    BY <1>4
  <2>2. ~Precedes(x, x) /\ ~Precedes(y, y)
    BY PrecedesFacts
  <2>3. CASE Up(b, w)
    <3>1. i \in HighIn(result, x, b, s)
      BY <2>1, <2>2 DEF HighIn
    <3>2. j \in HighIn(result, x, b + s, s)
      BY <1>5, <2>3, <3>1
    <3> QED   BY <2>1, <2>3, <3>2 DEF HighIn, InOrder
  <2>4. CASE ~Up(b, w)
    <3>1. j \in HighIn(result, y, b + s, s)
      BY <2>1, <2>2 DEF HighIn
    <3>2. i \in HighIn(result, y, b, s)
      BY <1>5, <2>4, <3>1
    <3> QED   BY <2>1, <2>4, <3>2 DEF HighIn, InOrder
  <2> QED   BY <2>3, <2>4
<1> QED   BY <1>4, <1>5, <1>6 DEF BlockAfter

\* One stage halves the blocks.
LEMMA StageStep ==
  ASSUME NEW V, Keyed(V), NEW size \in Powers, NEW w \in Powers, NEW s \in Strides,
         NEW m, m = 2 * s, m <= w, w <= size,
         NEW given, Staged(given, V, size, w, m)
  PROVE  Staged(Exchange(given, w, s), V, size, w, s)
<1>1. PICK result : result = Exchange(given, w, s)   OBVIOUS
<1>2. /\ size \in Nat /\ s \in Nat \ {0} /\ m \in Powers /\ s \in Powers /\ m <= size /\ s <= size
      /\ w \in Nat
  BY DEF Powers, Strides
<1>3. given \in [0 .. size - 1 -> V] /\ DOMAIN given = 0 .. size - 1
  BY DEF Staged
<1>4. ASSUME NEW b \in 0 .. size - 1, Starts(b, m)
      PROVE  /\ \A v \in V : /\ Wave(HighIn(result, v, b, s), s)
                             /\ Wave(HighIn(result, v, b + s, s), s)
             /\ \A i, j \in 0 .. s - 1 : InOrder(Up(b, w), result[b + i], result[b + s + j])
             /\ \A i \in 0 .. s - 1 : /\ \E j \in 0 .. m - 1 : result[b + i] = given[b + j]
                                      /\ \E j \in 0 .. m - 1 : result[b + s + i] = given[b + j]
  <2>1. \A v \in V : Wave(HighIn(given, v, b, m), m)
    BY <1>4 DEF Staged
  <2> QED
    <3>1. BlockBefore(given, V, size, w, s, m, b)
      BY <1>3, <1>4, <2>1 DEF BlockBefore
    <3>2. BlockAfter(given, V, w, s, m, b, result)
      BY <1>1, <3>1, BlockStage
    <3> QED   BY <3>2 DEF BlockAfter
<1>5. ASSUME NEW b \in 0 .. size - 1, Starts(b, s)
      PROVE  \E B \in 0 .. size - 1 : /\ Starts(B, m) /\ (b = B \/ b = B + s)
                                      /\ Starts(B, m)
                                      /\ Block(B, w) = Block(b, w)
                                      /\ b + s <= size
                                      /\ \A i \in 0 .. s - 1 : \E j \in 0 .. m - 1 : result[b + i] = given[B + j]
  <2>1. b \in Nat   OBVIOUS
  <2>2. Starts(b, m) \/ (b - s \in Nat /\ Starts(b - s, m))
    BY <1>2, <1>5, <2>1, HalfFacts
  <2>3. PICK B \in 0 .. size - 1 : Starts(B, m) /\ (b = B \/ b = B + s)
    BY <1>2, <2>1, <2>2
  <2>4. PICK k \in 0 .. m - 1 : b = B + k
    BY <1>2, <2>3
  <2>5. Block(B, w) = Block(b, w)
    BY <1>2, <2>3, <2>4, Nested
  <2>6. b + s <= size
    BY <1>2, <1>5, <2>1, Fits
  <2>7. \A i \in 0 .. s - 1 : \E j \in 0 .. m - 1 : result[b + i] = given[B + j]
    BY <1>4, <2>3
  <2> QED   BY <2>3, <2>5, <2>6, <2>7
<1>6. result \in [0 .. size - 1 -> V]
  <2>1. DOMAIN result = 0 .. size - 1 /\ result = [i \in 0 .. size - 1 |-> result[i]]
    BY <1>1, <1>3 DEF Exchange
  <2>2. ASSUME NEW k \in 0 .. size - 1 PROVE result[k] \in V
    <3>1. PICK b \in Nat : Starts(b, s) /\ b <= k /\ k < b + s
      BY <1>2, BlockOf
    <3>2. b \in 0 .. size - 1 /\ k - b \in 0 .. s - 1 /\ b + (k - b) = k
      BY <1>2, <3>1
    <3>3. PICK B \in 0 .. size - 1 : /\ Starts(B, m)
                                     /\ \A i \in 0 .. s - 1 : \E j \in 0 .. m - 1 : result[b + i] = given[B + j]
      BY <1>5, <3>1, <3>2
    <3>4. PICK j \in 0 .. m - 1 : result[k] = given[B + j]
      BY <3>2, <3>3
    <3>5. B + m <= size
      BY <1>2, <3>3, Fits
    <3>6. B + j \in 0 .. size - 1
      BY <1>2, <3>5
    <3> QED   BY <1>3, <3>4, <3>6
  <2> QED   BY <2>1, <2>2
<1>7. ASSUME NEW v \in V, NEW b \in 0 .. size - 1, Starts(b, s) PROVE Wave(HighIn(result, v, b, s), s)
  <2>1. PICK B \in 0 .. size - 1 : Starts(B, m) /\ (b = B \/ b = B + s)
    BY <1>5, <1>7
  <2> QED   BY <1>4, <2>1
<1>8. ASSUME NEW b \in 0 .. size - 1, NEW c \in 0 .. size - 1, Starts(b, s), Starts(c, s), b < c,
             Block(b, w) = Block(c, w), NEW i \in 0 .. s - 1, NEW j \in 0 .. s - 1
      PROVE  InOrder(Up(b, w), result[b + i], result[c + j])
  <2>1. PICK B \in 0 .. size - 1 : /\ Starts(B, m) /\ (b = B \/ b = B + s) /\ Block(B, w) = Block(b, w)
                                   /\ \A k \in 0 .. s - 1 : \E l \in 0 .. m - 1 : result[b + k] = given[B + l]
    BY <1>5, <1>8
  <2>2. PICK C \in 0 .. size - 1 : /\ Starts(C, m) /\ (c = C \/ c = C + s) /\ Block(C, w) = Block(c, w)
                                   /\ \A k \in 0 .. s - 1 : \E l \in 0 .. m - 1 : result[c + k] = given[C + l]
    BY <1>5, <1>8
  <2>3. B \in Nat /\ C \in Nat   OBVIOUS
  <2>4. CASE B = C
    <3>1. b = B /\ c = B + s
      BY <1>2, <1>8, <2>1, <2>2, <2>4
    <3>2. InOrder(Up(B, w), result[B + i], result[B + s + j])
      BY <1>4, <2>1
    <3> QED   BY <3>1, <3>2
  <2>5. CASE B # C
    <3>1. B < C
      <4>1. C < B => C + m <= B
        BY <1>2, <2>1, <2>2, <2>3, Apart2
      <4> QED   BY <1>2, <1>8, <2>1, <2>2, <2>3, <2>5, <4>1
    <3>2. PICK k \in 0 .. m - 1 : result[b + i] = given[B + k]
      BY <2>1
    <3>3. PICK l \in 0 .. m - 1 : result[c + j] = given[C + l]
      BY <2>2
    <3>4. Block(B, w) = Block(C, w)
      BY <1>8, <2>1, <2>2
    <3>5. InOrder(Up(B, w), given[B + k], given[C + l])
      BY <2>1, <2>2, <3>1, <3>4 DEF Staged
    <3>6. Up(B, w) = Up(b, w)
      BY <2>1 DEF Up, Block
    <3> QED   BY <3>2, <3>3, <3>5, <3>6
  <2> QED   BY <2>4, <2>5
<1>9. Staged(result, V, size, w, s)
  BY <1>6, <1>7, <1>8 DEF Staged
<1> QED   BY <1>1, <1>9

-----------------------------------------------------------------------------
(* What a width does, and the network. *)

\* Where the members of T only grow rarer downwards, they begin somewhere.
LEMMA Threshold ==
  ASSUME NEW h \in Nat, NEW T, \A i, j \in 0 .. h - 1 : i < j /\ i \in T => j \in T
  PROVE  \E p \in 0 .. h : \A i \in 0 .. h - 1 : i \in T <=> p <= i
<1>1. PICK A : A = {i \in 0 .. h - 1 : i \in T} \cup {h}   OBVIOUS
<1>2. A \subseteq Nat /\ A # {} /\ h \in A
  BY <1>1
<1>3. PICK p \in A : \A i \in A : p <= i
  BY <1>2, LeastNat
<1>4. p \in 0 .. h
  BY <1>1, <1>2, <1>3
<1>5. ASSUME NEW i \in 0 .. h - 1 PROVE i \in T <=> p <= i
  <2>1. i \in T => p <= i
    BY <1>1, <1>3
  <2>2. ASSUME p <= i PROVE i \in T
    <3>1. p \in 0 .. h - 1 /\ p \in T
      BY <1>1, <1>4, <2>2
    <3> QED   BY <2>2, <3>1
  <2> QED   BY <2>1, <2>2
<1> QED   BY <1>4, <1>5

LEMMA HalvesMakeAWave ==
  ASSUME NEW V, Keyed(V), NEW h \in Nat, NEW m, m = 2 * h, NEW given, NEW b \in Nat, NEW v \in V,
         RisesThenFalls(given, V, b, h, m)
  PROVE  Wave(HighIn(given, v, b, m), m)
<1>1. PICK A, B : /\ A = {i \in 0 .. h - 1 : ~Precedes(given[b + i], v)}
                  /\ B = {i \in 0 .. h - 1 : Precedes(given[(b + h) + i], v)}   OBVIOUS
<1>2. \A i \in 0 .. h - 1 : given[b + i] \in V /\ given[(b + h) + i] \in V
  <2>1. ASSUME NEW i \in 0 .. h - 1 PROVE given[b + i] \in V /\ given[(b + h) + i] \in V
    <3>1. i \in 0 .. m - 1 /\ h + i \in 0 .. m - 1 /\ b + (h + i) = (b + h) + i   OBVIOUS
    <3> QED   BY <3>1 DEF RisesThenFalls
  <2> QED   BY <2>1
<1>3. ASSUME NEW i \in 0 .. h - 1, NEW j \in 0 .. h - 1, i < j
      PROVE  (i \in A => j \in A) /\ (i \in B => j \in B)
  <2>1. ~Precedes(given[b + j], given[b + i]) /\ ~Precedes(given[(b + h) + i], given[(b + h) + j])
    BY <1>3 DEF InOrder, RisesThenFalls
  <2>2. PICK x \in V, y \in V, z \in V, u \in V :
          x = given[b + i] /\ y = given[b + j] /\ z = given[(b + h) + i] /\ u = given[(b + h) + j]
    BY <1>2
  <2>3. ~Precedes(y, x) /\ ~Precedes(z, u)
    BY <2>1, <2>2
  <2>4. ~Precedes(x, v) => ~Precedes(y, v)
    BY <2>3, PrecedesFacts
  <2>5. Precedes(z, v) => Precedes(u, v)
    BY <2>3, PrecedesFacts
  <2> QED   BY <1>1, <2>2, <2>4, <2>5
<1>4. PICK p \in 0 .. h : \A i \in 0 .. h - 1 : i \in A <=> p <= i
  BY <1>3, Threshold
<1>5. PICK q \in 0 .. h : \A i \in 0 .. h - 1 : i \in B <=> q <= i
  BY <1>3, Threshold
<1>6. PICK r, S : r = h + q /\ S = HighIn(given, v, b, m)   OBVIOUS
<1>7. p \in 0 .. m /\ r \in 0 .. m /\ p <= r /\ m \in Nat
  BY <1>6
<1>8. ASSUME NEW i \in 0 .. m - 1 PROVE i \in S <=> (p <= i /\ i < r)
  <2>1. i \in S <=> ~Precedes(given[b + i], v)
    BY <1>6 DEF HighIn
  <2>2. CASE i < h
    <3>1. i \in 0 .. h - 1 /\ i < r
      BY <1>6, <2>2
    <3>2. i \in S <=> i \in A
      BY <1>1, <2>1, <3>1
    <3> QED   BY <1>4, <3>1, <3>2
  <2>3. CASE i >= h
    <3>1. PICK j : j = i - h   OBVIOUS
    <3>2. j \in 0 .. h - 1 /\ b + i = (b + h) + j /\ p <= i
      BY <2>3, <3>1
    <3>3. i \in S <=> j \notin B
      BY <1>1, <2>1, <3>2
    <3>4. i < r <=> ~(q <= j)
      BY <1>6, <3>1, <3>2
    <3> QED   BY <1>5, <3>2, <3>3, <3>4
  <2> QED   BY <2>2, <2>3
<1>9. Wave(S, m)
  BY <1>7, <1>8, WaveIs
<1> QED   BY <1>6, <1>9

\* Sorted blocks are ready for the next width.
LEMMA WidthBegins ==
  ASSUME NEW V, Keyed(V), NEW size \in Powers, NEW s \in Strides, NEW w, w = 2 * s, w <= size,
         NEW given, SortedBlocks(given, V, size, s)
  PROVE  Staged(given, V, size, w, w)
<1>1. w \in Powers /\ s \in Nat /\ size \in Nat /\ s \in Powers /\ w \in Nat
  BY DEF Powers, Strides
<1>2. ASSUME NEW v \in V, NEW b \in 0 .. size - 1, Starts(b, w) PROVE Wave(HighIn(given, v, b, w), w)
  <2>1. b + w <= size /\ b \in Nat
    BY <1>1, <1>2, Fits
  <2>2. Starts(b, s) /\ Starts(b + s, s) /\ Up(b, s) /\ ~Up(b + s, s)
    BY <1>2, <2>1, WholeFacts
  <2>3. s > 0
    BY DEF Strides
  <2>4. b + s \in 0 .. size - 1
    BY <1>1, <2>1, <2>3
  <2>5. Up(b, s) = TRUE /\ Up(b + s, s) = FALSE
    BY <2>2 DEF Up
  <2>6. \A i, j \in 0 .. s - 1 : i < j => InOrder(TRUE, given[b + i], given[b + j])
    BY <2>2, <2>5 DEF SortedBlocks
  <2>7. \A i, j \in 0 .. s - 1 : i < j => InOrder(FALSE, given[(b + s) + i], given[(b + s) + j])
    BY <2>2, <2>4, <2>5 DEF SortedBlocks
  <2>8. \A i \in 0 .. w - 1 : given[b + i] \in V
    <3>1. ASSUME NEW i \in 0 .. w - 1 PROVE given[b + i] \in V
      <4>1. b + i \in 0 .. size - 1
        BY <1>1, <2>1
      <4> QED   BY <4>1 DEF SortedBlocks
    <3> QED   BY <3>1
  <2>9. RisesThenFalls(given, V, b, s, w)
    BY <2>6, <2>7, <2>8 DEF RisesThenFalls
  <2> QED   BY <1>1, <2>1, <2>9, HalvesMakeAWave
<1>3. ASSUME NEW b \in 0 .. size - 1, NEW c \in 0 .. size - 1, Starts(b, w), Starts(c, w), b < c,
             Block(b, w) = Block(c, w)
      PROVE  FALSE
  <2>1. b \in Nat /\ c \in Nat   OBVIOUS
  <2>2. b = c
    BY <1>1, <1>3, <2>1, Apart2
  <2> QED   BY <1>3, <2>2
<1> QED   BY <1>2, <1>3 DEF Staged, SortedBlocks

\* A width ends with its blocks sorted.
LEMMA WidthEnds ==
  ASSUME NEW V, NEW size \in Powers, NEW w \in Powers, w <= size,
         NEW given, Staged(given, V, size, w, 1)
  PROVE  SortedBlocks(given, V, size, w)
<1>1. w \in Nat /\ size \in Nat
  BY DEF Powers
<1>2. ASSUME NEW b \in 0 .. size - 1, Starts(b, w), NEW i \in 0 .. w - 1, NEW j \in 0 .. w - 1, i < j
      PROVE  InOrder(Up(b, w), given[b + i], given[b + j])
  <2>1. b + w <= size /\ b \in Nat
    BY <1>1, <1>2, Fits
  <2>2. PICK c, d : c = b + i /\ d = b + j   OBVIOUS
  <2>3. c \in 0 .. size - 1 /\ d \in 0 .. size - 1 /\ c < d /\ c + 0 = c /\ d + 0 = d /\ 0 \in 0 .. 1 - 1
    BY <1>1, <1>2, <2>1, <2>2
  <2>4. Starts(c, 1) /\ Starts(d, 1)
    BY <2>3 DEF Starts
  <2>5. Block(c, w) = Block(b, w) /\ Block(d, w) = Block(b, w)
    BY <1>1, <1>2, <2>1, <2>2, Nested
  <2>6. InOrder(Up(c, w), given[c + 0], given[d + 0])
    BY <2>3, <2>4, <2>5 DEF Staged
  <2>7. Up(c, w) = Up(b, w)
    BY <2>5 DEF Up, Block
  <2> QED   BY <2>2, <2>3, <2>6, <2>7
<1> QED   BY <1>2 DEF Staged, SortedBlocks

-----------------------------------------------------------------------------
(* Slots in another order, and a network of stages. *)

LEMMA RearrangedSelf ==
  ASSUME NEW size, NEW V, NEW given \in [0 .. size - 1 -> V]
  PROVE  Rearranged(given, given, size)
<1>1. PICK f : f = [i \in 0 .. size - 1 |-> i]   OBVIOUS
<1>2. /\ f \in [0 .. size - 1 -> 0 .. size - 1]
      /\ \A i, j \in 0 .. size - 1 : f[i] = f[j] => i = j
      /\ \A j \in 0 .. size - 1 : \E i \in 0 .. size - 1 : f[i] = j
      /\ \A i \in 0 .. size - 1 : given[i] = given[f[i]]
  BY <1>1
<1> QED   BY <1>2 DEF Rearranged

LEMMA OrderTwice ==
  ASSUME NEW P, NEW f, Order(f, P), NEW g, Order(g, P), NEW h, OneAfter(h, f, g, P)
  PROVE  Order(h, P)
<1>1. \A i \in P : g[i] \in P /\ h[i] = f[g[i]] /\ h[i] \in P
  BY Zenon DEF Order, OneAfter
<1>2. ASSUME NEW i \in P, NEW j \in P, h[i] = h[j] PROVE i = j
  <2>1. g[i] \in P /\ g[j] \in P /\ f[g[i]] = f[g[j]]
    BY <1>1, <1>2
  <2>2. g[i] = g[j]
    BY <2>1, Zenon DEF Order
  <2> QED   BY <2>2, Zenon DEF Order
<1>3. ASSUME NEW j \in P PROVE \E i \in P : h[i] = j
  <2>1. PICK k \in P : f[k] = j
    BY Zenon DEF Order
  <2>2. PICK i \in P : g[i] = k
    BY Zenon DEF Order
  <2> QED   BY <1>1, <2>1, <2>2
<1> QED   BY <1>1, <1>2, <1>3, Zenon DEF Order

LEMMA RearrangedTwice ==
  ASSUME NEW size, NEW given, NEW mid, NEW result, Rearranged(mid, given, size), Rearranged(result, mid, size)
  PROVE  Rearranged(result, given, size)
<1>1. PICK f \in [0 .. size - 1 -> 0 .. size - 1] :
        /\ Order(f, 0 .. size - 1)
        /\ \A i \in 0 .. size - 1 : mid[i] = given[f[i]]
  BY DEF Rearranged, Order
<1>2. PICK g \in [0 .. size - 1 -> 0 .. size - 1] :
        /\ Order(g, 0 .. size - 1)
        /\ \A i \in 0 .. size - 1 : result[i] = mid[g[i]]
  BY DEF Rearranged, Order
<1>3. PICK h : h = [i \in 0 .. size - 1 |-> f[g[i]]]   OBVIOUS
<1>4. \A i \in 0 .. size - 1 : h[i] = f[g[i]] /\ g[i] \in 0 .. size - 1
  BY <1>3
<1>5. Order(h, 0 .. size - 1)
  <2>1. PICK P : P = 0 .. size - 1   OBVIOUS
  <2>2. Order(f, P) /\ Order(g, P) /\ OneAfter(h, f, g, P)
    BY <1>1, <1>2, <1>4, <2>1 DEF OneAfter
  <2>3. Order(h, P)
    BY <2>2, OrderTwice
  <2> QED   BY <2>1, <2>3
<1>6. h \in [0 .. size - 1 -> 0 .. size - 1]
  BY <1>3, <1>5 DEF Order
<1>7. \A i \in 0 .. size - 1 : result[i] = given[h[i]]
  BY SMTT(30), <1>1, <1>2, <1>4
<1> QED   BY <1>5, <1>6, <1>7 DEF Rearranged, Order

\* The other slot of the pair.
LEMMA Partner ==
  ASSUME NEW size \in Powers, NEW s \in Strides, NEW m, m = 2 * s, m <= size, NEW i \in 0 .. size - 1,
         NEW leftSlot, leftSlot = LeftOf(i, s)
  PROVE  /\ leftSlot + (leftSlot + s) - i \in 0 .. size - 1
         /\ LeftOf(leftSlot + (leftSlot + s) - i, s) = leftSlot
         /\ leftSlot \in Nat
<1>1. m \in Powers /\ s \in Nat /\ size \in Nat /\ i \in Nat
  BY DEF Powers, Strides
<1>2. PICK b \in Nat : Starts(b, m) /\ b <= i /\ i < b + m
  BY <1>1, BlockOf
<1>3. b \in 0 .. size - 1
  BY <1>1, <1>2
<1>4. b + m <= size
  BY <1>1, <1>2, <1>3, Fits
<1>5. CASE i < b + s
  <2>1. PICK r : r = i - b   OBVIOUS
  <2>2. r \in 0 .. s - 1 /\ i = b + r
    BY <1>1, <1>2, <1>5, <2>1
  <2>3. LeftOf(b + r, s) = b + r /\ LeftOf(b + s + r, s) = b + r
    BY <1>2, <2>2, PairFacts
  <2>4. leftSlot = b + r /\ leftSlot + (leftSlot + s) - i = b + s + r
    BY <1>1, <2>2, <2>3
  <2>5. b + s + r \in 0 .. size - 1 /\ b + r \in Nat
    BY <1>1, <1>4, <2>2
  <2> QED   BY <2>3, <2>4, <2>5
<1>6. CASE i >= b + s
  <2>1. PICK r : r = i - b - s   OBVIOUS
  <2>2. r \in 0 .. s - 1 /\ i = b + s + r
    BY <1>1, <1>2, <1>6, <2>1
  <2>3. LeftOf(b + r, s) = b + r /\ LeftOf(b + s + r, s) = b + r
    BY <1>2, <2>2, PairFacts
  <2>4. leftSlot = b + r /\ leftSlot + (leftSlot + s) - i = b + r
    BY <1>1, <2>2, <2>3
  <2>5. b + r \in 0 .. size - 1 /\ b + r \in Nat
    BY <1>1, <1>4, <2>2
  <2> QED   BY <2>3, <2>4, <2>5
<1> QED   BY <1>1, <1>2, <1>5, <1>6

\* The other slot of the other slot is the slot.
LEMMA Mirrored ==
  ASSUME NEW l \in Int, NEW s \in Int, NEW i \in Int, NEW j, j = l + (l + s) - i
  PROVE  l + (l + s) - j = i   OBVIOUS

LEMMA ExchangeRearranges ==
  ASSUME NEW size \in Powers, NEW s \in Strides, NEW m, m = 2 * s, m <= size, NEW w, NEW V,
         NEW given \in [0 .. size - 1 -> V]
  PROVE  Rearranged(Exchange(given, w, s), given, size)
<1> DEFINE Swap(leftSlot) == IF (leftSlot \div w) % 2 = 0 THEN Precedes(given[leftSlot + s], given[leftSlot])
                         ELSE Precedes(given[leftSlot], given[leftSlot + s])
<1>1. PICK result : result = Exchange(given, w, s)   OBVIOUS
<1>2. PICK f : f = [i \in 0 .. size - 1 |->
                      IF Swap(LeftOf(i, s)) THEN LeftOf(i, s) + (LeftOf(i, s) + s) - i ELSE i]
  OBVIOUS
<1>3. ASSUME NEW i \in 0 .. size - 1
      PROVE  f[i] \in 0 .. size - 1 /\ f[f[i]] = i /\ result[i] = given[f[i]]
  <2>1. PICK leftSlot, j : leftSlot = LeftOf(i, s) /\ j = leftSlot + (leftSlot + s) - i   OBVIOUS
  <2>2. j \in 0 .. size - 1 /\ LeftOf(j, s) = leftSlot /\ leftSlot \in Nat
    BY <2>1, Partner
  <2>3. f[i] = IF Swap(leftSlot) THEN j ELSE i
    BY <1>2, <2>1
  <2>4. f[j] = IF Swap(leftSlot) THEN leftSlot + (leftSlot + s) - j ELSE j
    BY <1>2, <2>2
  <2>5. leftSlot + (leftSlot + s) - j = i
    <3>1. s \in Int /\ i \in Int /\ leftSlot \in Int
      BY <2>2 DEF Strides
    <3> QED   BY SMTT(30), <2>1, <3>1, Mirrored
  <2>6. result[i] = given[IF Swap(leftSlot) THEN j ELSE i]
    BY <1>1, <2>1 DEF Exchange
  <2> HIDE DEF Swap
  <2> QED   BY <2>2, <2>3, <2>4, <2>5, <2>6
<1> HIDE DEF Swap
<1>4. f \in [0 .. size - 1 -> 0 .. size - 1]
  <2>1. f = [i \in 0 .. size - 1 |-> f[i]]
    BY <1>2
  <2> QED   BY <1>3, <2>1
<1>5. \A i, j \in 0 .. size - 1 : f[i] = f[j] => i = j
  <2>1. ASSUME NEW i \in 0 .. size - 1, NEW j \in 0 .. size - 1, f[i] = f[j] PROVE i = j
    <3>1. f[f[i]] = i /\ f[f[j]] = j
      BY <1>3
    <3> QED   BY <2>1, <3>1
  <2> QED   BY <2>1
<1>6. \A j \in 0 .. size - 1 : \E i \in 0 .. size - 1 : f[i] = j
  BY <1>3
<1>7. DOMAIN result = 0 .. size - 1 /\ result = [i \in 0 .. size - 1 |-> result[i]]
  BY <1>1 DEF Exchange
<1>8. Rearranged(result, given, size)
  BY <1>3, <1>4, <1>5, <1>6, <1>7 DEF Rearranged
<1> QED   BY <1>1, <1>8

LEMMA RearrangedType ==
  ASSUME NEW size, NEW V, NEW given \in [0 .. size - 1 -> V], NEW result, Rearranged(result, given, size)
  PROVE  result \in [0 .. size - 1 -> V]
<1>1. PICK f \in [0 .. size - 1 -> 0 .. size - 1] : \A i \in 0 .. size - 1 : result[i] = given[f[i]]
  BY DEF Rearranged
<1>2. \A i \in 0 .. size - 1 : result[i] \in V
  BY <1>1
<1> QED   BY <1>2 DEF Rearranged

LEMMA StagePowers ==
  ASSUME NEW last, NEW e, NEW d, NEW size, NEW w, NEW s, NEW m, StageIn(last, e, d, size, w, s, m)
  PROVE  /\ size \in Powers /\ w \in Powers /\ s \in Strides /\ m = 2 * s /\ m <= w /\ w <= size /\ m <= size
         /\ size \in Nat /\ w \in Nat /\ m \in Nat
<1> USE DEF StageIn
<1>1. PICK k : k = e - (d - 1)   OBVIOUS
<1>2. k \in 0 .. 8 /\ k > 0 /\ k - 1 = e - d /\ k \in 0 .. e /\ e \in 0 .. 8 /\ e \in 0 .. last
  BY <1>1
<1>3. s \in Strides /\ m = 2 * s /\ m \in Nat
  BY <1>1, <1>2, PowerFacts
<1>4. size \in Powers /\ w \in Powers /\ size \in Nat /\ w \in Nat
  BY <1>2, PowerFacts
<1>5. m <= w /\ w <= size
  BY <1>1, <1>2, PowerOrder
<1> QED   BY <1>3, <1>4, <1>5

LEMMA OneWidthIs ==
  ASSUME NEW V, NEW last \in 0 .. 8, NEW size, size = Power(last), NEW e \in 1 .. last,
         NEW given \in [0 .. size - 1 -> V]
  PROVE  MergesTo(OneWidth(given, e), given, e, size, V)
<1>1. PICK W, J : W = [0 .. size - 1 -> V] /\ J = 1 .. e   OBVIOUS
<1>2. PICK G : G = [d \in J |-> [z \in W |-> Exchange(z, Power(e), Power(e - d))]]   OBVIOUS
<1>3. G \in [J -> [W -> W]]
  <2>1. ASSUME NEW d \in J, NEW z \in W PROVE Exchange(z, Power(e), Power(e - d)) \in W
    <3>1. PICK w, s, m : w = Power(e) /\ s = Power(e - d) /\ m = Power(e - (d - 1))   OBVIOUS
    <3>2. size \in Powers /\ s \in Strides /\ m = 2 * s /\ m <= size
      <4>1. StageIn(last, e, d, size, w, s, m)
        BY <1>1, <3>1 DEF StageIn
      <4> QED   BY <4>1, StagePowers
    <3>3. Rearranged(Exchange(z, w, s), z, size)
      BY <1>1, <3>2, ExchangeRearranges
    <3>4. Exchange(z, w, s) \in [0 .. size - 1 -> V]
      BY <1>1, <3>3, RearrangedType
    <3> QED   BY <1>1, <3>1, <3>4
  <2> QED   BY <1>2, <2>1
<1>4. Steps(0, e, W, given, J, G)
  <2>1. 0 \in Int /\ e \in Int /\ 0 <= e /\ given \in W /\ J = 0 + 1 .. e
    BY <1>1
  <2> QED   BY <1>1, <1>3, <2>1, Recursion
<1>5. PICK g \in [0 .. e -> W] : g[0] = given /\ \A d \in J : g[d] = G[d][g[d - 1]]
  BY <1>4 DEF Steps
<1>6. ASSUME NEW d \in 1 .. e PROVE g[d] = Exchange(g[d - 1], Power(e), Power(e - d))
  <2>1. d \in J /\ d - 1 \in 0 .. e
    BY <1>1
  <2>2. g[d] = G[d][g[d - 1]] /\ g[d - 1] \in W
    BY <1>5, <2>1
  <2> QED   BY <1>2, <2>1, <2>2
<1> DEFINE Def(f) == f = [d \in 0 .. e |-> IF d = 0 THEN given
                                           ELSE Exchange(f[d - 1], Power(e), Power(e - d))]
<1>7. Def(g)
  <2>1. \A d \in 0 .. e : g[d] = IF d = 0 THEN given ELSE Exchange(g[d - 1], Power(e), Power(e - d))
    <3>1. ASSUME NEW d \in 0 .. e
          PROVE  g[d] = IF d = 0 THEN given ELSE Exchange(g[d - 1], Power(e), Power(e - d))
      <4>1. CASE d = 0
        BY <1>5, <4>1
      <4>2. CASE d # 0
        <5>1. d \in 1 .. e
          BY <4>2
        <5> QED   BY <1>6, <4>2, <5>1
      <4> QED   BY <4>1, <4>2
    <3> QED   BY <3>1
  <2> QED   BY <1>5, <2>1
<1> HIDE DEF Def
<1>8. PICK after : after = CHOOSE f : Def(f)   OBVIOUS
<1>9. Def(after)
  BY <1>7, <1>8
<1>10. OneWidth(given, e) = after[e]
  BY <1>8 DEF Def, OneWidth
<1>11. /\ after[0] = given
       /\ \A d \in 1 .. e : after[d] = Exchange(after[d - 1], Power(e), Power(e - d))
  <2>1. \A d \in 0 .. e : after[d] = IF d = 0 THEN given
                                     ELSE Exchange(after[d - 1], Power(e), Power(e - d))
    BY <1>9 DEF Def
  <2>2. 0 \in 0 .. e /\ \A d \in 1 .. e : d \in 0 .. e /\ d # 0   OBVIOUS
  <2> QED   BY <2>1, <2>2
<1>12. PICK T : T = {d \in 0 .. e : after[d] = g[d]}   OBVIOUS
<1>13. \A d \in 0 .. e : d \in T
  <2>1. 0 \in T
    BY <1>5, <1>11, <1>12
  <2>2. ASSUME NEW d \in 0 + 1 .. e, d - 1 \in T PROVE d \in T
    <3>1. d \in 1 .. e /\ d \in 0 .. e   OBVIOUS
    <3> QED   BY <1>6, <1>11, <1>12, <2>2, <3>1
  <2>3. 0 \in Int /\ e \in Int   OBVIOUS
  <2> QED   BY <2>1, <2>2, <2>3, Climb
<1>14. \A d \in 0 .. e : after[d] \in [0 .. size - 1 -> V]
  BY <1>1, <1>5, <1>12, <1>13
<1> QED   BY <1>10, <1>11, <1>14 DEF MergesTo

LEMMA OneWidthSorts ==
  ASSUME NEW V, NEW last \in 0 .. 8, NEW size, size = Power(last), NEW e \in 1 .. last,
         NEW given \in [0 .. size - 1 -> V], NEW result, result = OneWidth(given, e)
  PROVE  /\ Rearranged(result, given, size) /\ result \in [0 .. size - 1 -> V]
         /\ Keyed(V) /\ SortedBlocks(given, V, size, Power(e - 1)) => SortedBlocks(result, V, size, Power(e))
<1>1. MergesTo(result, given, e, size, V)
  BY OneWidthIs
<1>2. PICK g : /\ g[0] = given /\ result = g[e]
               /\ \A d \in 0 .. e : g[d] \in [0 .. size - 1 -> V]
               /\ \A d \in 1 .. e : g[d] = Exchange(g[d - 1], Power(e), Power(e - d))
  BY <1>1 DEF MergesTo
<1>3. PICK w : w = Power(e)   OBVIOUS
<1>4. 0 \in Int /\ e \in Int /\ e \in 0 .. e /\ 0 \in 0 .. e /\ e \in 0 .. 8 /\ e > 0   OBVIOUS
<1>5. Rearranged(result, given, size)
  <2>1. PICK T : T = {d \in 0 .. e : Rearranged(g[d], given, size)}   OBVIOUS
  <2>2. 0 \in T
    BY <1>2, <1>4, <2>1, RearrangedSelf
  <2>3. ASSUME NEW d \in 0 + 1 .. e, d - 1 \in T PROVE d \in T
    <3>1. d \in 1 .. e /\ d \in 0 .. e /\ d - 1 \in 0 .. e   OBVIOUS
    <3>2. PICK s, m : s = Power(e - d) /\ m = Power(e - (d - 1))   OBVIOUS
    <3>3. size \in Powers /\ s \in Strides /\ m = 2 * s /\ m <= size
      <4>1. StageIn(last, e, d, size, w, s, m)
        BY <1>3, <3>1, <3>2 DEF StageIn
      <4> QED   BY <4>1, StagePowers
    <3>4. PICK z \in [0 .. size - 1 -> V] : z = g[d - 1]
      BY <1>2, <3>1
    <3>5. Rearranged(Exchange(z, w, s), z, size)
      BY <3>3, ExchangeRearranges
    <3>6. g[d] = Exchange(z, w, s) /\ Rearranged(z, given, size)
      BY <1>2, <1>3, <2>1, <2>3, <3>1, <3>2, <3>4
    <3>7. Rearranged(g[d], given, size)
      BY <3>5, <3>6, RearrangedTwice
    <3> QED   BY <2>1, <3>1, <3>7
  <2>4. \A d \in 0 .. e : d \in T
    BY <1>4, <2>2, <2>3, Climb
  <2> QED   BY <1>2, <1>4, <2>1, <2>4
<1>6. ASSUME Keyed(V), SortedBlocks(given, V, size, Power(e - 1)) PROVE SortedBlocks(result, V, size, w)
  <2>1. PICK T : T = {d \in 0 .. e : Staged(g[d], V, size, w, Power(e - d))}   OBVIOUS
  <2>2. 0 \in T
    <3>1. PICK s : s = Power(e - 1)   OBVIOUS
    <3>2. 1 \in 1 .. e /\ e - 0 = e /\ e - (1 - 1) = e   OBVIOUS
    <3>3. size \in Powers /\ s \in Strides /\ w = 2 * s /\ w <= size
      <4>1. StageIn(last, e, 1, size, w, s, w)
        BY <1>3, <3>1, <3>2 DEF StageIn
      <4> QED   BY <4>1, StagePowers
    <3>4. SortedBlocks(g[0], V, size, s)
      BY <1>2, <1>6, <3>1
    <3>5. Staged(g[0], V, size, w, w)
      BY <1>6, <3>3, <3>4, WidthBegins
    <3> QED   BY <1>3, <1>4, <2>1, <3>2, <3>5
  <2>3. ASSUME NEW d \in 0 + 1 .. e, d - 1 \in T PROVE d \in T
    <3>1. d \in 1 .. e /\ d \in 0 .. e /\ d - 1 \in 0 .. e   OBVIOUS
    <3>2. PICK s, m : s = Power(e - d) /\ m = Power(e - (d - 1))   OBVIOUS
    <3>3. size \in Powers /\ w \in Powers /\ s \in Strides /\ m = 2 * s /\ m <= w /\ w <= size
      <4>1. StageIn(last, e, d, size, w, s, m)
        BY <1>3, <3>1, <3>2 DEF StageIn
      <4> QED   BY <4>1, StagePowers
    <3>4. PICK z : z = g[d - 1]   OBVIOUS
    <3>5. Staged(z, V, size, w, m) /\ g[d] = Exchange(z, w, s)
      BY <1>2, <1>3, <2>1, <2>3, <3>1, <3>2, <3>4
    <3>6. Staged(Exchange(z, w, s), V, size, w, s)
      BY <1>6, <3>3, <3>5, StageStep
    <3> QED   BY <2>1, <3>1, <3>2, <3>5, <3>6
  <2>4. \A d \in 0 .. e : d \in T
    BY <1>4, <2>2, <2>3, Climb
  <2>5. e - e = 0 /\ Power(0) = 1
    BY <1>4, PowerFacts
  <2>6. Staged(result, V, size, w, 1)
    BY <1>2, <1>4, <2>1, <2>4, <2>5
  <2>7. size \in Powers /\ w \in Powers /\ w <= size
    <3>1. PICK s, m : s = Power(e - e) /\ m = Power(e - (e - 1))   OBVIOUS
    <3>2. StageIn(last, e, e, size, w, s, m)
      BY <1>3, <3>1 DEF StageIn
    <3> QED   BY <3>2, StagePowers
  <2> QED   BY <2>6, <2>7, WidthEnds
<1>7. result \in [0 .. size - 1 -> V]
  BY <1>2, <1>4
<1> QED   BY <1>3, <1>5, <1>6, <1>7

LEMMA NetworkIs ==
  ASSUME NEW V, NEW last \in 0 .. 8, NEW size, size = Power(last), NEW given \in [0 .. size - 1 -> V]
  PROVE  SortsTo(NetworkSort(given, last), given, last, size, V)
<1>1. PICK W, J : W = [0 .. size - 1 -> V] /\ J = 1 .. last   OBVIOUS
<1>2. PICK G : G = [e \in J |-> [z \in W |-> OneWidth(z, e)]]   OBVIOUS
<1>3. G \in [J -> [W -> W]]
  <2>1. ASSUME NEW e \in J, NEW z \in W PROVE OneWidth(z, e) \in W
    BY <1>1, OneWidthSorts
  <2> QED   BY <1>2, <2>1
<1>4. Steps(0, last, W, given, J, G)
  <2>1. 0 \in Int /\ last \in Int /\ 0 <= last /\ given \in W /\ J = 0 + 1 .. last
    BY <1>1
  <2> QED   BY <1>1, <1>3, <2>1, Recursion
<1>5. PICK g \in [0 .. last -> W] : g[0] = given /\ \A e \in J : g[e] = G[e][g[e - 1]]
  BY <1>4 DEF Steps
<1>6. ASSUME NEW e \in 1 .. last PROVE g[e] = OneWidth(g[e - 1], e)
  <2>1. e \in J /\ e - 1 \in 0 .. last
    BY <1>1
  <2>2. g[e] = G[e][g[e - 1]] /\ g[e - 1] \in W
    BY <1>5, <2>1
  <2> QED   BY <1>2, <2>1, <2>2
<1> DEFINE Def(f) == f = [e \in 0 .. last |-> IF e = 0 THEN given ELSE OneWidth(f[e - 1], e)]
<1>7. Def(g)
  <2>1. \A e \in 0 .. last : g[e] = IF e = 0 THEN given ELSE OneWidth(g[e - 1], e)
    <3>1. ASSUME NEW e \in 0 .. last PROVE g[e] = IF e = 0 THEN given ELSE OneWidth(g[e - 1], e)
      <4>1. CASE e = 0
        BY <1>5, <4>1
      <4>2. CASE e # 0
        <5>1. e \in 1 .. last
          BY <4>2
        <5> QED   BY <1>6, <4>2, <5>1
      <4> QED   BY <4>1, <4>2
    <3> QED   BY <3>1
  <2> QED   BY <1>5, <2>1
<1> HIDE DEF Def
<1>8. PICK sorted : sorted = CHOOSE f : Def(f)   OBVIOUS
<1>9. Def(sorted)
  BY <1>7, <1>8
<1>10. NetworkSort(given, last) = sorted[last]
  BY <1>8 DEF Def, NetworkSort
<1>11. sorted[0] = given /\ \A e \in 1 .. last : sorted[e] = OneWidth(sorted[e - 1], e)
  <2>1. \A e \in 0 .. last : sorted[e] = IF e = 0 THEN given ELSE OneWidth(sorted[e - 1], e)
    BY <1>9 DEF Def
  <2>2. 0 \in 0 .. last /\ \A e \in 1 .. last : e \in 0 .. last /\ e # 0   OBVIOUS
  <2> QED   BY <2>1, <2>2
<1>12. PICK T : T = {e \in 0 .. last : sorted[e] = g[e]}   OBVIOUS
<1>13. \A e \in 0 .. last : e \in T
  <2>1. 0 \in T
    BY <1>5, <1>11, <1>12
  <2>2. ASSUME NEW e \in 0 + 1 .. last, e - 1 \in T PROVE e \in T
    <3>1. e \in 1 .. last /\ e \in 0 .. last   OBVIOUS
    <3> QED   BY <1>6, <1>11, <1>12, <2>2, <3>1
  <2>3. 0 \in Int /\ last \in Int   OBVIOUS
  <2> QED   BY <2>1, <2>2, <2>3, Climb
<1>14. \A e \in 0 .. last : sorted[e] \in [0 .. size - 1 -> V]
  BY <1>1, <1>5, <1>12, <1>13
<1> QED   BY <1>10, <1>11, <1>14 DEF SortsTo

\* The network sorts, and loses and repeats no slot.
LEMMA NetworkSorts ==
  ASSUME NEW V, Keyed(V), NEW last \in 0 .. 8, NEW size, size = Power(last),
         NEW given \in [0 .. size - 1 -> V], NEW result, result = NetworkSort(given, last)
  PROVE  /\ Rearranged(result, given, size) /\ result \in [0 .. size - 1 -> V]
         /\ \A i, j \in 0 .. size - 1 : i < j => ~Precedes(result[j], result[i])
<1>1. SortsTo(result, given, last, size, V)
  BY NetworkIs
<1>2. PICK g : /\ g[0] = given /\ result = g[last]
               /\ \A e \in 0 .. last : g[e] \in [0 .. size - 1 -> V]
               /\ \A e \in 1 .. last : g[e] = OneWidth(g[e - 1], e)
  BY <1>1 DEF SortsTo
<1>3. 0 \in Int /\ last \in Int /\ last \in 0 .. last /\ 0 \in 0 .. last   OBVIOUS
<1>4. PICK T : T = {e \in 0 .. last : /\ Rearranged(g[e], given, size)
                                      /\ SortedBlocks(g[e], V, size, Power(e))}   OBVIOUS
<1>5. 0 \in T
  <2>1. Rearranged(g[0], given, size)
    BY <1>2, RearrangedSelf
  <2>2. Power(0) = 1
    BY PowerFacts
  <2>3. \A i, j \in 0 .. 1 - 1 : ~(i < j)   OBVIOUS
  <2>4. SortedBlocks(g[0], V, size, 1)
    BY <1>2, <2>3 DEF SortedBlocks
  <2> QED   BY <1>3, <1>4, <2>1, <2>2, <2>4
<1>6. ASSUME NEW e \in 0 + 1 .. last, e - 1 \in T PROVE e \in T
  <2>1. e \in 1 .. last /\ e \in 0 .. last /\ e - 1 \in 0 .. last   OBVIOUS
  <2>2. PICK z \in [0 .. size - 1 -> V] : z = g[e - 1]
    BY <1>2, <2>1
  <2>3. g[e] = OneWidth(z, e) /\ Rearranged(z, given, size) /\ SortedBlocks(z, V, size, Power(e - 1))
    BY <1>2, <1>4, <1>6, <2>1, <2>2
  <2>4. Rearranged(g[e], z, size) /\ SortedBlocks(g[e], V, size, Power(e))
    BY <2>1, <2>3, OneWidthSorts
  <2>5. Rearranged(g[e], given, size)
    BY <2>3, <2>4, RearrangedTwice
  <2> QED   BY <1>4, <2>1, <2>4, <2>5
<1>7. \A e \in 0 .. last : e \in T
  BY <1>3, <1>5, <1>6, Climb
<1>8. Rearranged(result, given, size) /\ SortedBlocks(result, V, size, size)
  BY <1>2, <1>3, <1>4, <1>7
<1>9. ASSUME NEW i \in 0 .. size - 1, NEW j \in 0 .. size - 1, i < j PROVE ~Precedes(result[j], result[i])
  <2>1. size \in Powers /\ size \in Nat
    BY PowerFacts
  <2>2. 0 \in 0 .. size - 1 /\ Starts(0, size) /\ Up(0, size)
    BY <1>9, <2>1 DEF Starts, Up, Powers
  <2>3. InOrder(Up(0, size), result[0 + i], result[0 + j])
    BY <1>8, <1>9, <2>2 DEF SortedBlocks
  <2>4. 0 + i = i /\ 0 + j = j
    BY <2>1
  <2> QED   BY <2>2, <2>3, <2>4 DEF InOrder
<1>10. result \in [0 .. size - 1 -> V]
  BY <1>2, <1>3
<1> QED   BY <1>8, <1>9, <1>10

-----------------------------------------------------------------------------
(* Slots that hold the first of a set. *)

LEMMA SortedHolds ==
  ASSUME NEW V, Keyed(V), NEW last \in 0 .. 8, NEW size, size = Power(last),
         NEW given \in [0 .. size - 1 -> V], NEW result, result = NetworkSort(given, last),
         NEW S, S \subseteq V, NEW R, R = KeyOrder(V), StrictTotal(S, R),
         NEW blank \in V, \A x \in S : Precedes(x, blank), Spread(given, size, S, blank),
         NEW k \in 0 .. size
  PROVE  HoldsFirsts(result, S, R, k, blank)
<1>1. size \in Nat /\ size > 0
  <2>1. size \in Powers
    BY PowerFacts
  <2> QED   BY <2>1 DEF Powers
<1>2. /\ result \in [0 .. size - 1 -> V]
      /\ \A i, j \in 0 .. size - 1 : i < j => ~Precedes(result[j], result[i])
      /\ Rearranged(result, given, size)
  BY NetworkSorts
<1>3. PICK f \in [0 .. size - 1 -> 0 .. size - 1] :
        /\ \A i, j \in 0 .. size - 1 : f[i] = f[j] => i = j
        /\ \A j \in 0 .. size - 1 : \E i \in 0 .. size - 1 : f[i] = j
        /\ \A i \in 0 .. size - 1 : result[i] = given[f[i]]
  BY <1>2 DEF Rearranged
<1>4. blank \notin S
  BY PrecedesFacts
<1>5. \A i \in 0 .. size - 1 : result[i] \in S \/ result[i] = blank
  <2>1. ASSUME NEW i \in 0 .. size - 1 PROVE result[i] \in S \/ result[i] = blank
    <3>1. f[i] \in 0 .. size - 1 /\ result[i] = given[f[i]]
      BY <1>3
    <3> QED   BY <3>1 DEF Spread
  <2> QED   BY <2>1
<1>6. \A x \in S : \E i \in 0 .. size - 1 : result[i] = x
  <2>1. ASSUME NEW x \in S PROVE \E i \in 0 .. size - 1 : result[i] = x
    <3>1. PICK j \in 0 .. size - 1 : given[j] = x
      BY DEF Spread
    <3>2. PICK i \in 0 .. size - 1 : f[i] = j
      BY <1>3
    <3> QED   BY <1>3, <3>1, <3>2
  <2> QED   BY <2>1
<1>7. ASSUME NEW i \in 0 .. size - 1, NEW j \in 0 .. size - 1, result[i] = result[j], result[i] \in S PROVE i = j
  <2>1. f[i] \in 0 .. size - 1 /\ f[j] \in 0 .. size - 1 /\ given[f[i]] = given[f[j]] /\ given[f[i]] \in S
    BY <1>3, <1>7
  <2>2. f[i] = f[j]
    BY <2>1 DEF Spread
  <2> QED   BY <1>3, <2>2
<1>8. ASSUME NEW i \in 0 .. size - 1, NEW j \in 0 .. size - 1, i < j, result[i] \in S, result[j] \in S
      PROVE  <<result[i], result[j]>> \in R
  <2>1. result[i] # result[j]
    BY <1>7, <1>8
  <2>2. <<result[i], result[j]>> \in R \/ <<result[j], result[i]>> \in R
    BY <1>8, <2>1 DEF StrictTotal
  <2>3. ~Precedes(result[j], result[i])
    BY <1>2, <1>8
  <2> QED   BY <2>2, <2>3 DEF KeyOrder
<1>9. PICK B : B = {t \in 0 .. k : t = k \/ result[t] = blank}   OBVIOUS
<1>10. k \in B /\ B \subseteq Nat
  BY <1>9
<1>11. PICK m \in B : \A t \in B : m <= t
  BY <1>10, LeastNat
<1>12. m \in 0 .. k /\ k \in Nat /\ (m = k \/ (m < k /\ result[m] = blank))
  BY <1>9, <1>11
<1>13. \A t \in 0 .. m - 1 : t \in 0 .. size - 1 /\ result[t] \in S
  <2>1. ASSUME NEW t \in 0 .. m - 1 PROVE t \in 0 .. size - 1 /\ result[t] \in S
    <3>1. t \in 0 .. size - 1 /\ t \in 0 .. k /\ t # k
      BY <1>1, <1>12
    <3>2. t \notin B
      BY <1>11, <1>12
    <3> QED   BY <1>5, <1>9, <3>1, <3>2
  <2> QED   BY <2>1
<1>14. ASSUME m < k, NEW t \in m .. size - 1 PROVE result[t] = blank
  <2>1. m \in 0 .. size - 1 /\ t \in 0 .. size - 1 /\ result[m] = blank
    BY <1>1, <1>12, <1>14
  <2>2. CASE t = m
    BY <2>1, <2>2
  <2>3. CASE t # m
    <3>1. ~Precedes(result[t], result[m])
      BY <1>2, <1>12, <2>1, <2>3
    <3> QED   BY <1>5, <2>1, <3>1
  <2> QED   BY <2>2, <2>3
<1>15. PICK z : z = [t \in 1 .. m |-> result[t - 1]]   OBVIOUS
<1>16. \A t \in 1 .. m : t - 1 \in 0 .. m - 1 /\ z[t] = result[t - 1]
  BY <1>12, <1>15
<1>17. z \in [1 .. m -> S]
  BY <1>13, <1>15, <1>16
<1>18. \A t, u \in 1 .. m : t < u => <<z[t], z[u]>> \in R
  <2>1. ASSUME NEW t \in 1 .. m, NEW u \in 1 .. m, t < u PROVE <<z[t], z[u]>> \in R
    <3>1. t - 1 \in 0 .. m - 1 /\ u - 1 \in 0 .. m - 1 /\ t - 1 < u - 1
      BY <1>12, <2>1
    <3> QED   BY <1>8, <1>13, <1>16, <3>1
  <2> QED   BY <2>1
<1>19. ASSUME NEW s \in S
       PROVE  \/ \E t \in 1 .. m : z[t] = s
              \/ m = k /\ \A t \in 1 .. m : <<z[t], s>> \in R
  <2>1. PICK i \in 0 .. size - 1 : result[i] = s
    BY <1>6
  <2>2. CASE i < m
    <3>1. i + 1 \in 1 .. m /\ (i + 1) - 1 = i
      BY <1>12, <2>2
    <3> QED   BY <1>16, <2>1, <3>1
  <2>3. CASE i >= m
    <3>1. m = k
      <4>1. ASSUME m < k PROVE FALSE
        <5>1. i \in m .. size - 1
          BY <1>1, <1>12, <2>3
        <5> QED   BY <1>4, <1>14, <2>1, <4>1, <5>1
      <4> QED   BY <1>12, <4>1
    <3>2. ASSUME NEW t \in 1 .. m PROVE <<z[t], s>> \in R
      <4>1. t - 1 \in 0 .. m - 1 /\ t - 1 < i
        BY <1>12, <2>3
      <4> QED   BY <1>8, <1>13, <1>16, <2>1, <4>1
    <3> QED   BY <3>1, <3>2
  <2> QED   BY <1>12, <2>2, <2>3
<1>20. Firsts(z, m, S, R, k)
  BY <1>12, <1>17, <1>18, <1>19 DEF Firsts
<1>21. \A t \in m .. k - 1 : result[t] = blank
  <2>1. ASSUME NEW t \in m .. k - 1 PROVE result[t] = blank
    <3>1. m < k /\ t \in m .. size - 1
      BY <1>1, <1>12
    <3> QED   BY <1>14, <3>1
  <2> QED   BY <2>1
<1> QED   BY <1>12, <1>15, <1>20, <1>21 DEF HoldsFirsts

-----------------------------------------------------------------------------
(* Sorting what a group holds together with what comes in. *)

\* The first k of S are enough to know the first k of S and X.
LEMMA FirstsMerge ==
  ASSUME NEW S, NEW X, NEW R, StrictTotal(S \cup X, R), NEW k \in Nat,
         NEW l, NEW y, Firsts(y, l, S, R, k), NEW T, T = Image(y, l) \cup X,
         NEW m, NEW z, Firsts(z, m, T, R, k)
  PROVE  Firsts(z, m, S \cup X, R, k)
<1>1. PICK W : W = S \cup X   OBVIOUS
<1>2. /\ l \in 0 .. k /\ y \in [1 .. l -> S]
      /\ \A s \in S : \/ \E t \in 1 .. l : y[t] = s
                      \/ l = k /\ \A t \in 1 .. l : <<y[t], s>> \in R
  BY DEF Firsts
<1>3. /\ m \in 0 .. k /\ z \in [1 .. m -> T] /\ m \in Nat
      /\ \A t, u \in 1 .. m : t < u => <<z[t], z[u]>> \in R
      /\ \A s \in T : \/ \E t \in 1 .. m : z[t] = s
                      \/ m = k /\ \A t \in 1 .. m : <<z[t], s>> \in R
  BY DEF Firsts
<1>4. Image(y, l) \subseteq S /\ T \subseteq W
  BY <1>1, <1>2 DEF Image
<1>5. StrictTotal(S, R) /\ StrictTotal(T, R) /\ StrictTotal(W, R)
  BY <1>1, <1>4 DEF StrictTotal
<1>6. IsFiniteSet(Image(y, l)) /\ Cardinality(Image(y, l)) = l
  BY <1>5, FirstsImage
<1>7. \A t, u \in 1 .. m : z[t] = z[u] => t = u
  <2>1. SUFFICES ASSUME NEW t \in 1 .. m, NEW u \in 1 .. m, z[t] = z[u], t # u PROVE FALSE   OBVIOUS
  <2>2. t < u \/ u < t
    BY <2>1
  <2>3. <<z[t], z[u]>> \in R \/ <<z[u], z[t]>> \in R
    BY <1>3, <2>2
  <2>4. z[t] \in T
    BY <1>3
  <2> QED   BY <1>5, <2>1, <2>3, <2>4 DEF StrictTotal
<1>8. ASSUME NEW o \in 0 .. m, Image(y, l) \subseteq Image(z, o) PROVE l <= o
  <2>1. o \in Nat /\ \A t \in 1 .. o : t \in 1 .. m
    BY <1>3
  <2>2. IsFiniteSet(Image(z, o)) /\ Cardinality(Image(z, o)) = o
    BY <1>7, <2>1, ImageSize
  <2>3. Cardinality(Image(y, l)) <= Cardinality(Image(z, o))
    BY <1>8, <2>2, FS_Subset
  <2> QED   BY <1>6, <2>2, <2>3
<1>9. ASSUME NEW s \in S \cup X
      PROVE  \/ \E t \in 1 .. m : z[t] = s
             \/ m = k /\ \A t \in 1 .. m : <<z[t], s>> \in R
  <2>1. CASE s \in T
    BY <1>3, <2>1
  <2>2. CASE s \notin T
    <3>1. s \in S /\ s \in W /\ ~ \E t \in 1 .. l : y[t] = s
      BY <1>1, <2>2 DEF Image
    <3>2. l = k /\ \A t \in 1 .. l : <<y[t], s>> \in R
      BY <1>2, <3>1
    <3>3. m = k
      <4>1. SUFFICES ASSUME m # k PROVE FALSE   OBVIOUS
      <4>2. \A x \in T : \E t \in 1 .. m : z[t] = x
        BY <1>3, <4>1
      <4>3. Image(y, l) \subseteq Image(z, m) /\ m \in 0 .. m
        BY <1>3, <4>2 DEF Image
      <4> QED   BY <1>2, <1>3, <1>8, <3>2, <4>1, <4>3
    <3>4. ASSUME NEW t \in 1 .. m PROVE <<z[t], s>> \in R
      <4>1. SUFFICES ASSUME <<z[t], s>> \notin R PROVE FALSE   OBVIOUS
      <4>2. z[t] \in T /\ z[t] \in W /\ z[t] # s
        BY <1>3, <1>4, <2>2
      <4>3. <<s, z[t]>> \in R
        BY <1>5, <3>1, <4>1, <4>2 DEF StrictTotal
      <4>4. \A u \in 1 .. l : y[u] \in S /\ y[u] \in W /\ y[u] \in T
        BY <1>1, <1>2 DEF Image
      <4>5. ASSUME NEW u \in 1 .. l PROVE \E v \in 1 .. t - 1 : z[v] = y[u]
        <5>1. <<y[u], s>> \in R /\ y[u] \in W /\ y[u] \in T
          BY <3>2, <4>4
        <5>2. <<y[u], z[t]>> \in R
          BY <1>5, <3>1, <4>2, <4>3, <5>1 DEF StrictTotal
        <5>3. ~ (<<z[t], y[u]>> \in R) /\ z[t] # y[u]
          BY <1>5, <4>2, <5>1, <5>2 DEF StrictTotal
        <5>4. PICK v \in 1 .. m : z[v] = y[u]
          BY <1>3, <5>1, <5>3
        <5>5. ~(t < v) /\ t # v
          BY <1>3, <5>3, <5>4
        <5>6. v \in 1 .. t - 1
          BY <1>3, <5>5
        <5> QED   BY <5>4, <5>6
      <4>6. Image(y, l) \subseteq Image(z, t - 1)
        BY <4>5 DEF Image
      <4>7. t - 1 \in 0 .. m /\ t - 1 < m
        BY <1>3
      <4>8. l <= t - 1
        BY <1>8, <4>6, <4>7
      <4> QED   BY <1>2, <1>3, <3>2, <3>3, <4>7, <4>8
    <3> QED   BY <3>3, <3>4
  <2> QED   BY <2>1, <2>2
<1>10. z \in [1 .. m -> S \cup X]
  BY <1>1, <1>3, <1>4
<1> QED   BY <1>3, <1>9, <1>10 DEF Firsts

LEMMA HeldIs ==
  ASSUME NEW S, NEW R, StrictTotal(S, R), NEW k \in Nat, NEW blank, blank \notin S, NEW given,
         HoldsFirsts(given, S, R, k, blank)
  PROVE  \E m \in 0 .. k : \E y :
           /\ y = [t \in 1 .. m |-> given[t - 1]] /\ Firsts(y, m, S, R, k)
           /\ Held(given, k, blank) = Image(y, m)
           /\ \A t \in m .. k - 1 : given[t] = blank
<1>1. PICK m \in 0 .. k : /\ Firsts([t \in 1 .. m |-> given[t - 1]], m, S, R, k)
                          /\ \A t \in m .. k - 1 : given[t] = blank
  BY DEF HoldsFirsts
<1>2. PICK y : y = [t \in 1 .. m |-> given[t - 1]]   OBVIOUS
<1>3. Firsts(y, m, S, R, k) /\ m \in Nat
  BY <1>1, <1>2
<1>4. \A t \in 1 .. m : y[t] \in S /\ y[t] = given[t - 1]
  BY <1>2, <1>3 DEF Firsts
<1>5. ASSUME NEW t \in 0 .. k - 1, given[t] # blank PROVE given[t] \in Image(y, m)
  <2>1. t \notin m .. k - 1
    BY <1>1, <1>5
  <2>2. t + 1 \in 1 .. m /\ (t + 1) - 1 = t
    BY <1>3, <2>1
  <2>3. y[t + 1] = given[t]
    BY <1>4, <2>2
  <2> QED   BY <2>2, <2>3 DEF Image
<1>6. ASSUME NEW t \in 1 .. m PROVE y[t] \in Held(given, k, blank)
  <2>1. t - 1 \in 0 .. k - 1
    BY <1>3
  <2> QED   BY <1>4, <2>1 DEF Held
<1>7. Held(given, k, blank) = Image(y, m)
  BY <1>5, <1>6 DEF Held, Image
<1> QED   BY <1>1, <1>2, <1>3, <1>7

LEMMA HeldFacts ==
  ASSUME NEW S, NEW R, StrictTotal(S, R), NEW k \in Nat, NEW blank, blank \notin S, NEW given,
         HoldsFirsts(given, S, R, k, blank)
  PROVE  /\ Held(given, k, blank) \subseteq S
         /\ Spread(given, k, Held(given, k, blank), blank)
<1>1. PICK m, y :
        /\ m \in 0 .. k /\ y = [t \in 1 .. m |-> given[t - 1]] /\ Firsts(y, m, S, R, k)
        /\ Held(given, k, blank) = Image(y, m)
        /\ \A t \in m .. k - 1 : given[t] = blank
  BY HeldIs
<1>2. m \in Nat /\ y \in [1 .. m -> S] /\ \A t, u \in 1 .. m : t < u => <<y[t], y[u]>> \in R
  BY <1>1 DEF Firsts
<1>3. Held(given, k, blank) \subseteq S
  BY <1>1, <1>2 DEF Image
<1>4. ASSUME NEW t \in 0 .. k - 1, given[t] # blank PROVE t + 1 \in 1 .. m /\ given[t] = y[t + 1]
  <2>1. t \notin m .. k - 1
    BY <1>1, <1>4
  <2>2. t + 1 \in 1 .. m /\ (t + 1) - 1 = t
    BY <1>2, <2>1
  <2> QED   BY <1>1, <2>2
<1>5. ASSUME NEW t \in 0 .. k - 1, NEW u \in 0 .. k - 1, given[t] = given[u], given[t] # blank
      PROVE  t = u
  <2>1. t + 1 \in 1 .. m /\ u + 1 \in 1 .. m /\ y[t + 1] = y[u + 1] /\ y[t + 1] \in S
    BY <1>2, <1>4, <1>5
  <2>2. ~(t + 1 < u + 1) /\ ~(u + 1 < t + 1)
    <3>1. ~(<<y[t + 1], y[u + 1]>> \in R) /\ ~(<<y[u + 1], y[t + 1]>> \in R)
      BY <2>1 DEF StrictTotal
    <3> QED   BY <1>2, <2>1, <3>1
  <2> QED   BY <1>5, <2>2
<1>6. blank \notin Held(given, k, blank)
  BY DEF Held
<1> QED   BY <1>3, <1>5, <1>6 DEF Spread, Held

\* Slots sorted with the first k of S alone are sorted with S.
LEMMA HoldsMerge ==
  ASSUME NEW S, NEW X, NEW R, StrictTotal(S \cup X, R), NEW k \in Nat, NEW blank, blank \notin S,
         NEW held, HoldsFirsts(held, S, R, k, blank),
         NEW result, HoldsFirsts(result, Held(held, k, blank) \cup X, R, k, blank)
  PROVE  HoldsFirsts(result, S \cup X, R, k, blank)
<1>1. StrictTotal(S, R)
  BY DEF StrictTotal
<1>2. PICK l, y :
        /\ l \in 0 .. k /\ y = [t \in 1 .. l |-> held[t - 1]] /\ Firsts(y, l, S, R, k)
        /\ Held(held, k, blank) = Image(y, l)
  BY <1>1, HeldIs
<1>3. PICK T : T = Image(y, l) \cup X   OBVIOUS
<1>4. PICK m \in 0 .. k : /\ Firsts([t \in 1 .. m |-> result[t - 1]], m, T, R, k)
                          /\ \A t \in m .. k - 1 : result[t] = blank
  BY <1>2, <1>3 DEF HoldsFirsts
<1>5. Firsts([t \in 1 .. m |-> result[t - 1]], m, S \cup X, R, k)
  BY <1>2, <1>3, <1>4, FirstsMerge
<1> QED   BY <1>4, <1>5 DEF HoldsFirsts

LEMMA TurnHolds ==
  ASSUME NEW V, Keyed(V), NEW last \in 1 .. 8, NEW g \in Nat, 2 * g = Power(last),
         NEW k \in Nat, k <= g, NEW blank \in V, NEW S, NEW X, S \cup X \subseteq V,
         NEW R, R = KeyOrder(V), StrictTotal(S \cup X, R), \A x \in S \cup X : Precedes(x, blank),
         S \cap X = {}, NEW held, HoldsFirsts(held, S, R, k, blank),
         NEW incoming, Spread(incoming, g, X, blank),
         NEW result, result = TurnOf(held, incoming, g, k, blank, last)
  PROVE  HoldsFirsts(result, S \cup X, R, k, blank)
<1>1. PICK size \in Nat : size = 2 * g   OBVIOUS
<1>2. PICK given : given = [slot \in 0 .. size - 1 |->
                              IF slot < k THEN held[slot]
                              ELSE IF slot < k + g THEN incoming[slot - k] ELSE blank]   OBVIOUS
<1>3. result = NetworkSort(given, last) /\ size = Power(last) /\ last \in 0 .. 8
  BY <1>1, <1>2 DEF TurnOf
<1>4. blank \notin S /\ blank \notin X
  BY PrecedesFacts
<1>5. StrictTotal(S, R)
  BY DEF StrictTotal
<1>6. PICK H : H = Held(held, k, blank)   OBVIOUS
<1>7. H \subseteq S /\ Spread(held, k, H, blank)
  BY <1>4, <1>5, <1>6, HeldFacts
<1>8. PICK W : W = H \cup X   OBVIOUS
<1>9. W \subseteq S \cup X /\ W \subseteq V /\ blank \notin W /\ H \cap X = {}
  BY <1>4, <1>7, <1>8
<1>10. StrictTotal(W, R) /\ \A x \in W : Precedes(x, blank)
  BY <1>9 DEF StrictTotal
<1>11. ASSUME NEW i \in 0 .. size - 1
       PROVE  /\ i < k => i \in 0 .. k - 1 /\ given[i] = held[i]
              /\ i >= k /\ i < k + g => i - k \in 0 .. g - 1 /\ given[i] = incoming[i - k]
              /\ i >= k + g => given[i] = blank
  BY <1>1, <1>2
<1>12. \A i \in 0 .. k - 1 : held[i] \in H \/ held[i] = blank
  BY <1>7 DEF Spread
<1>13. \A i \in 0 .. g - 1 : incoming[i] \in X \/ incoming[i] = blank
  BY DEF Spread
<1>14. ASSUME NEW i \in 0 .. size - 1
       PROVE  /\ given[i] \in H \/ given[i] \in X \/ given[i] = blank
              /\ given[i] \in H => i < k
              /\ given[i] \in X => i >= k /\ i < k + g
  BY <1>4, <1>9, <1>7, <1>11, <1>12, <1>13
<1>15. Spread(given, size, W, blank)
  <2>1. \A i \in 0 .. size - 1 : given[i] \in W \/ given[i] = blank
    BY <1>8, <1>14
  <2>2. ASSUME NEW x \in W PROVE \E i \in 0 .. size - 1 : given[i] = x
    <3>1. CASE x \in H
      <4>1. PICK i \in 0 .. k - 1 : held[i] = x
        BY <1>7, <3>1 DEF Spread
      <4>2. i \in 0 .. size - 1 /\ i < k
        BY <1>1
      <4> QED   BY <1>11, <4>1, <4>2
    <3>2. CASE x \in X
      <4>1. PICK i \in 0 .. g - 1 : incoming[i] = x
        BY <3>2 DEF Spread
      <4>2. i + k \in 0 .. size - 1 /\ i + k >= k /\ i + k < k + g /\ (i + k) - k = i
        BY <1>1
      <4> QED   BY <1>11, <4>1, <4>2
    <3> QED   BY <1>8, <3>1, <3>2
  <2>3. ASSUME NEW i \in 0 .. size - 1, NEW j \in 0 .. size - 1, given[i] = given[j], given[i] \in W
        PROVE  i = j
    <3>1. CASE given[i] \in H
      <4>1. i \in 0 .. k - 1 /\ j \in 0 .. k - 1 /\ held[i] = held[j] /\ held[i] \in H
        BY <1>11, <1>14, <2>3, <3>1
      <4> QED   BY <1>7, <4>1 DEF Spread
    <3>2. CASE given[i] \in X
      <4>1. i >= k /\ i < k + g /\ j >= k /\ j < k + g
        BY <1>14, <2>3, <3>2
      <4>2. /\ i - k \in 0 .. g - 1 /\ j - k \in 0 .. g - 1
            /\ incoming[i - k] = incoming[j - k] /\ incoming[i - k] \in X
        BY <1>11, <2>3, <3>2, <4>1
      <4>3. i - k = j - k
        BY <4>2 DEF Spread
      <4> QED   BY <4>3
    <3> QED   BY <1>8, <2>3, <3>1, <3>2
  <2> QED   BY <2>1, <2>2, <2>3 DEF Spread
<1>16. given \in [0 .. size - 1 -> V]
  BY <1>2, <1>8, <1>9, <1>14
<1>17. k \in 0 .. size
  BY <1>1
<1>18. HoldsFirsts(result, W, R, k, blank)
  BY <1>3, <1>9, <1>10, <1>15, <1>16, <1>17, SortedHolds
<1> QED   BY <1>4, <1>6, <1>8, <1>18, HoldsMerge

-----------------------------------------------------------------------------
(* The rows of the tasks. *)

LEMMA SlotFacts ==
  /\ Keyed(ScanSlots) /\ Blank \in ScanSlots /\ Infinite \in Int
  /\ Blank.key[1] = Infinite /\ Blank.key[2] = Infinite /\ Blank.position = -1
BY DEF Keyed, ScanSlots, Blank, Infinite

LEMMA CallFacts ==
  ASSUME scan \in Scans
  PROVE  /\ scan.nq \in Nat \ {0} /\ scan.krefine \in Nat \ {0} /\ scan.group \in Nat \ {0}
         /\ Widest \in 1 .. 8 /\ 2 * scan.group = Power(Widest)
         /\ Len(scan.tasks) \in Nat /\ Len(scan.rows) \in Nat
<1>1. /\ scan.nq \in Nat \ {0} /\ scan.krefine \in Nat \ {0}
      /\ scan.tasks \in Seq(ToSet(scan.tasks)) /\ scan.rows \in Seq(ToSet(scan.rows))
  BY ScanAssumption DEF ScanAssumption
<1>2. PICK e \in 0 .. 7 : scan.group = Power(e)
  BY ScanAssumption DEF ScanAssumption
<1>3. e \in 0 .. 8 /\ e + 1 \in 1 .. 8 /\ e + 1 \in 0 .. 8 /\ (e + 1) - 1 = e /\ e + 1 > 0   OBVIOUS
<1>4. Power(e + 1) = 2 * scan.group
  BY <1>2, <1>3, PowerFacts
<1>5. scan.group \in Powers
  BY <1>2, <1>3, PowerFacts
<1>6. Widest \in 1 .. 8 /\ Power(Widest) = 2 * scan.group
  BY <1>3, <1>4 DEF Widest
<1>7. scan.group \in Nat \ {0}
  BY <1>5 DEF Powers
<1> QED   BY <1>1, <1>6, <1>7

LEMMA TaskFacts ==
  ASSUME ScanValid, NEW i \in 1 .. Len(scan.tasks)
  PROVE  /\ scan.tasks[i].query_index \in 0 .. scan.nq - 1
         /\ scan.tasks[i].query_dense_offset \in Int
         /\ scan.tasks[i].list_begin \in Nat /\ scan.tasks[i].list_count \in Nat \ {0}
         /\ scan.tasks[i].list_begin + scan.tasks[i].list_count <= Len(scan.rows)
         /\ scan.tasks[i] \in ToSet(scan.tasks)
<1>1. scan \in Scans /\ valid_tasks
  BY DEF ScanValid
<1>2. scan.tasks \in Seq(ToSet(scan.tasks))
  BY <1>1, ScanAssumption DEF ScanAssumption
<1>3. scan.tasks[i] \in ToSet(scan.tasks)
  BY <1>2
<1>4. /\ scan.tasks[i].query_dense_offset \in Int
      /\ scan.tasks[i].list_begin \in Int /\ scan.tasks[i].list_count \in Int
  BY <1>1, <1>3, ScanAssumption DEF ScanAssumption
<1>5. /\ scan.tasks[i].query_index \in 0 .. scan.nq - 1
      /\ scan.tasks[i].list_begin >= 0 /\ scan.tasks[i].list_count > 0
      /\ scan.tasks[i].list_begin + scan.tasks[i].list_count <= Len(scan.rows)
  BY <1>1 DEF valid_tasks
<1> QED   BY <1>3, <1>4, <1>5

\* The tasks of a query follow one another, and so do the ordinals of their rows.
LEMMA QueriesRise ==
  ASSUME ScanValid, NEW i \in 1 .. Len(scan.tasks), NEW j \in i .. Len(scan.tasks)
  PROVE  scan.tasks[i].query_index <= scan.tasks[j].query_index
<1>1. scan \in Scans /\ valid_tasks
  BY DEF ScanValid
<1>2. PICK total \in Nat : total = Len(scan.tasks)
  BY <1>1, CallFacts
<1>3. PICK T : T = {l \in i .. total : scan.tasks[i].query_index <= scan.tasks[l].query_index}
  OBVIOUS
<1>4. \A l \in 1 .. total : scan.tasks[l].query_index \in Int
  <2>1. ASSUME NEW l \in 1 .. total PROVE scan.tasks[l].query_index \in Int
    <3>1. scan.tasks[l].query_index \in 0 .. scan.nq - 1
      BY <1>2, TaskFacts
    <3> QED   BY <3>1
  <2> QED   BY <2>1
<1>5. i \in Int /\ total \in Int /\ i \in 1 .. total /\ i \in T
  BY <1>2, <1>3, <1>4
<1>6. ASSUME NEW l \in i + 1 .. total, l - 1 \in T PROVE l \in T
  <2>1. l - 1 \in 1 .. total - 1 /\ l \in i .. total /\ l \in 1 .. total /\ l - 1 \in 1 .. total /\ (l - 1) + 1 = l
    BY <1>5
  <2>2. scan.tasks[l - 1].query_index <= scan.tasks[l].query_index
    <3>1. \A m \in 1 .. total - 1 : scan.tasks[m].query_index <= scan.tasks[m + 1].query_index
      BY <1>1, <1>2 DEF valid_tasks
    <3>2. PICK m \in 1 .. total - 1 : m = l - 1
      BY <2>1
    <3>3. m + 1 = l
      BY <2>1, <3>2
    <3> QED   BY <3>1, <3>2, <3>3
  <2>3. scan.tasks[i].query_index <= scan.tasks[l - 1].query_index
    BY <1>3, <1>6
  <2>4. scan.tasks[i].query_index <= scan.tasks[l].query_index
    <3>1. /\ scan.tasks[i].query_index \in Int /\ scan.tasks[l].query_index \in Int
          /\ scan.tasks[l - 1].query_index \in Int
      BY <1>4, <1>5, <2>1
    <3> QED   BY <2>2, <2>3, <3>1
  <2> QED   BY <1>3, <2>1, <2>4
<1>7. \A l \in i .. total : l \in T
  BY <1>5, <1>6, Climb
<1> QED   BY <1>2, <1>3, <1>7

LEMMA OffsetsRise ==
  ASSUME ScanValid, NEW i \in 1 .. Len(scan.tasks), NEW j \in i + 1 .. Len(scan.tasks),
         scan.tasks[i].query_index = scan.tasks[j].query_index
  PROVE  scan.tasks[i].query_dense_offset + scan.tasks[i].list_count
           <= scan.tasks[j].query_dense_offset
<1>1. scan \in Scans /\ valid_tasks
  BY DEF ScanValid
<1>2. PICK total \in Nat : total = Len(scan.tasks)
  BY <1>1, CallFacts
<1>3. PICK q, o, c : q = [l \in 1 .. total |-> scan.tasks[l].query_index]
                     /\ o = [l \in 1 .. total |-> scan.tasks[l].query_dense_offset]
                     /\ c = [l \in 1 .. total |-> scan.tasks[l].list_count]   OBVIOUS
<1>4. ASSUME NEW l \in 1 .. total
      PROVE  /\ q[l] \in Int /\ o[l] \in Int /\ c[l] \in Nat
             /\ q[l] = scan.tasks[l].query_index /\ o[l] = scan.tasks[l].query_dense_offset
             /\ c[l] = scan.tasks[l].list_count
  <2>1. /\ scan.tasks[l].query_index \in 0 .. scan.nq - 1
        /\ scan.tasks[l].query_dense_offset \in Int
        /\ scan.tasks[l].list_count \in Nat \ {0}
    BY <1>2, TaskFacts
  <2>2. scan.tasks[l].query_index \in Int
    BY <2>1
  <2> QED   BY <1>3, <2>1, <2>2
<1>5. ASSUME NEW l \in 2 .. total, q[l - 1] = q[l] PROVE o[l] = o[l - 1] + c[l - 1]
  <2>1. l \in 1 .. total /\ l - 1 \in 1 .. total /\ l > 1   OBVIOUS
  <2>2. scan.tasks[l - 1].query_index = scan.tasks[l].query_index
    BY <1>4, <1>5, <2>1
  <2>3. scan.tasks[l].query_dense_offset
          = scan.tasks[l - 1].query_dense_offset + scan.tasks[l - 1].list_count
    BY <1>1, <1>2, <2>1, <2>2 DEF valid_tasks
  <2> QED   BY <1>4, <2>1, <2>3
<1>6. ASSUME NEW a \in 1 .. total, NEW b \in a .. total PROVE q[a] <= q[b]
  <2>1. b \in 1 .. total   OBVIOUS
  <2> QED   BY <1>2, <1>4, <2>1, QueriesRise
<1>7. PICK T : T = {l \in i + 1 .. total : q[l] = q[i] => o[i] + c[i] <= o[l]}   OBVIOUS
<1>8. i \in 1 .. total /\ j \in 1 .. total /\ i + 1 \in Int /\ total \in Int /\ i + 1 \in i + 1 .. total
      /\ i + 1 \in 2 .. total /\ (i + 1) - 1 = i
  BY <1>2
<1>9. i + 1 \in T
  <2>1. q[i] = q[i + 1] => o[i + 1] = o[i] + c[i]
    BY <1>5, <1>8
  <2>2. o[i] + c[i] \in Int
    BY <1>4, <1>8
  <2> QED   BY <1>7, <1>8, <2>1, <2>2
<1>10. ASSUME NEW l \in (i + 1) + 1 .. total, l - 1 \in T PROVE l \in T
  <2>1. /\ l \in i + 1 .. total /\ l \in 2 .. total /\ l - 1 \in i + 1 .. total /\ l - 1 \in i .. total
        /\ l \in l - 1 .. total /\ l \in 1 .. total /\ l - 1 \in 1 .. total
    BY <1>8
  <2>2. ASSUME q[l] = q[i] PROVE o[i] + c[i] <= o[l]
    <3>1. q[i] <= q[l - 1] /\ q[l - 1] <= q[l]
      BY <1>6, <1>8, <2>1
    <3>2. q[l - 1] = q[l] /\ q[l - 1] = q[i]
      BY <1>4, <1>8, <2>1, <2>2, <3>1
    <3>3. o[l] = o[l - 1] + c[l - 1]
      BY <1>5, <2>1, <3>2
    <3>4. o[i] + c[i] <= o[l - 1]
      BY <1>7, <1>10, <3>2
    <3> QED   BY <1>4, <1>8, <2>1, <3>3, <3>4
  <2> QED   BY <1>7, <2>1, <2>2
<1>11. \A l \in i + 1 .. total : l \in T
  BY <1>8, <1>9, <1>10, Climb
<1>12. o[i] + c[i] <= o[j]
  BY <1>2, <1>4, <1>7, <1>8, <1>11
<1> QED   BY <1>4, <1>8, <1>12

\* A score is a number.
LEMMA ScoreIsInt ==
  ASSUME ScanValid, NEW i \in 1 .. Len(scan.tasks), NEW position \in 0 .. Len(scan.rows) - 1,
         code_valid(scan.tasks[i], position)
  PROVE  candidate_score(scan.tasks[i], position) \in Int
<1>1. PICK task : task = scan.tasks[i]   OBVIOUS
<1>2. PICK codes : codes = Row(position).codes   OBVIOUS
<1>3. scan \in Scans /\ task \in ToSet(scan.tasks)
  BY <1>1, TaskFacts DEF ScanValid
<1>4. Row(position) \in ToSet(scan.rows)
  <2>1. scan.rows \in Seq(ToSet(scan.rows)) /\ position + 1 \in 1 .. Len(scan.rows)
    BY SMTT(30), <1>3, CallFacts, ScanAssumption DEF ScanAssumption
  <2> QED   BY <2>1 DEF Row
<1>5. codes \in Seq(Int) /\ DOMAIN codes = DOMAIN task.lut
  BY <1>2, <1>3, <1>4, ScanAssumption DEF ScanAssumption
<1>6. PICK len \in Nat : len = Len(codes) /\ DOMAIN codes = 1 .. len
  BY <1>5
<1>7. ASSUME NEW w \in 1 .. len PROVE task.lut[w][codes[w]] \in Int
  <2>1. codes[w] \in DOMAIN task.lut[w]
    BY <1>1, <1>2, <1>6 DEF code_valid
  <2> QED   BY <1>3, <1>5, <1>6, <2>1, ScanAssumption DEF ScanAssumption
<1>8. PICK d : d = [w \in 1 .. len |-> task.lut[w][codes[w]]]   OBVIOUS
<1>9. d \in [1 .. len -> Int]
  BY <1>7, <1>8
<1>10. PICK J, G : J = 0 + 1 .. len /\ G = [w \in J |-> [x \in Int |-> x + d[w]]]   OBVIOUS
<1>11. J = 1 .. len
  BY <1>10
<1>12. G \in [J -> [Int -> Int]]
  <2>1. ASSUME NEW w \in J, NEW x \in Int PROVE x + d[w] \in Int
    BY <1>9, <1>11
  <2> QED   BY <1>10, <2>1
<1>13. Steps(0, len, Int, 0, J, G)
  <2>1. 0 \in Int /\ len \in Int /\ 0 <= len   OBVIOUS
  <2> QED   BY <1>10, <1>12, <2>1, Recursion
<1>14. PICK f \in [0 .. len -> Int] : f[0] = 0 /\ \A w \in J : f[w] = G[w][f[w - 1]]
  BY <1>13 DEF Steps
<1>15. ASSUME NEW w \in 0 .. len
       PROVE  f[w] = IF w = 0 THEN 0 ELSE f[w - 1] + task.lut[w][codes[w]]
  <2>1. CASE w = 0
    BY <1>14, <2>1
  <2>2. CASE w # 0
    <3>1. w \in J /\ w \in 1 .. len /\ w - 1 \in 0 .. len
      BY <1>11, <2>2
    <3>2. f[w] = G[w][f[w - 1]] /\ f[w - 1] \in Int
      BY <1>14, <3>1
    <3>3. f[w] = f[w - 1] + d[w] /\ d[w] = task.lut[w][codes[w]]
      BY <1>8, <1>10, <3>1, <3>2
    <3> QED   BY <2>2, <3>3
  <2> QED   BY <2>1, <2>2
<1> DEFINE Def(z) == z = [w \in 0 .. len |-> IF w = 0 THEN 0 ELSE z[w - 1] + task.lut[w][codes[w]]]
<1>16. Def(f)
  BY <1>14, <1>15
<1> HIDE DEF Def
<1>17. PICK sum : sum = CHOOSE z : Def(z)   OBVIOUS
<1>18. Def(sum)
  BY <1>16, <1>17
<1>19. candidate_score(task, position) = sum[len]
  BY <1>2, <1>6, <1>17 DEF Def, candidate_score
<1>20. \A w \in 0 .. len : sum[w] = IF w = 0 THEN 0 ELSE sum[w - 1] + task.lut[w][codes[w]]
  BY <1>18 DEF Def
<1>21. PICK T : T = {w \in 0 .. len : sum[w] \in Int}   OBVIOUS
<1>22. 0 \in T
  <2>1. 0 \in 0 .. len   OBVIOUS
  <2>2. sum[0] = 0
    BY <1>20, <2>1
  <2>3. sum[0] \in Int
    BY <2>2
  <2> QED   BY <1>21, <2>1, <2>3
<1>23. ASSUME NEW w \in 0 + 1 .. len, w - 1 \in T PROVE w \in T
  <2>1. w \in 1 .. len /\ w \in 0 .. len /\ w # 0 /\ sum[w - 1] \in Int
    BY <1>21, <1>23
  <2>2. sum[w] = sum[w - 1] + task.lut[w][codes[w]]
    BY <1>20, <2>1
  <2>3. PICK entry : entry = task.lut[w][codes[w]]   OBVIOUS
  <2>4. entry \in Int
    BY <1>7, <2>1, <2>3
  <2>5. sum[w] \in Int
    BY SMTT(30), <2>1, <2>2, <2>3, <2>4
  <2> QED   BY <1>21, <2>1, <2>5
<1>24. \A w \in 0 .. len : w \in T
  <2>1. 0 \in Int /\ len \in Int   OBVIOUS
  <2> QED   BY <1>22, <1>23, <2>1, Climb
<1>25. sum[len] \in Int
  <2>1. len \in 0 .. len   OBVIOUS
  <2> QED   BY <1>21, <1>24, <2>1
<1> QED   BY <1>1, <1>19, <1>25

\* What a lane puts in is blank or a row of the list with its ordinal.
LEMMA IncomingFacts ==
  ASSUME ScanValid, NEW i \in 1 .. Len(scan.tasks), NEW row \in Nat,
         NEW x, x = Incoming(scan.tasks[i], row)
  PROVE  /\ x \in ScanSlots
         /\ x # Blank => /\ row < scan.tasks[i].list_count
                         /\ x.key[2] = scan.tasks[i].query_dense_offset + row
                         /\ x.position >= 0 /\ Precedes(x, Blank)
<1>1. PICK task, position : task = scan.tasks[i] /\ position = task.list_begin + row   OBVIOUS
<1>2. /\ task.list_begin \in Nat /\ task.list_count \in Nat /\ task.query_dense_offset \in Int
      /\ task.list_begin + task.list_count <= Len(scan.rows) /\ scan \in Scans
  BY <1>1, TaskFacts DEF ScanValid
<1>3. Len(scan.rows) \in Nat
  BY <1>2, CallFacts
<1>4. CASE x = Blank
  BY <1>4, SlotFacts
<1>5. CASE x # Blank
  <2>1. PICK score : score = candidate_score(task, position)   OBVIOUS
  <2>2. /\ row < task.list_count /\ code_valid(task, position) /\ isfinite(score)
        /\ x = [key |-> <<score, task.query_dense_offset + row>>, position |-> position]
    BY <1>1, <1>5, <2>1 DEF Incoming
  <2>3. position \in 0 .. Len(scan.rows) - 1 /\ position \in Int /\ position >= 0
    BY SMTT(30), <1>1, <1>2, <1>3, <2>2
  <2>4. score \in Int
    BY <1>1, <2>1, <2>2, <2>3, ScoreIsInt
  <2>5. /\ x \in ScanSlots /\ x.key[1] = score /\ x.position = position
        /\ x.key[2] = task.query_dense_offset + row
    <3>1. task.query_dense_offset + row \in Int
      BY <1>2
    <3>2. <<score, task.query_dense_offset + row>> \in Int \X Int
      BY <2>4, <3>1
    <3>3. x.key = <<score, task.query_dense_offset + row>> /\ x.position = position
      BY <2>2
    <3>4. x \in ScanSlots
      BY <2>2, <2>3, <3>2 DEF ScanSlots
    <3> QED   BY <3>3, <3>4
  <2>6. Precedes(x, Blank)
    BY <2>2, <2>5, SlotFacts DEF Precedes, isfinite
  <2> QED   BY <1>1, <2>2, <2>3, <2>5, <2>6
<1> QED   BY <1>4, <1>5

LEMMA SeenIs ==
  ASSUME ScanValid, NEW i \in 1 .. Len(scan.tasks), NEW count \in Nat, NEW x
  PROVE  /\ x \in Seen(i, count) <=> /\ x # Blank
                                     /\ \E row \in 0 .. count - 1 : x = Incoming(scan.tasks[i], row)
         /\ x \in Seen(i, count) => x \in TaskRows(i)
         /\ count >= scan.tasks[i].list_count => Seen(i, count) = TaskRows(i)
<1>1. \A c : x \in Seen(i, c) <=> x # Blank /\ \E row \in 0 .. c - 1 : x = Incoming(scan.tasks[i], row)
  BY DEF Seen
<1>2. PICK c \in Nat : c = scan.tasks[i].list_count
  BY TaskFacts
<1>3. ASSUME NEW y \in Seen(i, count) PROVE y \in TaskRows(i)
  <2>1. PICK row \in 0 .. count - 1 : y = Incoming(scan.tasks[i], row)
    BY DEF Seen
  <2>2. row \in Nat /\ y # Blank
    BY DEF Seen
  <2>3. row \in 0 .. c - 1
    BY <1>2, <2>1, <2>2, IncomingFacts
  <2> QED   BY <1>2, <2>1, <2>2, <2>3 DEF TaskRows, Seen
<1>4. ASSUME count >= c PROVE Seen(i, count) = TaskRows(i)
  <2>1. 0 .. c - 1 \subseteq 0 .. count - 1
    BY <1>4
  <2>2. TaskRows(i) \subseteq Seen(i, count)
    BY <1>2, <2>1 DEF TaskRows, Seen
  <2> QED   BY <1>3, <2>2
<1> QED   BY <1>1, <1>2, <1>3, <1>4

LEMMA QueryRowsAre ==
  ASSUME NEW query, NEW upto, NEW x
  PROVE  x \in QueryRows(query, upto)
           <=> \E i \in 1 .. upto : scan.tasks[i].query_index = query /\ x \in TaskRows(i)
BY DEF QueryRows

LEMMA CandidatesAre == \A query : Candidates(query) = QueryRows(query, Len(scan.tasks))
BY DEF Candidates, QueryRows, TaskRows

\* Two rows of a query have two ordinals.
LEMMA RowsDiffer ==
  ASSUME ScanValid, NEW i \in 1 .. Len(scan.tasks), NEW j \in 1 .. Len(scan.tasks),
         scan.tasks[i].query_index = scan.tasks[j].query_index,
         NEW a \in Nat, NEW b \in Nat, NEW x, x = Incoming(scan.tasks[i], a), x # Blank,
         NEW y, y = Incoming(scan.tasks[j], b), y # Blank, x.key[2] = y.key[2]
  PROVE  i = j /\ a = b
<1>1. /\ a < scan.tasks[i].list_count /\ x.key[2] = scan.tasks[i].query_dense_offset + a
      /\ b < scan.tasks[j].list_count /\ y.key[2] = scan.tasks[j].query_dense_offset + b
  BY IncomingFacts
<1>2. PICK c \in Nat, o \in Int : c = scan.tasks[i].list_count /\ o = scan.tasks[i].query_dense_offset
  BY TaskFacts
<1>3. PICK d \in Nat, p \in Int : d = scan.tasks[j].list_count /\ p = scan.tasks[j].query_dense_offset
  BY TaskFacts
<1>4. a < c /\ b < d /\ o + a = p + b
  BY <1>1, <1>2, <1>3
<1>5. i < j => o + c <= p
  <2>1. Len(scan.tasks) \in Nat
    BY CallFacts DEF ScanValid
  <2>2. i < j => j \in i + 1 .. Len(scan.tasks)
    BY <2>1
  <2> QED   BY <1>2, <1>3, <2>2, OffsetsRise
<1>6. j < i => p + d <= o
  <2>1. Len(scan.tasks) \in Nat
    BY CallFacts DEF ScanValid
  <2>2. j < i => i \in j + 1 .. Len(scan.tasks)
    BY <2>1
  <2> QED   BY <1>2, <1>3, <2>2, OffsetsRise
<1>7. i = j
  <2>1. i \in Int /\ j \in Int   OBVIOUS
  <2> QED   BY <1>4, <1>5, <1>6, <2>1
<1> QED   BY SMTT(30), <1>2, <1>3, <1>4, <1>7

\* What a candidate is.
LEMMA CandidateIs ==
  ASSUME ScanValid, NEW query, NEW x \in Candidates(query)
  PROVE  \E i \in 1 .. Len(scan.tasks), row \in Nat :
           /\ scan.tasks[i].query_index = query /\ row < scan.tasks[i].list_count
           /\ x = Incoming(scan.tasks[i], row) /\ x # Blank
<1>1. PICK i \in 1 .. Len(scan.tasks) : scan.tasks[i].query_index = query /\ x \in TaskRows(i)
  BY CandidatesAre, QueryRowsAre
<1>2. PICK c \in Nat : c = scan.tasks[i].list_count
  BY TaskFacts
<1>3. PICK row \in 0 .. c - 1 : x = Incoming(scan.tasks[i], row) /\ x # Blank
  BY <1>1, <1>2 DEF TaskRows, Seen
<1>4. row \in Nat /\ row < c
  BY <1>2
<1> QED   BY <1>1, <1>2, <1>3, <1>4

\* The candidates of a query are in order.
LEMMA CandidatesOrder ==
  ASSUME ScanValid, NEW query
  PROVE  /\ Candidates(query) \subseteq ScanSlots /\ StrictTotal(Candidates(query), ScanOrder)
         /\ \A x \in Candidates(query) : Precedes(x, Blank) /\ x.position >= 0
         /\ IsFiniteSet(Candidates(query))
<1>1. PICK C : C = Candidates(query)   OBVIOUS
<1>2. ASSUME NEW x \in C PROVE x \in ScanSlots /\ Precedes(x, Blank) /\ x.position >= 0
  <2>1. PICK i \in 1 .. Len(scan.tasks), row \in Nat :
          /\ scan.tasks[i].query_index = query /\ row < scan.tasks[i].list_count
          /\ x = Incoming(scan.tasks[i], row) /\ x # Blank
    <3>1. x \in Candidates(query)
      BY <1>1
    <3> QED   BY <3>1, CandidateIs
  <2> QED   BY <2>1, IncomingFacts
<1>3. ASSUME NEW x \in C, NEW y \in C, x.key[2] = y.key[2] PROVE x = y
  <2>1. PICK i \in 1 .. Len(scan.tasks), a \in Nat :
          /\ scan.tasks[i].query_index = query /\ x = Incoming(scan.tasks[i], a) /\ x # Blank
    BY <1>1, CandidateIs
  <2>2. PICK j \in 1 .. Len(scan.tasks), b \in Nat :
          /\ scan.tasks[j].query_index = query /\ y = Incoming(scan.tasks[j], b) /\ y # Blank
    BY <1>1, CandidateIs
  <2>3. scan.tasks[i].query_index = scan.tasks[j].query_index /\ x.key[2] = y.key[2]
    BY <1>3, <2>1, <2>2
  <2>4. x = Incoming(scan.tasks[i], a) /\ x # Blank /\ y = Incoming(scan.tasks[j], b) /\ y # Blank
    BY <2>1, <2>2
  <2>5. i = j /\ a = b
    BY <2>3, <2>4, RowsDiffer
  <2> QED   BY <2>1, <2>2, <2>5
<1>4. StrictTotal(C, ScanOrder)
  <2>1. \A x \in C : <<x, x>> \notin ScanOrder
    BY <1>2, SlotFacts, PrecedesFacts DEF ScanOrder, KeyOrder
  <2>2. ASSUME NEW x \in C, NEW y \in C, x # y
        PROVE  <<x, y>> \in ScanOrder \/ <<y, x>> \in ScanOrder
    <3>1. x \in ScanSlots /\ y \in ScanSlots /\ x.key[2] # y.key[2]
      BY <1>2, <1>3, <2>2
    <3>2. x.key[1] \in Int /\ x.key[2] \in Int /\ y.key[1] \in Int /\ y.key[2] \in Int
      BY <3>1, SlotFacts DEF Keyed
    <3>3. Precedes(x, y) \/ Precedes(y, x)
      BY <3>1, <3>2 DEF Precedes
    <3> QED   BY <3>1, <3>3 DEF ScanOrder, KeyOrder
  <2>3. ASSUME NEW x \in C, NEW y \in C, NEW z \in C, <<x, y>> \in ScanOrder, <<y, z>> \in ScanOrder
        PROVE  <<x, z>> \in ScanOrder
    <3>1. x \in ScanSlots /\ y \in ScanSlots /\ z \in ScanSlots
      BY <1>2
    <3>2. Precedes(x, y) /\ Precedes(y, z)
      BY <2>3 DEF ScanOrder, KeyOrder
    <3>3. Precedes(x, z)
      BY <3>1, <3>2, SlotFacts, PrecedesFacts
    <3> QED   BY <3>1, <3>3 DEF ScanOrder, KeyOrder
  <2> QED   BY <2>1, <2>2, <2>3 DEF StrictTotal
<1>5. IsFiniteSet(C)
  <2>1. PICK total \in Nat, r \in Nat : total = Len(scan.tasks) /\ r = Len(scan.rows)
    BY CallFacts DEF ScanValid
  <2>2. PICK P : P = (1 .. total) \X (0 .. r - 1)   OBVIOUS
  <2>3. IsFiniteSet(P)
    <3>1. total \in Int /\ r - 1 \in Int   OBVIOUS
    <3>2. IsFiniteSet(1 .. total) /\ IsFiniteSet(0 .. r - 1)
      BY <3>1, FS_Interval
    <3> QED   BY <2>2, <3>2, FS_Product
  <2>4. PICK f : f = [x \in C |-> CHOOSE p \in P : x = Incoming(scan.tasks[p[1]], p[2])]   OBVIOUS
  <2>5. ASSUME NEW x \in C PROVE f[x] \in P /\ x = Incoming(scan.tasks[f[x][1]], f[x][2])
    <3>1. PICK i \in 1 .. Len(scan.tasks), row \in Nat :
            /\ scan.tasks[i].query_index = query /\ row < scan.tasks[i].list_count
            /\ x = Incoming(scan.tasks[i], row) /\ x # Blank
      <4>1. x \in Candidates(query)
        BY <1>1
      <4> QED   BY <4>1, CandidateIs
    <3>2. PICK c \in Nat, b \in Nat : /\ c = scan.tasks[i].list_count
                                      /\ b = scan.tasks[i].list_begin /\ b + c <= r
      BY <2>1, TaskFacts
    <3>3. row \in 0 .. r - 1
      BY <3>1, <3>2
    <3>4. \E p \in P : x = Incoming(scan.tasks[p[1]], p[2])
      <4>1. <<i, row>> \in P
        BY <2>1, <2>2, <3>3
      <4> QED   BY <3>1, <4>1
    <3>5. f[x] = CHOOSE p \in P : x = Incoming(scan.tasks[p[1]], p[2])
      BY <2>4
    <3> QED   BY <3>4, <3>5
  <2>6. f \in Injection(C, P)
    BY <2>4, <2>5 DEF Injection, IsInjective
  <2> QED   BY <2>3, <2>6, FS_Injection
<1> QED   BY <1>1, <1>2, <1>4, <1>5

-----------------------------------------------------------------------------
(* What a turn of a group leaves. *)

LEMMA NothingHolds ==
  ASSUME NEW k \in Nat, NEW held, \A t \in 0 .. k - 1 : held[t] = Blank
  PROVE  HoldsFirsts(held, {}, ScanOrder, k, Blank)
<1>1. PICK z : z = [t \in 1 .. 0 |-> held[t - 1]]   OBVIOUS
<1>2. 0 \in 0 .. k /\ z \in [1 .. 0 -> {}] /\ \A t, u \in 1 .. 0 : t < u => <<z[t], z[u]>> \in ScanOrder
  BY <1>1
<1>3. Firsts(z, 0, {}, ScanOrder, k)
  BY <1>2 DEF Firsts
<1> QED   BY <1>1, <1>2, <1>3 DEF HoldsFirsts

\* A part of the candidates of a query is in their order.
LEMMA PartOrder ==
  ASSUME ScanValid, NEW query, NEW S, S \subseteq Candidates(query)
  PROVE  /\ S \subseteq ScanSlots /\ StrictTotal(S, ScanOrder) /\ Blank \notin S
         /\ \A x \in S : Precedes(x, Blank)
<1>1. /\ Candidates(query) \subseteq ScanSlots /\ StrictTotal(Candidates(query), ScanOrder)
      /\ \A x \in Candidates(query) : Precedes(x, Blank)
  BY CandidatesOrder
<1>2. ~Precedes(Blank, Blank)
  BY SlotFacts, PrecedesFacts
<1>3. StrictTotal(S, ScanOrder)
  BY <1>1 DEF StrictTotal
<1> QED   BY <1>1, <1>2, <1>3

LEMMA TaskIsPart ==
  ASSUME NEW i \in 1 .. Len(scan.tasks)
  PROVE  TaskRows(i) \subseteq Candidates(scan.tasks[i].query_index)
BY CandidatesAre, QueryRowsAre

\* The rows of a turn join those seen before.
LEMMA ScanTurnHolds ==
  ASSUME ScanValid, NEW i \in 1 .. Len(scan.tasks), NEW count \in Nat, NEW held,
         Holding(held, Seen(i, count)), NEW incoming,
         incoming = [lane \in GroupLanes |-> Incoming(scan.tasks[i], count + lane)]
  PROVE  Holding(Turn(held, incoming), Seen(i, count + scan.group))
<1>1. PICK g \in Nat, k \in Nat, last \in 1 .. 8 :
        g = scan.group /\ k = scan.krefine /\ k <= g /\ last = Widest /\ 2 * g = Power(last)
  BY CallFacts DEF ScanValid
<1>2. PICK S, U : S = Seen(i, count) /\ U = Seen(i, count + g)   OBVIOUS
<1>3. PICK X : X = {incoming[lane] : lane \in 0 .. g - 1} \ {Blank}   OBVIOUS
<1>4. count + g \in Nat
  BY <1>1
<1>5. \A lane \in 0 .. g - 1 : incoming[lane] = Incoming(scan.tasks[i], count + lane)
  BY <1>1 DEF GroupLanes
<1>6. U \subseteq TaskRows(i) /\ U \subseteq Candidates(scan.tasks[i].query_index)
  BY <1>2, <1>4, SeenIs, TaskIsPart
<1>7. \A x : x \in S <=> x # Blank /\ \E row \in 0 .. count - 1 : x = Incoming(scan.tasks[i], row)
  BY <1>2, SeenIs
<1>8. \A x : x \in U <=> x # Blank /\ \E row \in 0 .. count + g - 1 : x = Incoming(scan.tasks[i], row)
  BY <1>2, <1>4 DEF Seen
<1>9. U = S \cup X
  <2>1. ASSUME NEW x \in U PROVE x \in S \cup X
    <3>1. PICK row \in 0 .. count + g - 1 : x = Incoming(scan.tasks[i], row) /\ x # Blank
      BY <1>8
    <3>2. CASE row < count
      <4>1. row \in 0 .. count - 1
        BY <3>2
      <4> QED   BY <1>7, <3>1, <4>1
    <3>3. CASE row >= count
      <4>1. row - count \in 0 .. g - 1 /\ count + (row - count) = row
        BY <1>1, <3>3
      <4>2. incoming[row - count] = x
        BY <1>5, <3>1, <4>1
      <4> QED   BY <1>3, <3>1, <4>1, <4>2
    <3> QED   BY <3>2, <3>3
  <2>2. ASSUME NEW x \in S PROVE x \in U
    <3>1. PICK row \in 0 .. count - 1 : x = Incoming(scan.tasks[i], row) /\ x # Blank
      BY <1>7
    <3>2. row \in 0 .. count + g - 1
      BY <1>1
    <3> QED   BY <1>8, <3>1, <3>2
  <2>3. ASSUME NEW x \in X PROVE x \in U
    <3>1. PICK lane \in 0 .. g - 1 : x = incoming[lane] /\ x # Blank
      BY <1>3
    <3>2. count + lane \in 0 .. count + g - 1
      BY <1>1
    <3> QED   BY <1>5, <1>8, <3>1, <3>2
  <2> QED   BY <2>1, <2>2, <2>3
<1>10. ASSUME NEW a \in Nat, NEW b \in Nat, Incoming(scan.tasks[i], a) = Incoming(scan.tasks[i], b),
              Incoming(scan.tasks[i], a) # Blank
       PROVE  a = b
  <2>1. PICK x, y : x = Incoming(scan.tasks[i], a) /\ y = Incoming(scan.tasks[i], b)   OBVIOUS
  <2>2. x = y /\ x # Blank
    BY <1>10, <2>1
  <2>3. PICK o \in Int : o = scan.tasks[i].query_dense_offset
    BY TaskFacts
  <2>4. x.key[2] = o + a /\ y.key[2] = o + b
    BY <2>1, <2>2, <2>3, IncomingFacts
  <2> QED   BY <2>2, <2>4
<1>11. S \cap X = {}
  <2>1. SUFFICES ASSUME NEW x \in S, x \in X PROVE FALSE   OBVIOUS
  <2>2. PICK row \in 0 .. count - 1 : x = Incoming(scan.tasks[i], row) /\ x # Blank
    BY <1>7
  <2>3. PICK lane \in 0 .. g - 1 : x = Incoming(scan.tasks[i], count + lane)
    BY <1>3, <1>5, <2>1
  <2>4. row \in Nat /\ count + lane \in Nat /\ row # count + lane
    BY SMTT(30), <1>1
  <2> QED   BY <1>10, <2>2, <2>3, <2>4
<1>12. Spread(incoming, g, X, Blank)
  <2>1. \A lane \in 0 .. g - 1 : incoming[lane] \in X \/ incoming[lane] = Blank
    BY <1>3
  <2>2. \A x \in X : \E lane \in 0 .. g - 1 : incoming[lane] = x
    BY <1>3
  <2>3. ASSUME NEW a \in 0 .. g - 1, NEW b \in 0 .. g - 1, incoming[a] = incoming[b], incoming[a] \in X
        PROVE  a = b
    <3>1. incoming[a] # Blank
      BY <1>3, <2>3
    <3>2. count + a \in Nat /\ count + b \in Nat   OBVIOUS
    <3>3. count + a = count + b
      BY <1>5, <1>10, <2>3, <3>1, <3>2
    <3> QED   BY <3>3
  <2> QED   BY <2>1, <2>2, <2>3 DEF Spread
<1>13. U \subseteq ScanSlots /\ StrictTotal(U, ScanOrder) /\ \A x \in U : Precedes(x, Blank)
  BY <1>6, PartOrder
<1>14. PICK result : result = Turn(held, incoming)   OBVIOUS
<1>15. result = TurnOf(held, incoming, g, k, Blank, last)
  BY <1>1, <1>14 DEF Turn, TurnOf
<1>16. HoldsFirsts(held, S, ScanOrder, k, Blank)
  BY <1>1, <1>2 DEF Holding
<1>17. HoldsFirsts(result, S \cup X, ScanOrder, k, Blank)
  <2>1. /\ S \cup X \subseteq ScanSlots /\ StrictTotal(S \cup X, ScanOrder)
        /\ \A x \in S \cup X : Precedes(x, Blank)
    BY <1>9, <1>13
  <2>2. ScanOrder = KeyOrder(ScanSlots) /\ Keyed(ScanSlots) /\ Blank \in ScanSlots
    BY SlotFacts DEF ScanOrder
  <2>3. 2 * g = Power(last) /\ k <= g
    BY <1>1
  <2> QED   BY <1>11, <1>12, <1>15, <1>16, <2>1, <2>2, <2>3, TurnHolds
<1> QED   BY <1>1, <1>2, <1>9, <1>14, <1>17 DEF Holding

\* Another task of a query adds its rows.
LEMMA RowsGrow ==
  ASSUME NEW query, NEW upto \in Nat
  PROVE  QueryRows(query, upto + 1)
           = IF scan.tasks[upto + 1].query_index = query
             THEN QueryRows(query, upto) \cup TaskRows(upto + 1) ELSE QueryRows(query, upto)
<1>1. \A i : i \in 1 .. upto + 1 <=> i \in 1 .. upto \/ i = upto + 1   OBVIOUS
<1>2. ASSUME NEW x
      PROVE  x \in QueryRows(query, upto + 1)
               <=> \/ x \in QueryRows(query, upto)
                   \/ scan.tasks[upto + 1].query_index = query /\ x \in TaskRows(upto + 1)
  BY <1>1, QueryRowsAre
<1> QED   BY <1>2

LEMMA RowsAreCandidates ==
  ASSUME scan \in Scans, NEW query, NEW upto \in 0 .. Len(scan.tasks)
  PROVE  QueryRows(query, upto) \subseteq Candidates(query)
<1>1. Len(scan.tasks) \in Nat
  BY CallFacts
<1>2. \A i \in 1 .. upto : i \in 1 .. Len(scan.tasks)
  BY <1>1
<1> QED   BY <1>2, CandidatesAre, QueryRowsAre

LEMMA MergeTurnHolds ==
  ASSUME ScanValid, NEW upto \in Nat, upto < Len(scan.tasks),
         NEW query, query = scan.tasks[upto + 1].query_index,
         NEW held, Holding(held, QueryRows(query, upto)),
         NEW stored, Holding(stored, TaskRows(upto + 1)), NEW incoming,
         incoming = [lane \in GroupLanes |-> IF lane < scan.krefine THEN stored[lane] ELSE Blank]
  PROVE  Holding(Turn(held, incoming), QueryRows(query, upto + 1))
<1>1. PICK g \in Nat, k \in Nat, last \in 1 .. 8 :
        /\ g = scan.group /\ k = scan.krefine /\ k <= g /\ last = Widest /\ 2 * g = Power(last)
        /\ scan \in Scans
  BY CallFacts DEF ScanValid
<1>2. Len(scan.tasks) \in Nat
  BY <1>1, CallFacts
<1>3. PICK i \in 1 .. Len(scan.tasks) : i = upto + 1
  BY <1>2
<1>4. PICK S, P : S = QueryRows(query, upto) /\ P = TaskRows(i)   OBVIOUS
<1>5. QueryRows(query, upto + 1) = P \cup S
  BY <1>3, <1>4, RowsGrow
<1>6. P \subseteq Candidates(query) /\ S \subseteq Candidates(query)
  BY <1>1, <1>2, <1>3, <1>4, TaskIsPart, RowsAreCandidates
<1>7. P \cup S \subseteq Candidates(query)
  BY <1>6
<1>8. /\ P \cup S \subseteq ScanSlots /\ StrictTotal(P \cup S, ScanOrder) /\ Blank \notin P \cup S
      /\ \A x \in P \cup S : Precedes(x, Blank)
  BY <1>7, PartOrder
<1>9. P \cap S = {}
  <2>1. SUFFICES ASSUME NEW x \in P, x \in S PROVE FALSE   OBVIOUS
  <2>2. PICK j \in 1 .. upto : scan.tasks[j].query_index = query /\ x \in TaskRows(j)
    BY <1>4, <2>1, QueryRowsAre
  <2>3. j \in 1 .. Len(scan.tasks) /\ j # i
    BY <1>2, <1>3
  <2>4. PICK a \in Nat : x = Incoming(scan.tasks[i], a) /\ x # Blank
    <3>1. PICK c \in Nat : c = scan.tasks[i].list_count
      BY TaskFacts
    <3>2. PICK a \in 0 .. c - 1 : x = Incoming(scan.tasks[i], a) /\ x # Blank
      BY <1>4, <2>1, <3>1 DEF TaskRows, Seen
    <3>3. a \in Nat   OBVIOUS
    <3> QED   BY <3>2, <3>3
  <2>5. PICK b \in Nat : x = Incoming(scan.tasks[j], b)
    <3>1. PICK c \in Nat : c = scan.tasks[j].list_count
      BY <2>3, TaskFacts
    <3>2. PICK b \in 0 .. c - 1 : x = Incoming(scan.tasks[j], b)
      BY <2>2, <3>1 DEF TaskRows, Seen
    <3>3. b \in Nat   OBVIOUS
    <3> QED   BY <3>2, <3>3
  <2>6. scan.tasks[i].query_index = scan.tasks[j].query_index
    BY <1>3, <2>2
  <2>7. PICK y : y = Incoming(scan.tasks[j], b) /\ y # Blank /\ x.key[2] = y.key[2]
    BY <2>4, <2>5
  <2>8. i = j
    BY <2>3, <2>4, <2>6, <2>7, RowsDiffer
  <2> QED   BY <2>3, <2>8
<1>10. HoldsFirsts(held, S, ScanOrder, k, Blank) /\ HoldsFirsts(stored, P, ScanOrder, k, Blank)
  BY <1>1, <1>3, <1>4 DEF Holding
<1>11. PICK X : X = Held(stored, k, Blank)   OBVIOUS
<1>12. StrictTotal(P, ScanOrder) /\ Blank \notin P
  BY <1>6, PartOrder
<1>13. X \subseteq P /\ Spread(stored, k, X, Blank)
  BY <1>10, <1>11, <1>12, HeldFacts
<1>14. \A lane \in 0 .. g - 1 : incoming[lane] = IF lane < k THEN stored[lane] ELSE Blank
  BY <1>1 DEF GroupLanes
<1>15. Spread(incoming, g, X, Blank)
  <2>1. ASSUME NEW lane \in 0 .. g - 1 PROVE incoming[lane] \in X \/ incoming[lane] = Blank
    <3>1. lane < k => lane \in 0 .. k - 1
      BY <1>1
    <3> QED   BY <1>13, <1>14, <3>1 DEF Spread
  <2>2. ASSUME NEW x \in X PROVE \E lane \in 0 .. g - 1 : incoming[lane] = x
    <3>1. PICK lane \in 0 .. k - 1 : stored[lane] = x
      BY <1>13 DEF Spread
    <3>2. lane \in 0 .. g - 1 /\ lane < k
      BY <1>1
    <3> QED   BY <1>14, <3>1, <3>2
  <2>3. ASSUME NEW a \in 0 .. g - 1, NEW b \in 0 .. g - 1, incoming[a] = incoming[b], incoming[a] \in X
        PROVE  a = b
    <3>1. Blank \notin X
      BY <1>8, <1>13
    <3>2. a < k /\ b < k
      BY <1>14, <2>3, <3>1
    <3>3. a \in 0 .. k - 1 /\ b \in 0 .. k - 1
      BY <1>1, <3>2
    <3>4. stored[a] = stored[b] /\ stored[a] \in X
      BY <1>14, <2>3, <3>2
    <3> QED   BY <1>13, <3>3, <3>4 DEF Spread
  <2> QED   BY <2>1, <2>2, <2>3 DEF Spread
<1>16. PICK result : result = Turn(held, incoming)   OBVIOUS
<1>17. result = TurnOf(held, incoming, g, k, Blank, last)
  BY <1>1, <1>16 DEF Turn, TurnOf
<1>18. /\ S \cup X \subseteq ScanSlots /\ S \cap X = {} /\ \A x \in S \cup X : Precedes(x, Blank)
       /\ S \cup X \subseteq Candidates(query)
  BY <1>7, <1>8, <1>9, <1>13
<1>19. StrictTotal(S \cup X, ScanOrder)
  BY <1>18, PartOrder
<1>20. HoldsFirsts(result, S \cup X, ScanOrder, k, Blank)
  <2>1. ScanOrder = KeyOrder(ScanSlots) /\ Keyed(ScanSlots) /\ Blank \in ScanSlots
    BY SlotFacts DEF ScanOrder
  <2>2. 2 * g = Power(last) /\ k <= g
    BY <1>1
  <2> QED   BY <1>10, <1>15, <1>17, <1>18, <1>19, <2>1, <2>2, TurnHolds
<1>21. HoldsFirsts(result, X \cup S, ScanOrder, k, Blank)
  <2>1. S \cup X = X \cup S   OBVIOUS
  <2> QED   BY <1>20, <2>1
<1>22. HoldsFirsts(result, P \cup S, ScanOrder, k, Blank)
  BY <1>8, <1>10, <1>11, <1>12, <1>21, HoldsMerge
<1> QED   BY <1>1, <1>5, <1>16, <1>22 DEF Holding

-----------------------------------------------------------------------------
(* What a group stores at the end. *)

\* The slots of a query that has seen all its rows are its best.
LEMMA BestIs ==
  ASSUME ScanValid, NEW query, NEW held, Holding(held, Candidates(query)),
         NEW chosen, chosen = [rank \in 1 .. scan.krefine |-> held[rank - 1].position]
  PROVE  /\ chosen = Best(query)
         /\ Cardinality({rank \in 1 .. scan.krefine : chosen[rank] >= 0})
              = Min({scan.krefine, Cardinality(Candidates(query))})
<1>1. PICK k \in Nat : k = scan.krefine
  BY CallFacts DEF ScanValid
<1>2. PICK C : C = Candidates(query)   OBVIOUS
<1>3. /\ StrictTotal(C, ScanOrder) /\ IsFiniteSet(C) /\ C \subseteq ScanSlots
      /\ \A x \in C : x.position >= 0
  BY <1>2, CandidatesOrder
<1>4. PICK c \in Nat : c = Cardinality(C)
  BY <1>3, FS_CardinalityType
<1>5. HoldsFirsts(held, C, ScanOrder, k, Blank)
  BY <1>1, <1>2 DEF Holding
<1>6. PICK m, y : /\ m \in 0 .. k /\ y = [t \in 1 .. m |-> held[t - 1]]
                  /\ Firsts(y, m, C, ScanOrder, k)
                  /\ \A t \in m .. k - 1 : held[t] = Blank
  BY <1>5 DEF HoldsFirsts
<1>7. /\ m = IF k <= c THEN k ELSE c
      /\ \A t \in 1 .. m : RankIn(C, ScanOrder, y[t]) = t - 1
  <2>1. Firsts(y, m, C, ScanOrder, k)
    BY <1>6
  <2>2. StrictTotal(C, ScanOrder) /\ IsFiniteSet(C)
    BY <1>3
  <2>3. /\ m = IF k <= Cardinality(C) THEN k ELSE Cardinality(C)
        /\ \A t \in 1 .. m : RankIn(C, ScanOrder, y[t]) = t - 1
    BY <2>1, <2>2, FirstsRanks
  <2> QED   BY <1>4, <2>3
<1>8. m \in Nat /\ y \in [1 .. m -> C]
  BY <1>6 DEF Firsts
<1>9. \A x \in C : {z \in C : Precedes(z, x)} = Below(C, ScanOrder, x)
  <2>1. ASSUME NEW x \in C, NEW z \in C PROVE Precedes(z, x) <=> <<z, x>> \in ScanOrder
    <3>1. <<z, x>> \in ScanSlots \X ScanSlots
      BY <1>3
    <3> QED   BY <3>1 DEF ScanOrder, KeyOrder
  <2> QED   BY <2>1 DEF Below
<1>10. PICK ranked : ranked = Ranked(C, Precedes)   OBVIOUS
<1>11. ranked = [t \in 1 .. c |-> CHOOSE x \in C : Cardinality({z \in C : Precedes(z, x)}) = t - 1]
  BY <1>4, <1>10 DEF Ranked
<1>12. Len(ranked) = c
  BY <1>11
<1>13. ASSUME NEW t \in 1 .. m PROVE t \in 1 .. c /\ ranked[t] = y[t]
  <2>1. t \in 1 .. c
    BY <1>7
  <2>2. ranked[t] = CHOOSE x \in C : Cardinality({z \in C : Precedes(z, x)}) = t - 1
    BY <1>11, <2>1
  <2>3. y[t] \in C /\ RankIn(C, ScanOrder, y[t]) = t - 1
    BY <1>7, <1>8
  <2>4. \A x \in C : RankIn(C, ScanOrder, x) = t - 1 => x = y[t]
    BY <1>3, <2>3, Ranks
  <2>5. \A x \in C : Cardinality({z \in C : Precedes(z, x)}) = RankIn(C, ScanOrder, x)
    BY <1>9 DEF RankIn
  <2>6. ranked[t] \in C /\ RankIn(C, ScanOrder, ranked[t]) = t - 1
    <3>1. PICK x \in C : Cardinality({z \in C : Precedes(z, x)}) = t - 1
      BY <2>3, <2>5
    <3>2. ranked[t] \in C /\ Cardinality({z \in C : Precedes(z, ranked[t])}) = t - 1
      BY <2>2, <3>1
    <3> QED   BY <2>5, <3>2
  <2> QED   BY <2>1, <2>4, <2>6
<1>14. ASSUME NEW t \in 1 .. k
       PROVE  /\ chosen[t] = IF t <= c THEN ranked[t].position ELSE -1
              /\ chosen[t] >= 0 <=> t \in 1 .. m
  <2>1. chosen[t] = held[t - 1].position
    BY <1>1
  <2>2. CASE t <= m
    <3>1. t \in 1 .. m /\ t <= c
      BY <1>7, <2>2
    <3>2. y[t] = held[t - 1] /\ y[t] \in C
      BY <1>6, <1>8, <3>1
    <3> QED   BY <1>3, <1>13, <2>1, <3>1, <3>2
  <2>3. CASE t > m
    <3>1. t - 1 \in m .. k - 1 /\ ~(t <= c)
      BY <1>7, <1>8, <2>3
    <3>2. held[t - 1] = Blank
      BY <1>6, <3>1
    <3>3. chosen[t] = -1
      BY <2>1, <3>2, SlotFacts
    <3> QED   BY <1>8, <2>3, <3>1, <3>3
  <2> QED   BY <1>8, <2>2, <2>3
<1>15. chosen = Best(query)
  <2>1. Best(query) = [rank \in 1 .. k |-> IF rank <= c THEN ranked[rank].position ELSE -1]
    BY <1>1, <1>2, <1>10, <1>12 DEF Best
  <2>2. chosen = [rank \in 1 .. k |-> chosen[rank]]
    BY <1>1
  <2>3. [rank \in 1 .. k |-> chosen[rank]]
          = [rank \in 1 .. k |-> IF rank <= c THEN ranked[rank].position ELSE -1]
    BY <1>14
  <2> QED   BY <2>1, <2>2, <2>3
<1>16. {rank \in 1 .. k : chosen[rank] >= 0} = 1 .. m
  <2>1. \A t \in 1 .. m : t \in 1 .. k
    BY <1>6, <1>8
  <2> QED   BY <1>14, <2>1
<1>17. Cardinality(1 .. m) = m
  <2>1. Cardinality(1 .. m) = IF 1 > m THEN 0 ELSE m - 1 + 1
    BY <1>8, FS_Interval
  <2> QED   BY <1>8, <2>1
<1>18. Min({k, c}) = m
  BY <1>7, MinOfTwo
<1> QED   BY <1>1, <1>2, <1>4, <1>15, <1>16, <1>17, <1>18

-----------------------------------------------------------------------------
(* The invariant. *)

LEMMA ListGrows ==
  ASSUME NEW s, IsAList(s), NEW x
  PROVE  Extends(Append(s, x), s, x)
<1>0. PICK t : t = Append(s, x)   OBVIOUS
<1>1. PICK S : s \in Seq(S)
  BY DEF IsAList
<1>2. PICK T : T = S \cup {x}   OBVIOUS
<1>3. s \in Seq(T) /\ x \in T
  BY <1>1, <1>2
<1>4. t \in Seq(T) /\ Len(t) = Len(s) + 1 /\ t[Len(s) + 1] = x /\ \A i \in 1 .. Len(s) : t[i] = s[i]
  BY <1>0, <1>3, AppendProperties
<1> QED   BY <1>0, <1>1, <1>4 DEF Extends, IsAList

\* What only looks at the call stays with it.
LEMMA KeepCall ==
  ASSUME scan' = scan
  PROVE  (ScanValid => ScanValid') /\ NothingKept' = NothingKept
BY DEF ScanValid, valid_tasks, NothingKept

LEMMA KeepScan ==
  ASSUME scan' = scan
  PROVE  /\ \A i, count : Seen(i, count)' = Seen(i, count)
         /\ \A i : TaskRows(i)' = TaskRows(i)
         /\ \A query, upto : QueryRows(query, upto)' = QueryRows(query, upto)
         /\ \A query : Candidates(query)' = Candidates(query) /\ Best(query)' = Best(query)
<1>3. ASSUME NEW task, NEW row PROVE Incoming(task, row)' = Incoming(task, row)
  BY DEF Incoming, candidate_allowed, code_valid, candidate_score, IdInRange, Row
<1>4. \A i, count : Seen(i, count)' = Seen(i, count)
  BY <1>3 DEF Seen
<1>5. \A i : TaskRows(i)' = TaskRows(i)
  BY <1>4 DEF TaskRows
<1>6. \A query, upto : QueryRows(query, upto)' = QueryRows(query, upto)
  BY <1>5 DEF QueryRows
<1>7. \A query : Candidates(query)' = Candidates(query)
  BY <1>4 DEF Candidates
<1>8. \A query : Best(query)' = Best(query)
  BY <1>7 DEF Best
<1> QED   BY <1>4, <1>5, <1>6, <1>7, <1>8

\* No group holds anything before its first turn.
LEMMA NothingIsHeld ==
  ASSUME scan \in Scans
  PROVE  HoldsFirsts(NothingKept, {}, ScanOrder, scan.krefine, Blank)
<1>1. PICK k \in Nat : k = scan.krefine
  BY CallFacts
<1>2. \A t \in 0 .. k - 1 : NothingKept[t] = Blank
  BY <1>1 DEF NothingKept
<1> QED   BY <1>1, <1>2, NothingHolds

LEMMA KeepParts ==
  ASSUME scan' = scan
  PROVE  /\ \A held, S : Holding(held, S)' <=> Holding(held, S)
         /\ task_slots' = task_slots => \A upto : Stored(upto)' <=> Stored(upto)
         /\ positions' = positions => \A query : AnsweredIs(query)' <=> AnsweredIs(query)
<1>1. \A held, S : Holding(held, S)' <=> Holding(held, S)
  BY DEF Holding
<1>2. ASSUME task_slots' = task_slots, NEW upto PROVE Stored(upto)' <=> Stored(upto)
  BY <1>2, KeepScan DEF Stored, Holding
<1>3. ASSUME positions' = positions, NEW query PROVE AnsweredIs(query)' <=> AnsweredIs(query)
  BY <1>3, KeepScan DEF AnsweredIs
<1> QED   BY <1>1, <1>2, <1>3

\* A call begins.
LEMMA CallStep ==
  ASSUME ScanInv, ScanCall
  PROVE  ScanInv'
<1>1. /\ kernel = "idle" /\ group_id = 1 /\ base = 0 /\ task_slots = <<>> /\ positions = <<>>
      /\ selected.status = "none"
  BY DEF ScanInv, ScanCall
<1>2. /\ group_id' = 1 /\ base' = 0 /\ task_slots' = <<>> /\ positions' = <<>>
      /\ kept' = NothingKept' /\ scan' \in Scans
  BY <1>1 DEF ScanCall
<1>3. CASE scan'.krefine > scan'.group \/ ~valid_tasks'
  <2>1. kernel' = "returned" /\ selected'.status # "success"
    BY <1>3 DEF ScanCall
  <2> QED   BY <2>1 DEF ScanInv, ScanTakesTheNearest
<1>4. CASE ~(scan'.krefine > scan'.group \/ ~valid_tasks')
  <2>1. kernel' = "scan" /\ selected' = selected
    BY <1>4 DEF ScanCall
  <2>2. ScanValid'
    <3>1. scan'.krefine \in Nat /\ scan'.group \in Nat
      <4>1. \A asked \in Scans : asked.krefine \in Nat /\ asked.group \in Nat
        <5>1. ASSUME NEW asked \in Scans PROVE asked.krefine \in Nat /\ asked.group \in Nat
          <6>1. PICK e \in 0 .. 7 : asked.group = Power(e)
            BY ScanAssumption DEF ScanAssumption
          <6>2. e \in 0 .. 8   OBVIOUS
          <6>3. asked.group \in Nat
            BY <6>1, <6>2, PowerFacts
          <6> QED   BY <6>3, ScanAssumption DEF ScanAssumption
        <5> QED   BY <5>1
      <4> QED   BY <1>2, <4>1
    <3> QED   BY <1>2, <1>4, <3>1 DEF ScanValid
  <2>3. \E i \in 1 .. Len(scan'.tasks) + 1, count \in Nat : ScanPart(i, count)'
    <3>1. PICK len \in Nat : len = Len(scan'.tasks)
      <4>1. \A asked \in Scans : Len(asked.tasks) \in Nat
        BY ScanAssumption DEF ScanAssumption
      <4> QED   BY <1>2, <4>1
    <3>2. 1 \in 1 .. len + 1 /\ 0 \in Nat
      BY <3>1
    <3>3. Seen(1, 0)' = {}
      BY DEF Seen
    <3>4. HoldsFirsts(NothingKept', {}, ScanOrder, scan'.krefine, Blank)
      <4>1. \A asked \in Scans : asked.krefine \in Nat
        BY ScanAssumption DEF ScanAssumption
      <4>2. PICK k \in Nat : k = scan'.krefine
        BY <1>2, <4>1
      <4>3. \A t \in 0 .. k - 1 : NothingKept'[t] = Blank
        BY <4>2 DEF NothingKept
      <4> QED   BY <4>2, <4>3, NothingHolds
    <3>5. IsAList(task_slots')
      BY <1>2 DEF IsAList
    <3>6. Stored(0)'
      BY DEF Stored
    <3>7. Len(task_slots') = 0
      BY <1>2
    <3>8. ScanPart(1, 0)'
      BY <1>2, <3>3, <3>4, <3>5, <3>6, <3>7 DEF ScanPart, Holding
    <3> QED   BY <3>1, <3>2, <3>8
  <2> QED   BY <1>1, <1>2, <2>1, <2>2, <2>3 DEF ScanInv
<1> QED   BY <1>3, <1>4

\* A group takes its next rows.
LEMMA ScanTurnStep ==
  ASSUME ScanInv, ScanTurn
  PROVE  ScanInv'
<1>1. /\ kernel = "scan" /\ kernel' = "scan" /\ scan' = scan /\ group_id' = group_id
      /\ task_slots' = task_slots /\ positions' = positions /\ selected' = selected
      /\ group_id <= Len(scan.tasks) /\ base' = base + scan.group
      /\ kept' = Turn(kept, [lane \in GroupLanes |-> Incoming(scan.tasks[group_id], base + lane)])
  BY DEF ScanTurn, ScanTask
<1>2. ScanValid /\ positions = <<>> /\ selected.status = "none"
  BY <1>1 DEF ScanInv
<1>3. PICK i \in 1 .. Len(scan.tasks) + 1, count \in Nat : ScanPart(i, count)
  BY <1>1 DEF ScanInv
<1>4. /\ i = group_id /\ count = base /\ Len(task_slots) = i - 1 /\ IsAList(task_slots)
      /\ i <= Len(scan.tasks) => Holding(kept, Seen(i, count))
      /\ Stored(i - 1)
  BY <1>3 DEF ScanPart
<1>5. PICK g \in Nat : g = scan.group /\ Len(scan.tasks) \in Nat
  BY <1>2, CallFacts DEF ScanValid
<1>6. i \in 1 .. Len(scan.tasks) /\ i <= Len(scan.tasks)
  BY <1>1, <1>4, <1>5
<1>7. PICK incoming : incoming = [lane \in GroupLanes |-> Incoming(scan.tasks[i], count + lane)]
  OBVIOUS
<1>8. kept' = Turn(kept, incoming)
  BY <1>1, <1>4, <1>7
<1>9. Holding(kept, Seen(i, count))
  BY <1>4, <1>6
<1>10. Holding(kept', Seen(i, count + g))
  BY <1>2, <1>5, <1>6, <1>7, <1>8, <1>9, ScanTurnHolds
<1>11. ScanPart(i, count + g)'
  <2>1. i = group_id' /\ count + g = base' /\ Len(task_slots') = i - 1 /\ IsAList(task_slots')
    BY <1>1, <1>4, <1>5
  <2>2. Stored(i - 1)'
    BY <1>1, <1>4, KeepParts
  <2>3. Seen(i, count + g)' = Seen(i, count + g)
    BY <1>1, KeepScan
  <2>4. HoldsFirsts(kept', Seen(i, count + g)', ScanOrder, scan'.krefine, Blank)
    BY <1>1, <1>10, <2>3 DEF Holding
  <2> QED   BY <1>1, <1>6, <2>1, <2>2, <2>4 DEF ScanPart, Holding
<1>12. count + g \in Nat /\ i \in 1 .. Len(scan'.tasks) + 1
  BY <1>1, <1>3, <1>5
<1>13. ScanValid'
  BY <1>1, <1>2, KeepCall
<1> QED   BY <1>1, <1>2, <1>11, <1>12, <1>13 DEF ScanInv

\* A group stores its list.
LEMMA StoreListStep ==
  ASSUME ScanInv, StoreList
  PROVE  ScanInv'
<1>1. /\ kernel = "scan" /\ kernel' = "scan" /\ scan' = scan /\ group_id' = group_id + 1
      /\ task_slots' = Append(task_slots, kept) /\ positions' = positions /\ selected' = selected
      /\ group_id <= Len(scan.tasks) /\ base >= scan.tasks[group_id].list_count
      /\ base' = 0 /\ kept' = NothingKept
  BY DEF StoreList, ScanTask
<1>2. ScanValid /\ positions = <<>> /\ selected.status = "none"
  BY <1>1 DEF ScanInv
<1>3. PICK i \in 1 .. Len(scan.tasks) + 1, count \in Nat : ScanPart(i, count)
  BY <1>1 DEF ScanInv
<1>4. /\ i = group_id /\ count = base /\ Len(task_slots) = i - 1 /\ IsAList(task_slots)
      /\ i <= Len(scan.tasks) => Holding(kept, Seen(i, count))
      /\ Stored(i - 1)
  BY <1>3 DEF ScanPart
<1>5. PICK total \in Nat : total = Len(scan.tasks)
  BY <1>2, CallFacts DEF ScanValid
<1>6. i \in 1 .. total /\ i \in 1 .. Len(scan.tasks) /\ i \in Nat
  BY <1>1, <1>3, <1>4, <1>5
<1>7. Holding(kept, TaskRows(i))
  <2>1. Seen(i, count) = TaskRows(i)
    BY <1>1, <1>2, <1>4, <1>6, SeenIs
  <2> QED   BY <1>1, <1>4, <2>1
<1>8. /\ IsAList(task_slots') /\ Len(task_slots') = (i - 1) + 1 /\ task_slots'[(i - 1) + 1] = kept
      /\ \A j \in 1 .. i - 1 : task_slots'[j] = task_slots[j]
  <2>1. task_slots' = Append(task_slots, kept)
    BY <1>1
  <2>2. IsAList(task_slots) /\ Len(task_slots) = i - 1
    BY <1>4
  <2>3. Extends(task_slots', task_slots, kept)
    BY <2>1, <2>2, ListGrows
  <2> QED   BY <2>2, <2>3 DEF Extends
<1>9. (i - 1) + 1 = i /\ (i + 1) - 1 = i
  BY <1>6
<1>10. Stored(i)'
  <2>1. ASSUME NEW j \in 1 .. i PROVE Holding(task_slots'[j], TaskRows(j))
    <3>1. CASE j = i
      BY <1>7, <1>8, <1>9, <3>1
    <3>2. CASE j # i
      <4>1. j \in 1 .. i - 1
        BY <1>6, <3>2
      <4> QED   BY <1>4, <1>8, <4>1 DEF Stored
    <3> QED   BY <3>1, <3>2
  <2>2. \A j : TaskRows(j)' = TaskRows(j)
    BY <1>1, KeepScan
  <2>3. \A j \in 1 .. i : HoldsFirsts(task_slots'[j], TaskRows(j)', ScanOrder, scan'.krefine, Blank)
    BY <1>1, <2>1, <2>2 DEF Holding
  <2> QED   BY <2>3 DEF Stored, Holding
<1>11. HoldsFirsts(kept', Seen(i + 1, 0)', ScanOrder, scan'.krefine, Blank)
  <2>1. Seen(i + 1, 0)' = {}
    BY DEF Seen
  <2>2. Holding(NothingKept, {})
    BY <1>2, NothingIsHeld DEF ScanValid, Holding
  <2> QED   BY <1>1, <2>1, <2>2 DEF Holding
<1>12. kept' = NothingKept'
  BY <1>1, KeepCall
<1>13. ScanPart(i + 1, 0)'
  <2>1. /\ i + 1 = group_id' /\ 0 = base' /\ Len(task_slots') = (i + 1) - 1
        /\ IsAList(task_slots') /\ Stored((i + 1) - 1)'
    BY <1>1, <1>4, <1>8, <1>9, <1>10
  <2> QED   BY <1>1, <1>11, <1>12, <2>1 DEF ScanPart, Holding
<1>14. 0 \in Nat /\ i + 1 \in 1 .. Len(scan'.tasks) + 1
  BY <1>1, <1>5, <1>6
<1>15. ScanValid'
  BY <1>1, <1>2, KeepCall
<1> QED   BY <1>1, <1>2, <1>13, <1>14, <1>15 DEF ScanInv

\* All lists are stored.
LEMMA MergeStarts ==
  ASSUME ScanInv, Merge
  PROVE  ScanInv'
<1>1. /\ kernel = "scan" /\ kernel' = "merge" /\ scan' = scan /\ group_id' = 0
      /\ group_id > Len(scan.tasks) /\ base' = base /\ kept' = kept
      /\ task_slots' = task_slots /\ positions' = positions /\ selected' = selected
  BY DEF Merge
<1>2. ScanValid /\ positions = <<>> /\ selected.status = "none"
  BY <1>1 DEF ScanInv
<1>3. PICK i \in 1 .. Len(scan.tasks) + 1, count \in Nat : ScanPart(i, count)
  BY <1>1 DEF ScanInv
<1>4. PICK total \in Nat : total = Len(scan.tasks)
  BY <1>2, CallFacts DEF ScanValid
<1>5. i = total + 1 /\ i - 1 = total /\ i > Len(scan.tasks)
  BY <1>1, <1>3, <1>4 DEF ScanPart
<1>6. base = 0 /\ kept = NothingKept /\ Stored(total)
  BY <1>3, <1>5 DEF ScanPart
<1>7. HoldsFirsts(kept', QueryRows(0, 0)', ScanOrder, scan'.krefine, Blank)
  <2>1. QueryRows(0, 0)' = {}
    BY DEF QueryRows
  <2>2. Holding(NothingKept, {})
    BY <1>2, NothingIsHeld DEF ScanValid, Holding
  <2> QED   BY <1>1, <1>6, <2>1, <2>2 DEF Holding
<1>8. ASSUME NEW j \in 1 .. total
      PROVE  /\ j <= 0 => scan'.tasks[j].query_index <= 0
             /\ j > 0 => scan'.tasks[j].query_index >= 0
  <2>1. scan.tasks[j].query_index \in 0 .. scan.nq - 1
    BY <1>2, <1>4, TaskFacts
  <2> QED   BY <1>1, <2>1
<1>9. Stored(total)'
  BY <1>1, <1>6, KeepParts
<1>10. Len(positions') = 0 /\ IsAList(positions')
  BY <1>1, <1>2 DEF IsAList
<1>11. \A q \in 0 .. 0 - 1 : AnsweredIs(q)'   OBVIOUS
<1>12. MergePart(0, 0)'
  BY <1>1, <1>4, <1>6, <1>7, <1>8, <1>9, <1>10, <1>11 DEF MergePart, Holding
<1>13. 0 \in 0 .. scan'.nq - 1 /\ 0 \in 0 .. Len(scan'.tasks)
  <2>1. scan.nq \in Nat \ {0}
    BY <1>2, CallFacts DEF ScanValid
  <2> QED   BY <1>1, <1>4, <2>1
<1>14. ScanValid'
  BY <1>1, <1>2, KeepCall
<1> QED   BY <1>1, <1>2, <1>12, <1>13, <1>14 DEF ScanInv

\* A group takes the list of its next task.
LEMMA MergeTurnStep ==
  ASSUME ScanInv, MergeTurn
  PROVE  ScanInv'
<1>1. /\ kernel = "merge" /\ kernel' = "merge" /\ scan' = scan /\ group_id' = group_id
      /\ task_slots' = task_slots /\ positions' = positions /\ selected' = selected
      /\ base < Len(scan.tasks) /\ scan.tasks[base + 1].query_index = group_id
      /\ base' = base + 1
      /\ kept' = Turn(kept, [lane \in GroupLanes |->
                               IF lane < scan.krefine THEN task_slots[base + 1][lane] ELSE Blank])
  BY DEF MergeTurn, MoreTasks
<1>2. ScanValid /\ selected.status = "none"
  BY <1>1 DEF ScanInv
<1>3. PICK query \in 0 .. scan.nq - 1, upto \in 0 .. Len(scan.tasks) : MergePart(query, upto)
  BY <1>1 DEF ScanInv
<1>4. /\ query = group_id /\ upto = base /\ Stored(Len(scan.tasks))
      /\ Holding(kept, QueryRows(query, upto))
      /\ \A i \in 1 .. Len(scan.tasks) : /\ i <= upto => scan.tasks[i].query_index <= query
                                         /\ i > upto => scan.tasks[i].query_index >= query
      /\ Len(positions) = query /\ IsAList(positions)
      /\ \A q \in 0 .. query - 1 : AnsweredIs(q)
  BY <1>3 DEF MergePart
<1>5. PICK total \in Nat : total = Len(scan.tasks)
  BY <1>2, CallFacts DEF ScanValid
<1>6. upto \in Nat /\ upto < total /\ upto + 1 \in 1 .. total /\ query = scan.tasks[upto + 1].query_index
  BY <1>1, <1>3, <1>4, <1>5
<1>7. PICK incoming : incoming = [lane \in GroupLanes |->
                                    IF lane < scan.krefine THEN task_slots[upto + 1][lane] ELSE Blank]
  OBVIOUS
<1>8. kept' = Turn(kept, incoming)
  BY <1>1, <1>4, <1>7
<1>9. Holding(kept', QueryRows(query, upto + 1))
  <2>1. PICK stored : stored = task_slots[upto + 1]   OBVIOUS
  <2>2. Holding(stored, TaskRows(upto + 1))
    BY <1>4, <1>5, <1>6, <2>1 DEF Stored
  <2>3. incoming = [lane \in GroupLanes |-> IF lane < scan.krefine THEN stored[lane] ELSE Blank]
    BY <1>7, <2>1
  <2>4. upto < Len(scan.tasks)
    BY <1>5, <1>6
  <2>5. Holding(Turn(kept, incoming), QueryRows(query, upto + 1))
    BY <1>2, <1>4, <1>6, <2>2, <2>3, <2>4, MergeTurnHolds
  <2> QED   BY <1>8, <2>5
<1>10. HoldsFirsts(kept', QueryRows(query, upto + 1)', ScanOrder, scan'.krefine, Blank)
  <2>1. QueryRows(query, upto + 1)' = QueryRows(query, upto + 1)
    BY <1>1, KeepScan
  <2> QED   BY <1>1, <1>9, <2>1 DEF Holding
<1>11. ASSUME NEW i \in 1 .. total
       PROVE  /\ i <= upto + 1 => scan'.tasks[i].query_index <= query
              /\ i > upto + 1 => scan'.tasks[i].query_index >= query
  <2>1. i <= upto + 1 => i <= upto \/ i = upto + 1
    BY <1>6
  <2>2. i > upto + 1 => i > upto
    BY <1>6
  <2> QED   BY <1>1, <1>3, <1>4, <1>5, <1>6, <2>1, <2>2
<1>12. Stored(total)'
  BY <1>1, <1>4, <1>5, KeepParts
<1>13. ASSUME NEW q \in 0 .. query - 1 PROVE AnsweredIs(q)'
  <2>1. AnsweredIs(q)' <=> AnsweredIs(q)
    BY <1>1, KeepParts
  <2> QED   BY <1>4, <2>1
<1>14. MergePart(query, upto + 1)'
  <2>1. /\ query = group_id' /\ upto + 1 = base' /\ Len(positions') = query /\ IsAList(positions')
        /\ Len(scan'.tasks) = total
    BY <1>1, <1>4, <1>5
  <2> QED   BY <1>10, <1>11, <1>12, <1>13, <2>1 DEF MergePart, Holding
<1>15. query \in 0 .. scan'.nq - 1 /\ upto + 1 \in 0 .. Len(scan'.tasks)
  BY <1>1, <1>5, <1>6
<1>16. ScanValid'
  BY <1>1, <1>2, KeepCall
<1> QED   BY <1>1, <1>2, <1>14, <1>15, <1>16 DEF ScanInv

\* A group that has seen all tasks of its query stores its best.
LEMMA StorePositionsStep ==
  ASSUME ScanInv, StorePositions
  PROVE  ScanInv'
<1>1. /\ kernel = "merge" /\ scan' = scan /\ group_id' = group_id + 1 /\ base' = base
      /\ task_slots' = task_slots /\ selected' = selected /\ kept' = NothingKept
      /\ positions' = Append(positions,
                             [rank \in 1 .. scan.krefine |-> kept[rank - 1].position])
      /\ kernel' = IF group_id + 1 = scan.nq THEN "copied" ELSE "merge"
      /\ ~(base < Len(scan.tasks) /\ scan.tasks[base + 1].query_index = group_id)
  BY DEF StorePositions, MoreTasks
<1>2. ScanValid /\ selected.status = "none"
  BY <1>1 DEF ScanInv
<1>3. PICK query \in 0 .. scan.nq - 1, upto \in 0 .. Len(scan.tasks) : MergePart(query, upto)
  BY <1>1 DEF ScanInv
<1>4. /\ query = group_id /\ upto = base /\ Stored(Len(scan.tasks))
      /\ Holding(kept, QueryRows(query, upto))
      /\ \A i \in 1 .. Len(scan.tasks) : /\ i <= upto => scan.tasks[i].query_index <= query
                                         /\ i > upto => scan.tasks[i].query_index >= query
      /\ Len(positions) = query /\ IsAList(positions)
      /\ \A q \in 0 .. query - 1 : AnsweredIs(q)
  BY <1>3 DEF MergePart
<1>5. PICK total \in Nat, nq \in Nat \ {0} : total = Len(scan.tasks) /\ nq = scan.nq
  BY <1>2, CallFacts DEF ScanValid
<1>6. upto \in Nat /\ upto <= total /\ query \in Nat /\ query < nq
  BY <1>3, <1>5
<1>7. \A i \in 1 .. total : scan.tasks[i].query_index \in Int
  <2>1. ASSUME NEW i \in 1 .. total PROVE scan.tasks[i].query_index \in Int
    <3>1. scan.tasks[i].query_index \in 0 .. scan.nq - 1
      BY <1>2, <1>5, TaskFacts
    <3> QED   BY <3>1
  <2> QED   BY <2>1
<1>8. ASSUME NEW i \in 1 .. total, i > upto PROVE scan.tasks[i].query_index >= query + 1
  <2>1. upto + 1 \in 1 .. total /\ i \in upto + 1 .. total /\ upto < total
    BY <1>6, <1>8
  <2>2. scan.tasks[upto + 1].query_index # query
    BY <1>1, <1>4, <1>5, <2>1
  <2>3. scan.tasks[upto + 1].query_index >= query
    BY <1>4, <1>5, <1>6, <2>1
  <2>4. scan.tasks[upto + 1].query_index >= query + 1
    BY <1>6, <1>7, <2>1, <2>2, <2>3
  <2>5. scan.tasks[upto + 1].query_index <= scan.tasks[i].query_index
    BY <1>2, <1>5, <2>1, QueriesRise
  <2>6. scan.tasks[upto + 1].query_index \in Int /\ scan.tasks[i].query_index \in Int
    BY <1>7, <2>1
  <2> QED   BY <1>6, <2>4, <2>5, <2>6
<1>9. QueryRows(query, upto) = Candidates(query)
  <2>1. ASSUME NEW i \in 1 .. total, scan.tasks[i].query_index = query PROVE i \in 1 .. upto
    <3>1. ~(i > upto)
      BY <1>6, <1>8, <2>1
    <3> QED   BY <1>6, <3>1
  <2>2. \A i \in 1 .. upto : i \in 1 .. total
    BY <1>6
  <2>3. ASSUME NEW x PROVE x \in QueryRows(query, upto) <=> x \in QueryRows(query, total)
    BY <2>1, <2>2, QueryRowsAre
  <2> QED   BY <1>5, <2>3, CandidatesAre
<1>10. PICK chosen : chosen = [rank \in 1 .. scan.krefine |-> kept[rank - 1].position]   OBVIOUS
<1>11. /\ chosen = Best(query)
       /\ Cardinality({rank \in 1 .. scan.krefine : chosen[rank] >= 0})
            = Min({scan.krefine, Cardinality(Candidates(query))})
  <2>1. Holding(kept, Candidates(query))
    BY <1>4, <1>9
  <2> QED   BY <1>2, <1>10, <2>1, BestIs
<1>12. Extends(positions', positions, chosen)
  <2>1. positions' = Append(positions, chosen) /\ IsAList(positions)
    BY <1>1, <1>4, <1>10
  <2> QED   BY <2>1, ListGrows
<1>13. /\ IsAList(positions') /\ Len(positions') = query + 1 /\ positions'[query + 1] = chosen
       /\ \A i \in 1 .. query : positions'[i] = positions[i]
  BY <1>4, <1>12 DEF Extends
<1>14. ASSUME NEW q \in 0 .. query PROVE AnsweredIs(q)'
  <2>1. Best(q)' = Best(q) /\ Candidates(q)' = Candidates(q)
    BY <1>1, KeepScan
  <2>2. /\ positions'[q + 1] = Best(q)
        /\ Cardinality({rank \in 1 .. scan.krefine : positions'[q + 1][rank] >= 0})
             = Min({scan.krefine, Cardinality(Candidates(q))})
    <3>1. CASE q = query
      BY <1>11, <1>13, <3>1
    <3>2. CASE q # query
      <4>1. q \in 0 .. query - 1 /\ q + 1 \in 1 .. query
        BY <1>6, <3>2
      <4>2. positions'[q + 1] = positions[q + 1]
        BY <1>13, <4>1
      <4> QED   BY <1>4, <4>1, <4>2 DEF AnsweredIs
    <3> QED   BY <3>1, <3>2
  <2> QED   BY <1>1, <2>1, <2>2 DEF AnsweredIs
<1>15. ScanValid'
  BY <1>1, <1>2, KeepCall
<1>16. CASE group_id + 1 = scan.nq
  <2>1. kernel' = "copied" /\ query + 1 = nq
    BY <1>1, <1>4, <1>5, <1>16
  <2>2. ASSUME NEW q \in 0 .. nq - 1 PROVE AnsweredIs(q)'
    <3>1. q \in 0 .. query
      BY <1>6, <2>1
    <3> QED   BY <1>14, <3>1
  <2> QED   BY <1>1, <1>2, <1>5, <1>15, <2>1, <2>2 DEF ScanInv
<1>17. CASE group_id + 1 # scan.nq
  <2>1. kernel' = "merge" /\ query + 1 \in 0 .. nq - 1
    BY <1>1, <1>4, <1>5, <1>6, <1>17
  <2>2. HoldsFirsts(kept', QueryRows(query + 1, upto)', ScanOrder, scan'.krefine, Blank)
    <3>1. QueryRows(query + 1, upto) = {}
      <4>1. ASSUME NEW x PROVE x \notin QueryRows(query + 1, upto)
        <5>1. SUFFICES ASSUME NEW i \in 1 .. upto, scan.tasks[i].query_index = query + 1 PROVE FALSE
          BY QueryRowsAre
        <5>2. i \in 1 .. total /\ i <= upto
          BY <1>6
        <5>3. scan.tasks[i].query_index <= query
          BY <1>4, <1>5, <5>2
        <5> QED   BY <1>6, <5>1, <5>3
      <4> QED   BY <4>1
    <3>2. QueryRows(query + 1, upto)' = QueryRows(query + 1, upto)
      BY <1>1, KeepScan
    <3>3. HoldsFirsts(NothingKept, {}, ScanOrder, scan.krefine, Blank)
      BY <1>2, NothingIsHeld DEF ScanValid
    <3> QED   BY <1>1, <3>1, <3>2, <3>3
  <2>3. ASSUME NEW i \in 1 .. total
        PROVE  /\ i <= upto => scan'.tasks[i].query_index <= query + 1
               /\ i > upto => scan'.tasks[i].query_index >= query + 1
    <3>1. i <= upto => scan.tasks[i].query_index <= query
      BY <1>4, <1>5
    <3>2. i <= upto => scan.tasks[i].query_index <= query + 1
      BY <1>6, <1>7, <3>1
    <3> QED   BY <1>1, <1>8, <3>2
  <2>4. Stored(total)'
    BY <1>1, <1>4, <1>5, KeepParts
  <2>5. ASSUME NEW q \in 0 .. (query + 1) - 1 PROVE AnsweredIs(q)'
    <3>1. q \in 0 .. query
      BY <1>6
    <3> QED   BY <1>14, <3>1
  <2>6. MergePart(query + 1, upto)'
    <3>1. /\ query + 1 = group_id' /\ upto = base' /\ Len(positions') = query + 1
          /\ IsAList(positions') /\ Len(scan'.tasks) = total
      BY <1>1, <1>4, <1>5, <1>13
    <3> QED   BY <2>2, <2>3, <2>4, <2>5, <3>1 DEF MergePart, Holding
  <2>7. query + 1 \in 0 .. scan'.nq - 1 /\ upto \in 0 .. Len(scan'.tasks)
    BY <1>1, <1>5, <1>6, <2>1
  <2> QED   BY <1>1, <1>2, <1>15, <2>1, <2>6, <2>7 DEF ScanInv
<1> QED   BY <1>16, <1>17

\* The host answers.
LEMMA PublishStep ==
  ASSUME ScanInv, PublishSelection
  PROVE  ScanInv'
<1>1. /\ kernel = "copied" /\ kernel' = "returned" /\ scan' = scan
      /\ selected' =
           IF invalid_input THEN [status |-> "invalid_argument"]
           ELSE [status |-> "success", positions |-> positions,
                 counts |-> [query \in 1 .. scan.nq |->
                               Cardinality({rank \in 1 .. scan.krefine :
                                              positions[query][rank] >= 0})]]
  BY DEF PublishSelection
<1>2. ScanValid /\ \A query \in 0 .. scan.nq - 1 : AnsweredIs(query)
  BY <1>1 DEF ScanInv
<1>3. PICK nq \in Nat : nq = scan.nq
  BY <1>2, CallFacts DEF ScanValid
<1>4. CASE invalid_input
  <2>1. selected'.status = "invalid_argument"
    BY <1>1, <1>4
  <2> QED   BY <1>1, <2>1 DEF ScanInv, ScanTakesTheNearest
<1>5. CASE ~invalid_input
  <2>1. /\ selected'.positions = positions
        /\ selected'.counts = [query \in 1 .. nq |->
             Cardinality({rank \in 1 .. scan.krefine : positions[query][rank] >= 0})]
    BY <1>1, <1>3, <1>5
  <2>2. ASSUME NEW query \in 0 .. nq - 1
        PROVE  /\ selected'.positions[query + 1] = Best(query)'
               /\ selected'.counts[query + 1]
                    = Min({scan'.krefine, Cardinality(Candidates(query)')})
    <3>1. query + 1 \in 1 .. nq   OBVIOUS
    <3>2. selected'.counts[query + 1]
            = Cardinality({rank \in 1 .. scan.krefine : positions[query + 1][rank] >= 0})
      BY <2>1, <3>1
    <3>3. /\ positions[query + 1] = Best(query)
          /\ Cardinality({rank \in 1 .. scan.krefine : positions[query + 1][rank] >= 0})
               = Min({scan.krefine, Cardinality(Candidates(query))})
      BY <1>2, <1>3 DEF AnsweredIs
    <3>4. Best(query)' = Best(query) /\ Candidates(query)' = Candidates(query)
      BY <1>1, KeepScan
    <3> QED   BY <1>1, <2>1, <3>2, <3>3, <3>4
  <2>3. ScanTakesTheNearest'
    BY <1>1, <1>3, <2>2 DEF ScanTakesTheNearest
  <2> QED   BY <1>1, <2>3 DEF ScanInv
<1> QED   BY <1>4, <1>5

LEMMA ScanStays ==
  ASSUME ScanInv, UNCHANGED scanVars
  PROVE  ScanInv'
<1>1. /\ scan' = scan /\ kernel' = kernel /\ group_id' = group_id /\ base' = base /\ kept' = kept
      /\ task_slots' = task_slots /\ positions' = positions /\ selected' = selected
  BY DEF scanVars
<1>2. ScanValid => ScanValid'
  BY <1>1, KeepCall
<1>3. ASSUME NEW i, NEW count, ScanPart(i, count) PROVE ScanPart(i, count)'
  <2>1. Seen(i, count)' = Seen(i, count) /\ NothingKept' = NothingKept
    BY <1>1, KeepScan, KeepCall
  <2>2. Stored(i - 1)' <=> Stored(i - 1)
    BY <1>1, KeepParts
  <2> QED   BY <1>1, <1>3, <2>1, <2>2 DEF ScanPart, Holding
<1>4. ASSUME NEW query, NEW upto, MergePart(query, upto) PROVE MergePart(query, upto)'
  <2>1. QueryRows(query, upto)' = QueryRows(query, upto)
    BY <1>1, KeepScan
  <2>2. Stored(Len(scan.tasks))' <=> Stored(Len(scan.tasks))
    BY <1>1, KeepParts
  <2>3. \A q : AnsweredIs(q)' <=> AnsweredIs(q)
    BY <1>1, KeepParts
  <2> QED   BY <1>1, <1>4, <2>1, <2>2, <2>3 DEF MergePart, Holding
<1>5. \A query : AnsweredIs(query)' <=> AnsweredIs(query)
  BY <1>1, KeepParts
<1>6. ScanTakesTheNearest => ScanTakesTheNearest'
  <2>1. \A query : Candidates(query)' = Candidates(query) /\ Best(query)' = Best(query)
    BY <1>1, KeepScan
  <2> QED   BY <1>1, <2>1 DEF ScanTakesTheNearest
<1>7. CASE kernel = "scan"
  BY <1>1, <1>2, <1>3, <1>7 DEF ScanInv
<1>8. CASE kernel = "merge"
  BY <1>1, <1>2, <1>4, <1>8 DEF ScanInv
<1>9. CASE kernel \notin {"scan", "merge"}
  BY <1>1, <1>2, <1>5, <1>6, <1>9 DEF ScanInv
<1> QED   BY <1>7, <1>8, <1>9

\* ScanInv holds: the slots of every group are the best of the rows it has seen.
THEOREM ScanPhases == ScanSpec => []ScanInv
<1>1. ScanInit => ScanInv
  BY DEF ScanInit, ScanInv
<1>2. ScanInv /\ [ScanNext]_scanVars => ScanInv'
  BY CallStep, ScanTurnStep, StoreListStep, MergeStarts, MergeTurnStep, StorePositionsStep,
     PublishStep, ScanStays DEF ScanNext
<1> QED   BY <1>1, <1>2, PTL DEF ScanSpec

\* A selection that succeeds is the krefine nearest allowed rows over all the
\* lists a query probes, whatever the calls are.
THEOREM AlwaysScanTakesTheNearest == ScanSpec => []ScanTakesTheNearest
<1>1. ScanInv => ScanTakesTheNearest
  <2>1. CASE kernel = "returned"
    BY <2>1 DEF ScanInv
  <2>2. CASE kernel # "returned"
    BY <2>2 DEF ScanInv, ScanTakesTheNearest
  <2> QED   BY <2>1, <2>2
<1> QED   BY <1>1, ScanPhases, PTL

-----------------------------------------------------------------------------
(* Sets of slots in order. *)

\* Slots that differ in their keys are in order.
LEMMA KeysOrder ==
  ASSUME NEW V, Keyed(V), NEW S, S \subseteq V,
         \A x, y \in S : x.key[1] = y.key[1] /\ x.key[2] = y.key[2] => x = y
  PROVE  StrictTotal(S, KeyOrder(V))
<1>1. PICK R : R = KeyOrder(V)   OBVIOUS
<1>2. ASSUME NEW x \in S, NEW y \in S PROVE <<x, y>> \in R <=> Precedes(x, y)
  <2>1. <<x, y>> \in V \X V   OBVIOUS
  <2> QED   BY <1>1, <2>1 DEF KeyOrder
<1>3. \A x \in S : <<x, x>> \notin R
  <2>1. ASSUME NEW x \in S PROVE <<x, x>> \notin R
    <3>1. x \in V   OBVIOUS
    <3>2. ~Precedes(x, x)
      BY <3>1, PrecedesFacts
    <3> QED   BY <1>2, <3>2
  <2> QED   BY <2>1
<1>4. ASSUME NEW x \in S, NEW y \in S, x # y PROVE <<x, y>> \in R \/ <<y, x>> \in R
  <2>1. x.key[1] \in Int /\ x.key[2] \in Int /\ y.key[1] \in Int /\ y.key[2] \in Int
    BY DEF Keyed
  <2>2. Precedes(x, y) \/ Precedes(y, x)
    BY <1>4, <2>1 DEF Precedes
  <2> QED   BY <1>2, <2>2
<1>5. ASSUME NEW x \in S, NEW y \in S, NEW z \in S, <<x, y>> \in R, <<y, z>> \in R
      PROVE  <<x, z>> \in R
  <2>1. Precedes(x, y) /\ Precedes(y, z) /\ x \in V /\ y \in V /\ z \in V
    BY <1>2, <1>5
  <2>2. Precedes(x, z)
    BY <2>1, PrecedesFacts
  <2> QED   BY <1>2, <2>2
<1> QED   BY <1>1, <1>3, <1>4, <1>5 DEF StrictTotal

LEMMA ListsFirsts ==
  ASSUME NEW S, IsFiniteSet(S), NEW R, StrictTotal(S, R), NEW c, NEW z, Lists(z, c, S, R)
  PROVE  /\ Firsts(z, c, S, R, c)
         /\ \A t, u \in 1 .. c : z[t] = z[u] => t = u
         /\ \A x \in S : \E t \in 1 .. c : z[t] = x
<1>1. c \in Nat /\ z \in [1 .. c -> S] /\ \A t \in 1 .. c : RankIn(S, R, z[t]) = t - 1
  BY DEF Lists
<1>2. c = IF c <= Cardinality(S) THEN c ELSE Cardinality(S)
  BY DEF Lists
<1>3. Firsts(z, c, S, R, c)
  BY <1>1, <1>2, RankedFirsts
<1>4. \A t, u \in 1 .. c : z[t] = z[u] => t = u
  <2>1. ASSUME NEW t \in 1 .. c, NEW u \in 1 .. c, z[t] = z[u] PROVE t = u
    <3>1. t - 1 = u - 1
      BY <1>1, <2>1
    <3> QED   BY <3>1
  <2> QED   BY <2>1
<1>5. ASSUME NEW x \in S PROVE \E t \in 1 .. c : z[t] = x
  <2>1. RankIn(S, R, x) \in 0 .. c - 1
    BY Ranks DEF Lists
  <2>2. PICK t \in 1 .. c : t - 1 = RankIn(S, R, x)
    <3>1. RankIn(S, R, x) + 1 \in 1 .. c /\ (RankIn(S, R, x) + 1) - 1 = RankIn(S, R, x)
      BY <1>1, <2>1
    <3> QED   BY <3>1
  <2>3. z[t] \in S /\ RankIn(S, R, z[t]) = RankIn(S, R, x)
    BY <1>1, <2>2
  <2>4. z[t] = x
    BY <2>3, Ranks
  <2> QED   BY <2>4
<1> QED   BY <1>3, <1>4, <1>5

\* The first of a set are those its list begins with.
LEMMA FirstsOfList ==
  ASSUME NEW S, IsFiniteSet(S), NEW R, StrictTotal(S, R), NEW c, NEW z, Lists(z, c, S, R),
         NEW k \in Nat, NEW m, NEW y, Firsts(y, m, S, R, k)
  PROVE  /\ m \in Nat /\ m = IF k <= c THEN k ELSE c
         /\ \A t \in 1 .. m : t \in 1 .. c /\ y[t] = z[t]
<1>1. c \in Nat /\ c = Cardinality(S) /\ z \in [1 .. c -> S]
      /\ \A t \in 1 .. c : RankIn(S, R, z[t]) = t - 1
  BY DEF Lists
<1>2. /\ m = IF k <= Cardinality(S) THEN k ELSE Cardinality(S)
      /\ \A t \in 1 .. m : RankIn(S, R, y[t]) = t - 1
  BY FirstsRanks
<1>3. m \in Nat /\ m = (IF k <= c THEN k ELSE c) /\ y \in [1 .. m -> S]
  BY <1>1, <1>2 DEF Firsts
<1>4. ASSUME NEW t \in 1 .. m PROVE t \in 1 .. c /\ y[t] = z[t]
  <2>1. t \in 1 .. c
    BY <1>1, <1>3
  <2>2. y[t] \in S /\ z[t] \in S /\ RankIn(S, R, y[t]) = RankIn(S, R, z[t])
    BY <1>1, <1>2, <1>3, <2>1
  <2> QED   BY <2>1, <2>2, Ranks
<1> QED   BY <1>3, <1>4

LEMMA RankedLists ==
  ASSUME NEW V, Keyed(V), NEW S, IsFiniteSet(S), S \subseteq V, StrictTotal(S, KeyOrder(V)),
         NEW z, z = Ranked(S, Precedes)
  PROVE  Lists(z, Len(z), S, KeyOrder(V))
<1>1. PICK R : R = KeyOrder(V)   OBVIOUS
<1>2. PICK c \in Nat : c = Cardinality(S)
  BY FS_CardinalityType
<1>3. z = [t \in 1 .. c |-> CHOOSE x \in S : Cardinality({y \in S : Precedes(y, x)}) = t - 1]
  BY <1>2 DEF Ranked
<1>4. ASSUME NEW x \in S PROVE Cardinality({y \in S : Precedes(y, x)}) = RankIn(S, R, x)
  <2>1. ASSUME NEW y \in S PROVE Precedes(y, x) <=> <<y, x>> \in R
    <3>1. <<y, x>> \in V \X V   OBVIOUS
    <3> QED   BY <1>1, <3>1 DEF KeyOrder
  <2>2. {y \in S : Precedes(y, x)} = Below(S, R, x)
    BY <2>1 DEF Below
  <2> QED   BY <2>2 DEF RankIn
<1>5. ASSUME NEW t \in 1 .. c PROVE z[t] \in S /\ RankIn(S, R, z[t]) = t - 1
  <2>1. z[t] = CHOOSE x \in S : Cardinality({y \in S : Precedes(y, x)}) = t - 1
    BY <1>3
  <2>2. t - 1 \in 0 .. Cardinality(S) - 1 /\ StrictTotal(S, R)
    BY <1>1, <1>2
  <2>3. PICK x \in S : RankIn(S, R, x) = t - 1
    BY <2>2, RanksReach
  <2>4. \E u \in S : Cardinality({y \in S : Precedes(y, u)}) = t - 1
    BY <1>4, <2>3
  <2>5. z[t] \in S /\ Cardinality({y \in S : Precedes(y, z[t])}) = t - 1
    BY <2>1, <2>4
  <2> QED   BY <1>4, <2>5
<1>6. z \in [1 .. c -> S]
  <2>1. \A t \in 1 .. c : z[t] \in S
    BY <1>5
  <2>2. z = [t \in 1 .. c |-> z[t]]
    BY <1>3
  <2> QED   BY <2>1, <2>2
<1>7. Len(z) = c
  BY <1>2, <1>6
<1> QED   BY <1>1, <1>2, <1>5, <1>6, <1>7 DEF Lists

-----------------------------------------------------------------------------
(* A call that the reference answers with a graph. *)

LEMMA Shapes ==
  ASSUME HostValid
  PROVE  /\ N \in Nat /\ N > 1 /\ I \in Nat /\ I > 0 /\ I < N /\ final_degree \in 1 .. I
         /\ initial \in [Nodes -> [1 .. I -> Nodes]]
         /\ \A row \in Nodes : \A t \in 1 .. I : initial[row][t] # row
         /\ \A row \in Nodes : \A t, u \in 1 .. I : initial[row][t] = initial[row][u] => t = u
<1>1. valid_call /\ ranked_rows_valid /\ initial \in Graphs /\ final_degree \in FinalDegrees
  BY DEF HostValid
<1>2. N \in Nat /\ I \in Nat /\ initial \in [0 .. N - 1 -> [1 .. I -> Int]] /\ final_degree \in Int
  BY <1>1, OptAssumption DEF OptAssumption, N, I
<1>3. N > 1 /\ I > 0 /\ I < N /\ final_degree \in 1 .. I
  BY <1>1, <1>2 DEF valid_call
<1>4. initial \in [Nodes -> [1 .. I -> Int]]
  BY <1>2 DEF Nodes
<1>5. \A row \in Nodes : \A t \in 1 .. I : initial[row][t] \in Nodes /\ initial[row][t] # row
  BY <1>1 DEF ranked_rows_valid
<1>6. ASSUME NEW row \in Nodes
      PROVE  \A t, u \in 1 .. I : initial[row][t] = initial[row][u] => t = u
  <2>1. IsInjective(initial[row])
    BY <1>1 DEF ranked_rows_valid
  <2>2. DOMAIN initial[row] = 1 .. I
    BY <1>4
  <2> QED   BY <2>1, <2>2 DEF IsInjective
<1>7. ASSUME NEW row \in Nodes PROVE initial[row] \in [1 .. I -> Nodes]
  <2>1. initial[row] \in [1 .. I -> Int]
    BY <1>4
  <2>2. \A t \in 1 .. I : initial[row][t] \in Nodes
    BY <1>5
  <2> QED   BY <2>1, <2>2
<1>8. initial \in [Nodes -> [1 .. I -> Nodes]]
  <2>1. initial = [row \in Nodes |-> initial[row]]
    BY <1>4
  <2> QED   BY <2>1, <1>7
<1> QED   BY <1>2, <1>3, <1>5, <1>6, <1>8

\* The rank of an id, found by its place in the row.
LEMMA RankOf ==
  ASSUME HostValid, NEW row \in Nodes
  PROVE  /\ \A r \in 0 .. I - 1 : rank_of(row, initial[row][r + 1]) = r
         /\ \A id : (\A t \in 1 .. I : initial[row][t] # id) => rank_of(row, id) = I
<1>1. I \in Nat /\ \A t, u \in 1 .. I : initial[row][t] = initial[row][u] => t = u
  BY Shapes
<1>2. ASSUME NEW r \in 0 .. I - 1 PROVE rank_of(row, initial[row][r + 1]) = r
  <2>1. PICK id : id = initial[row][r + 1]   OBVIOUS
  <2>2. r + 1 \in 1 .. I
    BY <1>1
  <2>3. rank_of(row, id) = CHOOSE rank \in 0 .. I - 1 : initial[row][rank + 1] = id
    BY <2>1, <2>2 DEF rank_of
  <2>4. rank_of(row, id) \in 0 .. I - 1 /\ initial[row][rank_of(row, id) + 1] = id
    BY <2>1, <2>3
  <2>5. rank_of(row, id) + 1 \in 1 .. I /\ rank_of(row, id) \in Int
    BY <1>1, <2>4
  <2>6. rank_of(row, id) + 1 = r + 1
    BY <1>1, <2>1, <2>2, <2>4, <2>5
  <2> QED   BY <2>1, <2>5, <2>6
<1>3. ASSUME NEW id, \A t \in 1 .. I : initial[row][t] # id PROVE rank_of(row, id) = I
  BY <1>3 DEF rank_of
<1> QED   BY <1>2, <1>3

LEMMA DetoursAre ==
  ASSUME HostValid, NEW row \in Nodes, NEW y \in 0 .. I - 1
  PROVE  detours(row, y) \in 0 .. y
<1>1. I \in Nat
  BY Shapes
<1>2. PICK Z : Z = {z \in 0 .. y - 1 : rank_of(initial[row][z + 1], initial[row][y + 1]) < y}
  OBVIOUS
<1>3. Z \subseteq 0 .. y - 1
  BY <1>2
<1>4. IsFiniteSet(0 .. y - 1) /\ Cardinality(0 .. y - 1) = y
  BY <1>1, FS_Interval
<1>5. IsFiniteSet(Z) /\ Cardinality(Z) <= Cardinality(0 .. y - 1)
  BY <1>3, <1>4, FS_Subset
<1>6. Cardinality(Z) \in Nat
  BY <1>5, FS_CardinalityType
<1>7. detours(row, y) = Cardinality(Z)
  BY <1>2 DEF detours
<1> QED   BY <1>1, <1>4, <1>5, <1>6, <1>7

LEMMA OptKeyed == Keyed(OptSlots)
BY DEF Keyed, OptSlots

LEMMA RowCandidateIs ==
  ASSUME HostValid, NEW row \in Nodes, NEW r \in 0 .. I - 1
  PROVE  /\ Candidate(row, r) \in OptSlots /\ Candidate(row, r).id = initial[row][r + 1]
         /\ Candidate(row, r).key[1] = detours(row, r) /\ Candidate(row, r).key[2] = r
         /\ Candidate(row, r) \in RowCandidates(row) /\ Precedes(Candidate(row, r), LastKey)
<1>1. I \in Nat /\ N \in Nat /\ I < N /\ initial \in [Nodes -> [1 .. I -> Nodes]]
  BY Shapes
<1>2. detours(row, r) \in 0 .. r
  BY DetoursAre
<1>3. r \in Int /\ detours(row, r) \in Int /\ detours(row, r) < N /\ r + 1 \in 1 .. I
  BY <1>1, <1>2
<1>4. initial[row][r + 1] \in Int
  BY <1>1, <1>3 DEF Nodes
<1>5. Candidate(row, r) = [key |-> <<detours(row, r), r>>, id |-> initial[row][r + 1]]
  BY DEF Candidate
<1>6. Candidate(row, r) \in OptSlots
  BY <1>3, <1>4, <1>5 DEF OptSlots
<1>7. Candidate(row, r).key[1] = detours(row, r) /\ LastKey.key[1] = N
  BY <1>5 DEF LastKey
<1>8. Precedes(Candidate(row, r), LastKey)
  BY <1>3, <1>7 DEF Precedes
<1> QED   BY <1>5, <1>6, <1>8 DEF RowCandidates

LEMMA RowCandidatesAre ==
  ASSUME HostValid, NEW row \in Nodes
  PROVE  /\ RowCandidates(row) \subseteq OptSlots /\ StrictTotal(RowCandidates(row), OptOrder)
         /\ IsFiniteSet(RowCandidates(row)) /\ Cardinality(RowCandidates(row)) = I
<1>1. I \in Nat
  BY Shapes
<1>2. PICK C : C = RowCandidates(row)   OBVIOUS
<1>3. C \subseteq OptSlots
  BY <1>2, RowCandidateIs DEF RowCandidates
<1>4. ASSUME NEW x \in C, NEW y \in C, x.key[1] = y.key[1] /\ x.key[2] = y.key[2] PROVE x = y
  <2>1. PICK r \in 0 .. I - 1 : x = Candidate(row, r)
    BY <1>2 DEF RowCandidates
  <2>2. PICK s \in 0 .. I - 1 : y = Candidate(row, s)
    BY <1>2 DEF RowCandidates
  <2>3. x.key[2] = r /\ y.key[2] = s
    BY <2>1, <2>2, RowCandidateIs
  <2> QED   BY <1>4, <2>1, <2>2, <2>3
<1>5. StrictTotal(C, OptOrder)
  BY <1>3, <1>4, OptKeyed, KeysOrder DEF OptOrder
<1>6. PICK z : z = [t \in 1 .. I |-> Candidate(row, t - 1)]   OBVIOUS
<1>7. ASSUME NEW t \in 1 .. I PROVE t - 1 \in 0 .. I - 1 /\ z[t].key[2] = t - 1 /\ z[t] \in C
  <2>1. t - 1 \in 0 .. I - 1 /\ z[t] = Candidate(row, t - 1)
    BY <1>1, <1>6
  <2> QED   BY <1>2, <2>1, RowCandidateIs
<1>8. \A t, u \in 1 .. I : z[t] = z[u] => t = u
  <2>1. ASSUME NEW t \in 1 .. I, NEW u \in 1 .. I, z[t] = z[u] PROVE t = u
    <3>1. t - 1 = u - 1
      BY <1>7, <2>1
    <3> QED   BY <3>1
  <2> QED   BY <2>1
<1>9. Image(z, I) = C
  <2>1. ASSUME NEW x \in C PROVE x \in Image(z, I)
    <3>1. PICK r \in 0 .. I - 1 : x = Candidate(row, r)
      BY <1>2 DEF RowCandidates
    <3>2. r + 1 \in 1 .. I /\ (r + 1) - 1 = r
      BY <1>1
    <3>3. z[r + 1] = x
      BY <1>6, <3>1, <3>2
    <3> QED   BY <3>2, <3>3 DEF Image
  <2>2. ASSUME NEW x \in Image(z, I) PROVE x \in C
    BY <1>7 DEF Image
  <2> QED   BY <2>1, <2>2
<1>10. IsFiniteSet(C) /\ Cardinality(C) = I
  BY <1>1, <1>8, <1>9, ImageSize
<1> QED   BY <1>2, <1>3, <1>5, <1>10

\* The forward edges of a row are its first candidates.
LEMMA ForwardIs ==
  ASSUME HostValid, NEW row \in Nodes
  PROVE  \E z : /\ Lists(z, I, RowCandidates(row), OptOrder)
                /\ forward[row] = [rank \in 1 .. final_degree |-> z[rank].id]
<1>1. PICK z : z = Ranked(RowCandidates(row), Precedes)   OBVIOUS
<1>2. /\ RowCandidates(row) \subseteq OptSlots /\ StrictTotal(RowCandidates(row), OptOrder)
      /\ IsFiniteSet(RowCandidates(row)) /\ Cardinality(RowCandidates(row)) = I
  BY RowCandidatesAre
<1>3. Lists(z, Len(z), RowCandidates(row), OptOrder)
  BY <1>1, <1>2, OptKeyed, RankedLists DEF OptOrder
<1>4. Len(z) = I
  BY <1>2, <1>3 DEF Lists
<1>5. forward[row] = [rank \in 1 .. final_degree |-> z[rank].id]
  BY <1>1 DEF forward, RowCandidates
<1> QED   BY <1>3, <1>4, <1>5

LEMMA ForwardEdges ==
  ASSUME HostValid
  PROVE  EdgesOf(forward)
<1>1. /\ I \in Nat /\ initial \in [Nodes -> [1 .. I -> Nodes]] /\ final_degree \in 1 .. I
      /\ \A row \in Nodes : \A t \in 1 .. I : initial[row][t] # row
      /\ \A row \in Nodes : \A t, u \in 1 .. I : initial[row][t] = initial[row][u] => t = u
  BY Shapes
<1>2. PICK d : d = final_degree   OBVIOUS
<1>3. ASSUME NEW row \in Nodes
      PROVE  /\ forward[row] \in [1 .. d -> Nodes] /\ \A t \in 1 .. d : forward[row][t] # row
             /\ \A t, u \in 1 .. d : forward[row][t] = forward[row][u] => t = u
  <2>1. PICK z : /\ Lists(z, I, RowCandidates(row), OptOrder)
                 /\ forward[row] = [rank \in 1 .. d |-> z[rank].id]
    BY <1>2, ForwardIs
  <2>2. StrictTotal(RowCandidates(row), OptOrder) /\ IsFiniteSet(RowCandidates(row))
    BY RowCandidatesAre
  <2>3. \A t, u \in 1 .. I : z[t] = z[u] => t = u
    BY <2>1, <2>2, ListsFirsts
  <2>4. ASSUME NEW t \in 1 .. d
        PROVE  \E r \in 0 .. I - 1 : /\ z[t] = Candidate(row, r) /\ r + 1 \in 1 .. I
                                     /\ forward[row][t] = initial[row][r + 1]
    <3>1. t \in 1 .. I
      BY <1>1, <1>2
    <3>2. z[t] \in RowCandidates(row)
      BY <2>1, <3>1 DEF Lists
    <3>3. PICK r \in 0 .. I - 1 : z[t] = Candidate(row, r)
      BY <3>2 DEF RowCandidates
    <3>4. z[t].id = initial[row][r + 1] /\ r + 1 \in 1 .. I
      BY <1>1, <3>3, RowCandidateIs
    <3> QED   BY <2>1, <3>3, <3>4
  <2>5. ASSUME NEW t \in 1 .. d, NEW u \in 1 .. d, forward[row][t] = forward[row][u] PROVE t = u
    <3>1. PICK r \in 0 .. I - 1 : /\ z[t] = Candidate(row, r) /\ r + 1 \in 1 .. I
                                  /\ forward[row][t] = initial[row][r + 1]
      BY <2>4
    <3>2. PICK s \in 0 .. I - 1 : /\ z[u] = Candidate(row, s) /\ s + 1 \in 1 .. I
                                  /\ forward[row][u] = initial[row][s + 1]
      BY <2>4
    <3>3. r + 1 = s + 1
      BY <1>1, <2>5, <3>1, <3>2
    <3>4. z[t] = z[u] /\ t \in 1 .. I /\ u \in 1 .. I
      BY <1>1, <1>2, <3>1, <3>2, <3>3
    <3> QED   BY <2>3, <3>4
  <2>6. \A t \in 1 .. d : forward[row][t] \in Nodes /\ forward[row][t] # row
    BY <1>1, <2>4
  <2> QED   BY <2>1, <2>5, <2>6
<1>4. forward = [row \in Nodes |-> forward[row]]
  BY DEF forward
<1>5. forward \in [Nodes -> [1 .. d -> Nodes]]
  BY <1>3, <1>4
<1> QED   BY <1>2, <1>3, <1>5 DEF EdgesOf

-----------------------------------------------------------------------------
(* The sorted rows of the device. *)

LEMMA DoublingsAre ==
  ASSUME OptValid
  PROVE  Doublings \in 0 .. 8 /\ Power(Doublings) \in Nat /\ Power(Doublings) >= I
<1>1. I \in Nat /\ I <= 256
  BY Shapes, OptAssumption DEF OptValid, OptAssumption
<1>2. PICK E : E = {e \in 0 .. 8 : Power(e) >= I}   OBVIOUS
<1>3. E \subseteq Nat /\ E # {}
  <2>1. Power(8) = 256 /\ 8 \in 0 .. 8
    BY DEF Power
  <2>2. 8 \in E
    BY <1>1, <1>2, <2>1
  <2> QED   BY <1>2, <2>2
<1>4. PICK e \in E : \A d \in E : e <= d
  BY <1>3, LeastNat
<1>5. e \in 0 .. 8 /\ Power(e) >= I
  BY <1>2
<1>6. ASSUME NEW d \in 0 .. e - 1 PROVE Power(d) < I
  <2>1. d \in 0 .. 8 /\ ~(e <= d)
    BY <1>5
  <2>2. d \notin E /\ Power(d) \in Nat
    BY <1>4, <2>1, PowerFacts
  <2> QED   BY <1>1, <1>2, <2>1, <2>2
<1>7. Doublings \in 0 .. 8 /\ Power(Doublings) >= I
  BY <1>5, <1>6 DEF Doublings
<1> QED   BY <1>7, PowerFacts

\* A row of slots, padded and sorted, lists its slots.
LEMMA RowSorts ==
  ASSUME OptValid, NEW f, NEW S, OneEach(f, S), NEW given, Padded(given, f),
         NEW result, result = NetworkSort(given, Doublings)
  PROVE  /\ IsFiniteSet(S) /\ Lists([t \in 1 .. I |-> result[t - 1]], I, S, OptOrder)
<1>0. /\ S \subseteq OptSlots /\ StrictTotal(S, OptOrder) /\ \A x \in S : Precedes(x, LastKey)
      /\ \A t \in 0 .. I - 1 : f[t] \in S
      /\ \A x \in S : \E t \in 0 .. I - 1 : f[t] = x
      /\ \A t, u \in 0 .. I - 1 : f[t] = f[u] => t = u
  BY DEF OneEach
<1>1. I \in Nat /\ N \in Nat
  BY Shapes DEF OptValid
<1>2. PICK last, size : last = Doublings /\ size = Power(last)   OBVIOUS
<1>3. last \in 0 .. 8 /\ size \in Nat /\ size >= I
  BY <1>2, DoublingsAre
<1>4. LastKey \in OptSlots
  BY <1>1 DEF LastKey, OptSlots
<1>5. LastKey \notin S
  BY <1>0, <1>4, OptKeyed, PrecedesFacts
<1>6. given = [lane \in 0 .. size - 1 |-> IF lane < I THEN f[lane] ELSE LastKey]
  BY <1>2 DEF RowLanes, Padded
<1>7. result = NetworkSort(given, last)
  BY <1>2
<1>8. ASSUME NEW i \in 0 .. size - 1
      PROVE  /\ i < I => i \in 0 .. I - 1 /\ given[i] = f[i] /\ given[i] \in S
             /\ i >= I => given[i] = LastKey
  BY <1>0, <1>1, <1>6
<1>9. \A i \in 0 .. size - 1 : given[i] \in S \/ given[i] = LastKey
  BY <1>1, <1>8
<1>10. given \in [0 .. size - 1 -> OptSlots]
  BY <1>0, <1>4, <1>6, <1>9
<1>11. Spread(given, size, S, LastKey)
  <2>1. ASSUME NEW x \in S PROVE \E i \in 0 .. size - 1 : given[i] = x
    <3>1. PICK t \in 0 .. I - 1 : f[t] = x
      BY <1>0
    <3>2. t \in 0 .. size - 1 /\ t < I
      BY <1>1, <1>3
    <3> QED   BY <1>8, <3>1, <3>2
  <2>2. ASSUME NEW i \in 0 .. size - 1, NEW j \in 0 .. size - 1, given[i] = given[j], given[i] \in S
        PROVE  i = j
    <3>1. i < I /\ j < I
      BY <1>1, <1>5, <1>8, <2>2
    <3> QED   BY <1>0, <1>8, <2>2, <3>1
  <2> QED   BY <1>9, <2>1, <2>2 DEF Spread
<1>12. PICK R : R = OptOrder   OBVIOUS
<1>13. StrictTotal(S, R) /\ R = KeyOrder(OptSlots) /\ I \in 0 .. size
  BY <1>0, <1>1, <1>3, <1>12 DEF OptOrder
<1>14. HoldsFirsts(result, S, R, I, LastKey)
  BY <1>0, <1>2, <1>3, <1>4, <1>7, <1>10, <1>11, <1>13, OptKeyed, SortedHolds
<1>15. PICK g : g = [t \in 1 .. I |-> f[t - 1]]   OBVIOUS
<1>16. IsFiniteSet(S) /\ Cardinality(S) = I
  <2>1. ASSUME NEW t \in 1 .. I PROVE t - 1 \in 0 .. I - 1 /\ g[t] = f[t - 1]
    BY <1>1, <1>15
  <2>2. \A t, u \in 1 .. I : g[t] = g[u] => t = u
    <3>1. ASSUME NEW t \in 1 .. I, NEW u \in 1 .. I, g[t] = g[u] PROVE t = u
      <4>1. t - 1 = u - 1
        BY <1>0, <2>1, <3>1
      <4> QED   BY <4>1
    <3> QED   BY <3>1
  <2>3. Image(g, I) = S
    <3>1. ASSUME NEW x \in S PROVE x \in Image(g, I)
      <4>1. PICK t \in 0 .. I - 1 : f[t] = x
        BY <1>0
      <4>2. t + 1 \in 1 .. I /\ (t + 1) - 1 = t
        BY <1>1
      <4>3. g[t + 1] = x
        BY <1>15, <4>1, <4>2
      <4> QED   BY <4>2, <4>3 DEF Image
    <3>2. ASSUME NEW x \in Image(g, I) PROVE x \in S
      <4>1. PICK t \in 1 .. I : x = g[t]
        BY <3>2 DEF Image
      <4> QED   BY <1>0, <2>1, <4>1
    <3> QED   BY <3>1, <3>2
  <2> QED   BY <1>1, <2>2, <2>3, ImageSize
<1>17. PICK m \in 0 .. I : Firsts([t \in 1 .. m |-> result[t - 1]], m, S, R, I)
  BY <1>14 DEF HoldsFirsts
<1>18. PICK y : y = [t \in 1 .. m |-> result[t - 1]]   OBVIOUS
<1>19. Firsts(y, m, S, R, I)
  BY <1>17, <1>18
<1>20. /\ m = IF I <= Cardinality(S) THEN I ELSE Cardinality(S)
       /\ \A t \in 1 .. m : RankIn(S, R, y[t]) = t - 1
  BY <1>1, <1>13, <1>16, <1>19, FirstsRanks
<1>21. m = I /\ y \in [1 .. I -> S]
  BY <1>1, <1>16, <1>19, <1>20 DEF Firsts
<1>22. Lists(y, I, S, R)
  BY <1>1, <1>16, <1>20, <1>21 DEF Lists
<1> QED   BY <1>12, <1>16, <1>18, <1>21, <1>22

LEMMA IdKeyIs ==
  ASSUME HostValid, NEW row \in Nodes, NEW r \in 0 .. I - 1
  PROVE  /\ IdKey(row, r).key[1] = initial[row][r + 1] /\ IdKey(row, r).key[2] = r
         /\ IdKey(row, r).key[1] \in 0 .. N - 1 /\ IdKey(row, r) \in OptSlots
         /\ Precedes(IdKey(row, r), LastKey)
<1>1. I \in Nat /\ N \in Nat /\ initial \in [Nodes -> [1 .. I -> Nodes]]
  BY Shapes
<1>2. r + 1 \in 1 .. I /\ r \in Int
  BY <1>1
<1>3. initial[row][r + 1] \in 0 .. N - 1
  BY <1>1, <1>2 DEF Nodes
<1>4. IdKey(row, r).key[1] = initial[row][r + 1] /\ IdKey(row, r).key[2] = r
  BY DEF IdKey
<1>5. IdKey(row, r) \in OptSlots
  BY <1>1, <1>2, <1>3 DEF IdKey, OptSlots
<1>6. LastKey.key[1] = N
  BY DEF LastKey
<1>7. Precedes(IdKey(row, r), LastKey)
  BY <1>1, <1>3, <1>4, <1>6 DEF Precedes
<1> QED   BY <1>3, <1>4, <1>5, <1>7

LEMMA SortedByIdIs ==
  ASSUME OptValid, NEW row \in Nodes
  PROVE  ById(SortedById(row), row)
<1>1. /\ I \in Nat /\ HostValid
      /\ \A t, u \in 1 .. I : initial[row][t] = initial[row][u] => t = u
  BY Shapes DEF OptValid
<1>2. PICK f : f = [t \in 0 .. I - 1 |-> IdKey(row, t)]   OBVIOUS
<1>3. PICK S : S = {IdKey(row, t) : t \in 0 .. I - 1}   OBVIOUS
<1>4. \A x \in S : \E t \in 0 .. I - 1 : x = IdKey(row, t)
  BY <1>3
<1>5. S \subseteq OptSlots /\ \A x \in S : Precedes(x, LastKey)
  BY <1>1, <1>4, IdKeyIs
<1>6. \A t, u \in 0 .. I - 1 : IdKey(row, t).key[2] = IdKey(row, u).key[2] => t = u
  BY <1>1, IdKeyIs
<1>7. \A x, y \in S : x.key[1] = y.key[1] /\ x.key[2] = y.key[2] => x = y
  BY <1>4, <1>6
<1>8. StrictTotal(S, OptOrder)
  BY <1>5, <1>7, OptKeyed, KeysOrder DEF OptOrder
<1>9. \A t \in 0 .. I - 1 : f[t] \in S
  BY <1>2, <1>3
<1>10. \A x \in S : \E t \in 0 .. I - 1 : f[t] = x
  BY <1>2, <1>4
<1>11. \A t, u \in 0 .. I - 1 : f[t] = f[u] => t = u
  BY <1>2, <1>6
<1>12. PICK result : result = SortedById(row)   OBVIOUS
<1>13. PICK given : Padded(given, f) /\ result = NetworkSort(given, Doublings)
  <2>1. ASSUME NEW lane \in RowLanes, lane < I
        PROVE  [key |-> <<initial[row][lane + 1], lane>>] = f[lane]
    <3>1. lane \in 0 .. I - 1
      BY <1>1, <2>1, DoublingsAre DEF RowLanes
    <3> QED   BY <1>2, <3>1 DEF IdKey
  <2>2. PICK a : a = [lane \in RowLanes |->
                        IF lane < I THEN [key |-> <<initial[row][lane + 1], lane>>] ELSE LastKey]
    OBVIOUS
  <2>3. PICK b : b = [lane \in RowLanes |-> IF lane < I THEN f[lane] ELSE LastKey]   OBVIOUS
  <2>4. \A lane \in RowLanes : a[lane] = b[lane]
    BY <2>1, <2>2, <2>3
  <2>5. a = b
    BY <2>2, <2>3, <2>4
  <2>6. SortedById(row) = NetworkSort(a, Doublings)
    BY <2>2 DEF SortedById
  <2>7. result = NetworkSort(b, Doublings)
    BY <1>12, <2>5, <2>6
  <2> QED   BY <2>3, <2>7 DEF Padded
<1>14. IsFiniteSet(S) /\ Lists([t \in 1 .. I |-> result[t - 1]], I, S, OptOrder)
  <2>1. OneEach(f, S)
    BY <1>5, <1>8, <1>9, <1>10, <1>11 DEF OneEach
  <2> QED   BY <1>13, <2>1, RowSorts
<1>15. PICK z : z = [t \in 1 .. I |-> result[t - 1]]   OBVIOUS
<1>16. Firsts(z, I, S, OptOrder, I) /\ \A x \in S : \E t \in 1 .. I : z[t] = x
  <2>1. IsFiniteSet(S) /\ Lists(z, I, S, OptOrder)
    BY <1>14, <1>15
  <2> QED   BY <1>8, <2>1, ListsFirsts
<1>17. /\ \A t \in 1 .. I : z[t] \in S
       /\ \A t, u \in 1 .. I : t < u => <<z[t], z[u]>> \in OptOrder
  BY <1>16 DEF Firsts
<1>18. ASSUME NEW t \in 0 .. I - 1 PROVE t + 1 \in 1 .. I /\ z[t + 1] = result[t]
  <2>1. t + 1 \in 1 .. I /\ (t + 1) - 1 = t
    BY <1>1
  <2> QED   BY <1>15, <2>1
<1>19. \A t \in 0 .. I - 1 : \E r \in 0 .. I - 1 : result[t] = IdKey(row, r)
  BY <1>4, <1>17, <1>18
<1>20. ASSUME NEW r \in 0 .. I - 1 PROVE \E t \in 0 .. I - 1 : result[t] = IdKey(row, r)
  <2>1. IdKey(row, r) \in S
    BY <1>3
  <2>2. PICK t \in 1 .. I : z[t] = IdKey(row, r)
    BY <1>16, <2>1
  <2>3. t - 1 \in 0 .. I - 1
    BY <1>1
  <2> QED   BY <1>15, <2>2, <2>3
<1>21. ASSUME NEW t \in 0 .. I - 1, NEW u \in 0 .. I - 1, t < u
       PROVE  result[t].key[1] < result[u].key[1]
  <2>1. t + 1 < u + 1 /\ t + 1 \in 1 .. I /\ u + 1 \in 1 .. I
    BY <1>1, <1>18, <1>21
  <2>2. <<result[t], result[u]>> \in OptOrder
    BY <1>17, <1>18, <2>1
  <2>3. Precedes(result[t], result[u])
    BY <2>2 DEF OptOrder, KeyOrder
  <2>4. PICK r \in 0 .. I - 1 : result[t] = IdKey(row, r)
    BY <1>19
  <2>5. PICK s \in 0 .. I - 1 : result[u] = IdKey(row, s)
    BY <1>19
  <2>6. /\ result[t].key[1] = initial[row][r + 1] /\ result[t].key[2] = r
        /\ result[u].key[1] = initial[row][s + 1] /\ result[u].key[2] = s
    BY <1>1, <2>4, <2>5, IdKeyIs
  <2>7. CASE result[t].key[1] = result[u].key[1] /\ result[t].key[2] < result[u].key[2]
    <3>1. r + 1 \in 1 .. I /\ s + 1 \in 1 .. I
      BY <1>1
    <3>2. r + 1 = s + 1
      BY <1>1, <2>6, <2>7, <3>1
    <3> QED   BY <2>6, <2>7, <3>2
  <2> QED   BY <2>3, <2>7 DEF Precedes
<1> QED   BY <1>12, <1>19, <1>20, <1>21 DEF ById

-----------------------------------------------------------------------------
(* The look-up of an id by bisection. *)

\* A turn keeps that, and leaves less between the bounds.
LEMMA NarrowedEncloses ==
  ASSUME I \in Nat, NEW keys, NEW id \in Int,
         \A t \in 0 .. I - 1 : keys[t].key[1] \in Int,
         \A t, u \in 0 .. I - 1 : t < u => keys[t].key[1] < keys[u].key[1],
         NEW bounds, Encloses(keys, id, bounds),
         NEW narrowed, narrowed = Narrowed(keys, id, bounds)
  PROVE  /\ Encloses(keys, id, narrowed)
         /\ \/ narrowed.lo = narrowed.hi
            \/ narrowed.hi - narrowed.lo < bounds.hi - bounds.lo
<1>1. PICK low, high : low = bounds.lo /\ high = bounds.hi   OBVIOUS
<1>2. /\ low \in 0 .. I /\ high \in 0 .. I /\ low <= high /\ bounds = [lo |-> low, hi |-> high]
      /\ \A t \in 0 .. low - 1 : keys[t].key[1] < id
      /\ \A t \in high .. I - 1 : keys[t].key[1] >= id
  BY <1>1 DEF Encloses, Bounds
<1>3. CASE low >= high
  <2>1. narrowed = bounds /\ low = high
    BY <1>1, <1>2, <1>3 DEF Narrowed
  <2> QED   BY <1>1, <2>1
<1>4. CASE low < high
  <2>1. PICK mid : mid = low + ((high - low) \div 2)   OBVIOUS
  <2>2. mid \in Int /\ low <= mid /\ mid < high
    BY <1>2, <1>4, <2>1
  <2>3. mid \in 0 .. I - 1 /\ mid + 1 \in 0 .. I /\ mid \in 0 .. I
    BY <1>2, <2>2
  <2>4. narrowed = IF keys[mid].key[1] < id THEN [lo |-> mid + 1, hi |-> high] ELSE [lo |-> low, hi |-> mid]
    BY <1>1, <1>2, <1>4, <2>1 DEF Narrowed
  <2>5. CASE keys[mid].key[1] < id
    <3>1. narrowed = [lo |-> mid + 1, hi |-> high]
      BY <2>4, <2>5
    <3>2. ASSUME NEW t \in 0 .. (mid + 1) - 1 PROVE keys[t].key[1] < id
      <4>1. t \in 0 .. I - 1 /\ (t = mid \/ t < mid)
        BY <2>2, <2>3
      <4>2. t < mid => keys[t].key[1] < keys[mid].key[1]
        BY <2>3, <4>1
      <4>3. keys[t].key[1] \in Int /\ keys[mid].key[1] \in Int
        BY <2>3, <4>1
      <4> QED   BY <2>5, <4>1, <4>2, <4>3
    <3>3. narrowed \in Bounds /\ narrowed.lo = mid + 1 /\ narrowed.hi = high
      BY <1>2, <2>3, <3>1 DEF Bounds
    <3>4. narrowed.lo <= narrowed.hi /\ narrowed.hi - narrowed.lo < bounds.hi - bounds.lo
      BY <1>1, <1>2, <2>2, <3>3
    <3>5. Encloses(keys, id, narrowed)
      BY <1>2, <3>2, <3>3, <3>4 DEF Encloses
    <3> QED   BY <3>4, <3>5
  <2>6. CASE ~(keys[mid].key[1] < id)
    <3>1. narrowed = [lo |-> low, hi |-> mid]
      BY <2>4, <2>6
    <3>2. ASSUME NEW t \in mid .. I - 1 PROVE keys[t].key[1] >= id
      <4>1. t \in 0 .. I - 1 /\ (t = mid \/ mid < t)
        BY <2>2, <2>3
      <4>2. mid < t => keys[mid].key[1] < keys[t].key[1]
        BY <2>3, <4>1
      <4>3. keys[t].key[1] \in Int /\ keys[mid].key[1] \in Int
        BY <2>3, <4>1
      <4> QED   BY <2>6, <4>1, <4>2, <4>3
    <3>3. narrowed \in Bounds /\ narrowed.lo = low /\ narrowed.hi = mid
      BY <1>2, <2>3, <3>1 DEF Bounds
    <3>4. narrowed.lo <= narrowed.hi /\ narrowed.hi - narrowed.lo < bounds.hi - bounds.lo
      BY <1>1, <1>2, <2>2, <3>3
    <3>5. Encloses(keys, id, narrowed)
      BY <1>2, <3>2, <3>3, <3>4 DEF Encloses
    <3> QED   BY <3>4, <3>5
  <2> QED   BY <2>5, <2>6
<1> QED   BY <1>2, <1>3, <1>4

\* I turns leave nothing between the bounds.
LEMMA LowerBoundIs ==
  ASSUME I \in Nat, NEW keys, NEW id \in Int,
         \A t \in 0 .. I - 1 : keys[t].key[1] \in Int,
         \A t, u \in 0 .. I - 1 : t < u => keys[t].key[1] < keys[u].key[1]
  PROVE  /\ LowerBound(keys, id) \in 0 .. I
         /\ \A t \in 0 .. LowerBound(keys, id) - 1 : keys[t].key[1] < id
         /\ \A t \in LowerBound(keys, id) .. I - 1 : keys[t].key[1] >= id
<1> DEFINE First == [lo |-> 0, hi |-> I]
<1>1. First \in Bounds /\ Encloses(keys, id, First)
  BY DEF Encloses, Bounds
<1>2. PICK V : V = {b \in Bounds : Encloses(keys, id, b)}   OBVIOUS
<1>3. PICK J : J = 0 + 1 .. I   OBVIOUS
<1>4. J = 1 .. I
  BY <1>3
<1>5. PICK G : G = [turn \in J |-> [b \in V |-> Narrowed(keys, id, b)]]   OBVIOUS
<1>6. ASSUME NEW b \in V
      PROVE  /\ Narrowed(keys, id, b) \in V
             /\ \/ Narrowed(keys, id, b).lo = Narrowed(keys, id, b).hi
                \/ Narrowed(keys, id, b).hi - Narrowed(keys, id, b).lo < b.hi - b.lo
  <2>1. Encloses(keys, id, b)
    BY <1>2
  <2>2. PICK narrowed : narrowed = Narrowed(keys, id, b)   OBVIOUS
  <2>3. Encloses(keys, id, narrowed) /\ (narrowed.lo = narrowed.hi \/ narrowed.hi - narrowed.lo < b.hi - b.lo)
    BY <2>1, <2>2, NarrowedEncloses
  <2>4. narrowed \in Bounds
    BY <2>3 DEF Encloses
  <2> QED   BY <1>2, <2>2, <2>3, <2>4
<1>7. G \in [J -> [V -> V]]
  BY <1>5, <1>6
<1>8. First \in V
  BY <1>1, <1>2
<1>9. Steps(0, I, V, First, J, G)
  <2>1. 0 \in Int /\ I \in Int /\ 0 <= I   OBVIOUS
  <2> HIDE DEF First
  <2> QED   BY <1>3, <1>7, <1>8, <2>1, Recursion
<1>10. PICK f \in [0 .. I -> V] : f[0] = First /\ \A turn \in J : f[turn] = G[turn][f[turn - 1]]
  BY <1>9 DEF Steps
<1>11. ASSUME NEW turn \in 0 .. I
       PROVE  f[turn] = IF turn = 0 THEN First ELSE Narrowed(keys, id, f[turn - 1])
  <2>1. CASE turn = 0
    BY <1>10, <2>1
  <2>2. CASE turn # 0
    <3>1. turn \in J /\ turn - 1 \in 0 .. I
      BY <1>4, <2>2
    <3>2. f[turn] = G[turn][f[turn - 1]] /\ f[turn - 1] \in V
      BY <1>10, <3>1
    <3> QED   BY <1>5, <2>2, <3>1, <3>2
  <2> QED   BY <2>1, <2>2
<1> DEFINE Def(z) == z = [turn \in 0 .. I |-> IF turn = 0 THEN First
                                              ELSE Narrowed(keys, id, z[turn - 1])]
<1>12. Def(f)
  BY <1>10, <1>11
<1> HIDE DEF Def
<1>13. PICK bounds : bounds = CHOOSE z : Def(z)   OBVIOUS
<1>14. Def(bounds)
  BY <1>12, <1>13
<1>15. LowerBound(keys, id) = bounds[I].lo
  BY <1>13 DEF Def, LowerBound
<1>16. \A turn \in 0 .. I : bounds[turn] = IF turn = 0 THEN First
                                           ELSE Narrowed(keys, id, bounds[turn - 1])
  BY <1>14 DEF Def
<1>17. PICK T : T = {turn \in 0 .. I : /\ bounds[turn] \in V
                                       /\ \/ bounds[turn].lo = bounds[turn].hi
                                          \/ bounds[turn].hi - bounds[turn].lo <= I - turn}
  OBVIOUS
<1>18. 0 \in T
  <2>1. 0 \in 0 .. I /\ bounds[0] = First
    BY <1>16
  <2>2. bounds[0] \in V /\ bounds[0].hi - bounds[0].lo <= I - 0
    BY <1>8, <2>1
  <2> QED   BY <1>17, <2>1, <2>2
<1>19. ASSUME NEW turn \in 0 + 1 .. I, turn - 1 \in T PROVE turn \in T
  <2>1. turn \in 0 .. I /\ turn # 0 /\ turn - 1 \in Int   OBVIOUS
  <2>2. PICK b : b = bounds[turn - 1]   OBVIOUS
  <2>3. b \in V /\ (b.lo = b.hi \/ b.hi - b.lo <= I - (turn - 1))
    BY <1>17, <1>19, <2>2
  <2>4. PICK narrowed : narrowed = Narrowed(keys, id, b)   OBVIOUS
  <2>5. bounds[turn] = narrowed
    BY <1>16, <2>1, <2>2, <2>4
  <2>6. narrowed \in V /\ (narrowed.lo = narrowed.hi \/ narrowed.hi - narrowed.lo < b.hi - b.lo)
    BY <1>6, <2>3, <2>4
  <2>7. b.lo \in Int /\ b.hi \in Int /\ narrowed.lo \in Int /\ narrowed.hi \in Int /\ narrowed.lo <= narrowed.hi
    BY <1>2, <2>3, <2>6 DEF Encloses, Bounds
  <2>8. narrowed.lo = narrowed.hi \/ narrowed.hi - narrowed.lo <= I - turn
    <3>1. CASE b.lo = b.hi
      BY <2>6, <2>7, <3>1
    <3>2. CASE b.hi - b.lo <= I - (turn - 1)
      BY <2>1, <2>6, <2>7, <3>2
    <3> QED   BY <2>3, <3>1, <3>2
  <2> QED   BY <1>17, <2>1, <2>5, <2>6, <2>8
<1>20. \A turn \in 0 .. I : turn \in T
  <2>1. 0 \in Int /\ I \in Int   OBVIOUS
  <2> QED   BY <1>18, <1>19, <2>1, Climb
<1>21. I \in T
  BY <1>20
<1>22. PICK b : b = bounds[I]   OBVIOUS
<1>23. Encloses(keys, id, b) /\ (b.lo = b.hi \/ b.hi - b.lo <= I - I)
  BY <1>2, <1>17, <1>21, <1>22
<1>24. b.lo \in 0 .. I /\ b.hi \in 0 .. I /\ b.lo = b.hi
  BY <1>23 DEF Encloses, Bounds
<1> QED   BY <1>15, <1>22, <1>23, <1>24 DEF Encloses

\* The look-up in a sorted row finds what the search of the row finds.
LEMMA LookupIs ==
  ASSUME OptValid, NEW row \in Nodes, ById(rank_ptr[row], row), NEW id \in Int
  PROVE  lookup(row, id) = rank_of(row, id)
<1>1. I \in Nat /\ HostValid /\ N \in Nat
  BY Shapes DEF OptValid
<1>2. PICK keys : keys = rank_ptr[row]   OBVIOUS
<1>3. /\ \A t \in 0 .. I - 1 : \E r \in 0 .. I - 1 : keys[t] = IdKey(row, r)
      /\ \A r \in 0 .. I - 1 : \E t \in 0 .. I - 1 : keys[t] = IdKey(row, r)
      /\ \A t, u \in 0 .. I - 1 : t < u => keys[t].key[1] < keys[u].key[1]
  BY <1>2 DEF ById
<1>4. \A r \in 0 .. I - 1 : /\ IdKey(row, r).key[1] = initial[row][r + 1]
                            /\ IdKey(row, r).key[2] = r /\ IdKey(row, r).key[1] \in Int
  BY <1>1, IdKeyIs
<1>5. \A t \in 0 .. I - 1 : keys[t].key[1] \in Int
  BY <1>3, <1>4
<1>6. PICK low : low = LowerBound(keys, id)   OBVIOUS
<1>7. /\ low \in 0 .. I /\ \A t \in 0 .. low - 1 : keys[t].key[1] < id
      /\ \A t \in low .. I - 1 : keys[t].key[1] >= id
  BY <1>1, <1>3, <1>5, <1>6, LowerBoundIs
<1>8. lookup(row, id) = IF low < I /\ keys[low].key[1] = id THEN keys[low].key[2] ELSE I
  BY <1>2, <1>6 DEF lookup
<1>9. CASE low < I /\ keys[low].key[1] = id
  <2>1. low \in 0 .. I - 1
    BY <1>1, <1>7, <1>9
  <2>2. PICK r \in 0 .. I - 1 : keys[low] = IdKey(row, r)
    BY <1>3, <2>1
  <2>3. keys[low].key[2] = r /\ id = initial[row][r + 1]
    BY <1>4, <1>9, <2>2
  <2>4. rank_of(row, id) = r
    BY <1>1, <2>3, RankOf
  <2> QED   BY <1>8, <1>9, <2>3, <2>4
<1>10. CASE ~(low < I /\ keys[low].key[1] = id)
  <2>1. ASSUME NEW t \in 1 .. I, initial[row][t] = id PROVE FALSE
    <3>1. t - 1 \in 0 .. I - 1 /\ (t - 1) + 1 = t
      BY <1>1
    <3>2. PICK u \in 0 .. I - 1 : keys[u] = IdKey(row, t - 1)
      BY <1>3, <3>1
    <3>3. keys[u].key[1] = id
      BY <1>4, <2>1, <3>1, <3>2
    <3>4. ~(u < low)
      <4>1. ASSUME u < low PROVE FALSE
        <5>1. u \in 0 .. low - 1
          BY <1>7, <4>1
        <5> QED   BY <1>7, <3>3, <5>1
      <4> QED   BY <4>1
    <3>5. u # low
      BY <1>1, <1>10, <3>3
    <3>6. low < u /\ low \in 0 .. I - 1
      BY <1>1, <1>7, <3>4, <3>5
    <3>7. keys[low].key[1] < keys[u].key[1]
      BY <1>3, <3>6
    <3>8. low \in low .. I - 1 /\ keys[low].key[1] \in Int
      BY <1>5, <3>6
    <3>9. keys[low].key[1] >= id
      BY <1>7, <3>8
    <3> QED   BY <3>3, <3>7, <3>8, <3>9
  <2>2. rank_of(row, id) = I
    BY <1>1, <2>1, RankOf
  <2> QED   BY <1>8, <1>10, <2>2
<1> QED   BY <1>9, <1>10

-----------------------------------------------------------------------------
(* The forward kernel. *)

LEMMA ForwardKeyIs ==
  ASSUME OptValid, RowsById, NEW row \in Nodes, NEW lane \in 0 .. I - 1
  PROVE  ForwardKey(row, lane) = Candidate(row, lane)
<1>1. I \in Nat /\ N \in Nat /\ initial \in [Nodes -> [1 .. I -> Nodes]]
  BY Shapes DEF OptValid
<1>2. PICK y : y = initial[row][lane + 1]   OBVIOUS
<1>3. y \in Int
  <2>1. lane + 1 \in 1 .. I
    BY <1>1
  <2> QED   BY <1>1, <1>2, <2>1 DEF Nodes
<1>4. ASSUME NEW z \in 0 .. lane - 1
      PROVE  lookup(initial[row][z + 1], y) = rank_of(initial[row][z + 1], y)
  <2>1. PICK other : other = initial[row][z + 1]   OBVIOUS
  <2>2. z + 1 \in 1 .. I
    BY <1>1
  <2>3. other \in Nodes
    BY <1>1, <2>1, <2>2
  <2>4. ById(rank_ptr[other], other)
    BY <2>3 DEF RowsById
  <2> QED   BY <1>3, <2>1, <2>3, <2>4, LookupIs
<1>5. PICK X : X = {z \in 0 .. lane - 1 : lookup(initial[row][z + 1], y) < lane}   OBVIOUS
<1>6. X = {z \in 0 .. lane - 1 : rank_of(initial[row][z + 1], y) < lane}
  BY <1>4, <1>5
<1>7. ForwardKey(row, lane) = [key |-> <<Cardinality(X), lane>>, id |-> y]
  BY <1>2, <1>5 DEF ForwardKey
<1>8. Candidate(row, lane) = [key |-> <<Cardinality(X), lane>>, id |-> y]
  BY <1>2, <1>6 DEF Candidate, detours
<1> QED   BY <1>7, <1>8

LEMMA ForwardRowIs ==
  ASSUME OptValid, RowsById, NEW row \in Nodes
  PROVE  ForwardRow(row) = forward[row]
<1>1. I \in Nat /\ HostValid /\ final_degree \in 1 .. I
  BY Shapes DEF OptValid
<1>2. PICK S, R : S = RowCandidates(row) /\ R = OptOrder   OBVIOUS
<1>3. S \subseteq OptSlots /\ StrictTotal(S, R) /\ IsFiniteSet(S)
  BY <1>1, <1>2, RowCandidatesAre
<1>4. PICK f : f = [t \in 0 .. I - 1 |-> Candidate(row, t)]   OBVIOUS
<1>5. ASSUME NEW t \in 0 .. I - 1 PROVE f[t] \in S /\ f[t].key[2] = t
  BY <1>1, <1>2, <1>4, RowCandidateIs
<1>6. ASSUME NEW x \in S PROVE Precedes(x, LastKey) /\ \E t \in 0 .. I - 1 : f[t] = x
  <2>1. PICK t \in 0 .. I - 1 : x = Candidate(row, t)
    BY <1>2 DEF RowCandidates
  <2> QED   BY <1>1, <1>4, <2>1, RowCandidateIs
<1>7. OneEach(f, S)
  BY <1>2, <1>3, <1>5, <1>6 DEF OneEach
<1>8. PICK given : given = [lane \in RowLanes |-> IF lane < I THEN ForwardKey(row, lane) ELSE LastKey]
  OBVIOUS
<1>9. PICK padded : padded = [lane \in RowLanes |-> IF lane < I THEN f[lane] ELSE LastKey]   OBVIOUS
<1>10. given = padded
  <2>1. ASSUME NEW lane \in RowLanes PROVE given[lane] = padded[lane]
    <3>1. CASE lane < I
      <4>1. lane \in 0 .. I - 1
        <5>1. OptValid   OBVIOUS
        <5> QED   BY <1>1, <3>1, <5>1, DoublingsAre DEF RowLanes
      <4>2. ForwardKey(row, lane) = f[lane]
        BY <1>4, <4>1, ForwardKeyIs
      <4> QED   BY <1>8, <1>9, <3>1, <4>2
    <3>2. CASE ~(lane < I)
      BY <1>8, <1>9, <3>2
    <3> QED   BY <3>1, <3>2
  <2> QED   BY <1>8, <1>9, <2>1
<1>11. Padded(given, f)
  BY <1>9, <1>10 DEF Padded
<1>12. PICK sorted : sorted = NetworkSort(given, Doublings)   OBVIOUS
<1>13. PICK y : y = [t \in 1 .. I |-> sorted[t - 1]]   OBVIOUS
<1>14. Lists(y, I, S, R)
  BY <1>2, <1>7, <1>11, <1>12, <1>13, RowSorts
<1>15. PICK z : Lists(z, I, S, R) /\ forward[row] = [rank \in 1 .. final_degree |-> z[rank].id]
  BY <1>1, <1>2, ForwardIs
<1>16. Firsts(y, I, S, R, I) /\ Firsts(z, I, S, R, I)
  BY <1>3, <1>14, <1>15, ListsFirsts
<1>17. y = z
  BY <1>1, <1>3, <1>16, FirstsUnique
<1>18. ForwardRow(row) = [rank \in 1 .. final_degree |-> sorted[rank - 1].id]
  BY <1>8, <1>12 DEF ForwardRow
<1>19. \A rank \in 1 .. final_degree : sorted[rank - 1].id = z[rank].id
  <2>1. \A rank \in 1 .. final_degree : rank \in 1 .. I
    BY <1>1
  <2> QED   BY <1>13, <1>17, <2>1
<1> QED   BY <1>15, <1>18, <1>19

\* The table of the forward kernel is the one the reference builds.
LEMMA ForwardTable ==
  ASSUME OptValid, RowsById
  PROVE  [row \in Nodes |-> ForwardRow(row)] = forward
<1>1. PICK table : table = [row \in Nodes |-> ForwardRow(row)]   OBVIOUS
<1>2. \A row \in Nodes : table[row] = forward[row]
  BY <1>1, ForwardRowIs
<1>3. forward = [row \in Nodes |-> forward[row]]
  BY DEF forward
<1>4. table = [row \in Nodes |-> table[row]]
  BY <1>1
<1>5. table = forward
  BY <1>2, <1>3, <1>4
<1> QED   BY <1>1, <1>5

-----------------------------------------------------------------------------
(* The reverse keys of a row, ranked and as they arrive. *)

\* A source reaches a row by one edge at most, so that it names its key.
LEMMA ReverseKeyIs ==
  ASSUME HostValid, NEW edges, EdgesOf(edges), NEW row \in Nodes,
         NEW x \in reverse_keys(edges, row)
  PROVE  /\ x \in OptSlots /\ Source(x) \in Nodes /\ x.key[2] = Source(x)
         /\ \E t \in 1 .. final_degree : x = [key |-> <<t - 1, Source(x)>>] /\ edges[Source(x)][t] = row
<1>1. N \in Nat /\ I \in Nat /\ final_degree \in Int
  BY Shapes
<1>2. PICK e \in Nodes \X (1 .. final_degree) :
        x = [key |-> <<e[2] - 1, e[1]>>] /\ edges[e[1]][e[2]] = row
  BY DEF reverse_keys
<1>3. PICK src, t : src = e[1] /\ t = e[2]   OBVIOUS
<1>4. src \in Nodes /\ t \in 1 .. final_degree /\ x = [key |-> <<t - 1, src>>] /\ edges[src][t] = row
  BY <1>2, <1>3
<1>5. x.key[2] = src
  BY <1>4
<1>6. Source(x) = src
  BY <1>5 DEF Source
<1>7. t - 1 \in Int /\ src \in Int
  BY <1>1, <1>4 DEF Nodes
<1>8. x \in OptSlots
  BY <1>4, <1>7 DEF OptSlots
<1> QED   BY <1>4, <1>5, <1>6, <1>8

LEMMA SourcesDiffer ==
  ASSUME HostValid, NEW edges, EdgesOf(edges), NEW row \in Nodes,
         NEW x \in reverse_keys(edges, row), NEW y \in reverse_keys(edges, row),
         Source(x) = Source(y)
  PROVE  x = y
<1>1. Source(x) \in Nodes
  BY ReverseKeyIs
<1>2. PICK t \in 1 .. final_degree : x = [key |-> <<t - 1, Source(x)>>] /\ edges[Source(x)][t] = row
  BY ReverseKeyIs
<1>3. PICK u \in 1 .. final_degree : y = [key |-> <<u - 1, Source(y)>>] /\ edges[Source(y)][u] = row
  BY ReverseKeyIs
<1>4. edges[Source(x)][t] = edges[Source(x)][u]
  BY <1>2, <1>3
<1>5. t = u
  BY <1>1, <1>4 DEF EdgesOf
<1> QED   BY <1>2, <1>3, <1>5

LEMMA ReverseKeysAre ==
  ASSUME HostValid, NEW edges, EdgesOf(edges), NEW row \in Nodes
  PROVE  /\ IsFiniteSet(reverse_keys(edges, row)) /\ reverse_keys(edges, row) \subseteq OptSlots
         /\ StrictTotal(reverse_keys(edges, row), OptOrder)
<1>1. PICK K : K = reverse_keys(edges, row)   OBVIOUS
<1>2. ASSUME NEW x \in K PROVE x \in OptSlots /\ Source(x) \in Nodes /\ x.key[2] = Source(x)
  BY <1>1, ReverseKeyIs
<1>3. ASSUME NEW x \in K, NEW y \in K, Source(x) = Source(y) PROVE x = y
  BY <1>1, <1>3, SourcesDiffer
<1>4. IsFiniteSet(Nodes)
  <2>1. 0 \in Int /\ N - 1 \in Int
    BY Shapes
  <2> QED   BY <2>1, FS_Interval DEF Nodes
<1>5. PICK f : f = [x \in K |-> Source(x)]   OBVIOUS
<1>6. f \in Injection(K, Nodes)
  BY <1>2, <1>3, <1>5 DEF Injection, IsInjective
<1>7. IsFiniteSet(K)
  BY <1>4, <1>6, FS_Injection
<1>8. K \subseteq OptSlots
  BY <1>2
<1>9. \A x, y \in K : x.key[1] = y.key[1] /\ x.key[2] = y.key[2] => x = y
  BY <1>2, <1>3
<1>10. StrictTotal(K, OptOrder)
  BY <1>8, <1>9, OptKeyed, KeysOrder DEF OptOrder
<1> QED   BY <1>1, <1>7, <1>8, <1>10

LEMMA AcceptedAre ==
  ASSUME HostValid, NEW edges, EdgesOf(edges), NEW row \in Nodes
  PROVE  /\ IsFiniteSet(Accepted(edges, row)) /\ StrictTotal(Accepted(edges, row), OptOrder)
         /\ Lists(accepted(edges, row), Len(accepted(edges, row)), Accepted(edges, row), OptOrder)
<1>1. PICK K, A : K = reverse_keys(edges, row) /\ A = Accepted(edges, row)   OBVIOUS
<1>2. IsFiniteSet(K) /\ K \subseteq OptSlots /\ StrictTotal(K, OptOrder)
  BY <1>1, ReverseKeysAre
<1>3. A \subseteq K
  BY <1>1 DEF Accepted
<1>4. IsFiniteSet(A)
  BY <1>2, <1>3, FS_Subset
<1>5. StrictTotal(A, OptOrder) /\ A \subseteq OptSlots
  BY <1>2, <1>3 DEF StrictTotal
<1>6. PICK z : z = Ranked(A, Precedes)   OBVIOUS
<1>7. Lists(z, Len(z), A, OptOrder)
  BY <1>4, <1>5, <1>6, OptKeyed, RankedLists DEF OptOrder
<1>8. z = accepted(edges, row)
  BY <1>1, <1>6 DEF accepted, Accepted
<1> QED   BY <1>1, <1>4, <1>5, <1>7, <1>8

LEMMA ArrivingOrders ==
  ASSUME HostValid, AnOrder, NEW edges, EdgesOf(edges), NEW row \in Nodes,
         NEW K, K = reverse_keys(edges, row)
  PROVE  StrictTotal(K, Arriving(K))
<1>1. PICK R : R = Arriving(K)   OBVIOUS
<1>2. ASSUME NEW x \in K PROVE Source(x) \in Nodes /\ arrival[Source(x)] \in Int
  <2>1. Source(x) \in Nodes
    BY ReverseKeyIs
  <2>2. arrival[Source(x)] \in 0 .. N - 1 /\ N \in Nat
    BY <2>1, Shapes DEF AnOrder, Nodes
  <2> QED   BY <2>1, <2>2
<1>3. ASSUME NEW x \in K, NEW y \in K
      PROVE  <<x, y>> \in R <=> arrival[Source(x)] < arrival[Source(y)]
  BY <1>1 DEF Arriving
<1>4. ASSUME NEW x \in K PROVE <<x, x>> \notin R
  BY <1>2, <1>3
<1>5. ASSUME NEW x \in K, NEW y \in K, x # y PROVE <<x, y>> \in R \/ <<y, x>> \in R
  <2>1. Source(x) # Source(y)
    BY <1>5, SourcesDiffer
  <2>2. arrival[Source(x)] # arrival[Source(y)]
    BY <1>2, <2>1 DEF AnOrder
  <2>3. arrival[Source(x)] < arrival[Source(y)] \/ arrival[Source(y)] < arrival[Source(x)]
    BY <1>2, <2>2
  <2> QED   BY <1>3, <2>3
<1>6. ASSUME NEW x \in K, NEW y \in K, NEW z \in K, <<x, y>> \in R, <<y, z>> \in R
      PROVE  <<x, z>> \in R
  <2>1. arrival[Source(x)] < arrival[Source(y)] /\ arrival[Source(y)] < arrival[Source(z)]
    BY <1>3, <1>6
  <2>2. arrival[Source(x)] < arrival[Source(z)]
    BY <1>2, <2>1
  <2> QED   BY <1>3, <2>2
<1> QED   BY <1>1, <1>4, <1>5, <1>6 DEF StrictTotal

\* Every reverse key of a row arrives, and arrives once.
LEMMA ArrivedAre ==
  ASSUME HostValid, AnOrder, NEW edges, EdgesOf(edges), NEW row \in Nodes,
         NEW K, K = reverse_keys(edges, row), NEW z, z = reverse_ptr(edges, row)
  PROVE  Lists(z, Len(z), K, Arriving(K))
<1>1. PICK R : R = Arriving(K)   OBVIOUS
<1>2. IsFiniteSet(K) /\ StrictTotal(K, R)
  BY <1>1, ReverseKeysAre, ArrivingOrders
<1>3. PICK c \in Nat : c = Cardinality(K)
  BY <1>2, FS_CardinalityType
<1> DEFINE Earlier(a, b) == \/ arrival[Source(a)] < arrival[Source(b)]
                            \/ Source(a) = Source(b) /\ a.key[1] < b.key[1]
<1>4. z = [t \in 1 .. c |-> CHOOSE x \in K : Cardinality({y \in K : Earlier(y, x)}) = t - 1]
  BY <1>3 DEF reverse_ptr, Ranked
<1>5. ASSUME NEW x \in K PROVE Cardinality({y \in K : Earlier(y, x)}) = RankIn(K, R, x)
  <2>1. ASSUME NEW y \in K PROVE Earlier(y, x) <=> <<y, x>> \in R
    <3>1. <<y, x>> \in R <=> arrival[Source(y)] < arrival[Source(x)]
      BY <1>1 DEF Arriving
    <3>2. ASSUME Source(y) = Source(x) PROVE ~(y.key[1] < x.key[1])
      <4>1. x = y
        BY <3>2, SourcesDiffer
      <4>2. x \in OptSlots
        BY ReverseKeyIs
      <4>3. x.key[1] \in Int
        BY <4>2, OptKeyed DEF Keyed
      <4> QED   BY <4>1, <4>3
    <3> QED   BY <3>1, <3>2
  <2> HIDE DEF Earlier
  <2>2. {y \in K : Earlier(y, x)} = Below(K, R, x)
    BY <2>1 DEF Below
  <2> QED   BY <2>2 DEF RankIn
<1> HIDE DEF Earlier
<1>6. ASSUME NEW t \in 1 .. c PROVE z[t] \in K /\ RankIn(K, R, z[t]) = t - 1
  <2>1. z[t] = CHOOSE x \in K : Cardinality({y \in K : Earlier(y, x)}) = t - 1
    BY <1>4
  <2>2. t - 1 \in 0 .. Cardinality(K) - 1
    BY <1>3
  <2>3. PICK x \in K : RankIn(K, R, x) = t - 1
    BY <1>2, <2>2, RanksReach
  <2>4. \E u \in K : Cardinality({y \in K : Earlier(y, u)}) = t - 1
    BY <1>5, <2>3
  <2>5. z[t] \in K /\ Cardinality({y \in K : Earlier(y, z[t])}) = t - 1
    BY <2>1, <2>4
  <2> QED   BY <1>5, <2>5
<1>7. z \in [1 .. c -> K]
  <2>1. \A t \in 1 .. c : z[t] \in K
    BY <1>6
  <2>2. z = [t \in 1 .. c |-> z[t]]
    BY <1>4
  <2> QED   BY <2>1, <2>2
<1>8. Len(z) = c
  BY <1>3, <1>7
<1> QED   BY <1>1, <1>3, <1>6, <1>7, <1>8 DEF Lists

-----------------------------------------------------------------------------
(* The select kernel. *)

LEMMA BestWithIs ==
  ASSUME NEW held, NEW x, NEW k \in Nat, NEW m \in Nat, Len(held) = m,
         NEW P, P = {i \in 1 .. m : Precedes(held[i], x)},
         NEW p, p = Cardinality(P), NEW l, l = IF m + 1 <= k THEN m + 1 ELSE k
  PROVE  BestWith(held, x, k) = IF p >= k THEN held ELSE Inserted(held, p, x, l)
<1>1. Min({k, Len(held) + 1}) = l
  <2>1. Min({k, m + 1}) = IF k <= m + 1 THEN k ELSE m + 1
    BY MinOfTwo
  <2> QED   BY <2>1
<1> QED   BY <1>1 DEF BestWith, Inserted

\* A turn keeps the first keys of those it has seen.
LEMMA BestWithFirsts ==
  ASSUME NEW S, NEW x, x \notin S, S \cup {x} \subseteq OptSlots,
         StrictTotal(S \cup {x}, OptOrder), NEW k \in Nat, NEW m, NEW held,
         Firsts(held, m, S, OptOrder, k)
  PROVE  \E l : Firsts(BestWith(held, x, k), l, S \cup {x}, OptOrder, k)
<1>1. PICK R : R = OptOrder   OBVIOUS
<1>2. Firsts(held, m, S, R, k) /\ StrictTotal(S \cup {x}, R)
  BY <1>1
<1>3. m \in 0 .. k /\ m \in Nat /\ held \in [1 .. m -> S]
  BY <1>2 DEF Firsts
<1>4. Len(held) = m
  BY <1>3
<1>5. PICK P : P = {i \in 1 .. m : Precedes(held[i], x)}   OBVIOUS
<1>6. P = PlacesBefore(held, m, R, x)
  <2>1. ASSUME NEW i \in 1 .. m PROVE Precedes(held[i], x) <=> <<held[i], x>> \in R
    <3>1. <<held[i], x>> \in OptSlots \X OptSlots
      BY <1>3
    <3> QED   BY <1>1, <3>1 DEF OptOrder, KeyOrder
  <2> QED   BY <1>5, <2>1 DEF PlacesBefore
<1>7. PICK p : p = Cardinality(P)   OBVIOUS
<1>8. PICK l : l = IF m + 1 <= k THEN m + 1 ELSE k   OBVIOUS
<1>9. BestWith(held, x, k) = IF p >= k THEN held ELSE Inserted(held, p, x, l)
  BY <1>3, <1>4, <1>5, <1>7, <1>8, BestWithIs
<1>10. p \in 0 .. m /\ \A t \in 1 .. m : t <= p <=> <<held[t], x>> \in R
  <2>1. \A t \in 1 .. m : held[t] # x
    BY <1>3
  <2>2. p = Cardinality(PlacesBefore(held, m, R, x))
    BY <1>6, <1>7
  <2>3. StrictTotal(S \cup {x}, R)
    BY <1>2
  <2>4. Firsts(held, m, S, R, k)
    BY <1>2
  <2> QED   BY <2>1, <2>2, <2>3, <2>4, PlaceOf
<1>11. CASE p >= k
  <2>1. Firsts(held, m, S \cup {x}, R, k)
    BY <1>2, <1>10, <1>11, FirstsKeep
  <2> QED   BY <1>1, <1>9, <1>11, <2>1
<1>12. CASE ~(p >= k)
  <2>1. p < k
    BY <1>3, <1>10, <1>12
  <2>2. Firsts(Inserted(held, p, x, l), l, S \cup {x}, R, k)
    BY <1>2, <1>8, <1>10, <2>1, FirstsInsert
  <2> QED   BY <1>1, <1>9, <1>12, <2>2
<1> QED   BY <1>11, <1>12

LEMMA BestWithType ==
  ASSUME NEW held \in Seq(OptSlots), NEW x \in OptSlots, NEW k \in Nat
  PROVE  BestWith(held, x, k) \in Seq(OptSlots)
<1>1. PICK m : m = Len(held)   OBVIOUS
<1>2. m \in Nat /\ held \in [1 .. m -> OptSlots]
  BY <1>1, LenProperties
<1>3. PICK P, p : P = {i \in 1 .. m : Precedes(held[i], x)} /\ p = Cardinality(P)   OBVIOUS
<1>4. p \in Nat /\ p <= m
  <2>1. IsFiniteSet(1 .. m) /\ Cardinality(1 .. m) = IF 1 > m THEN 0 ELSE m - 1 + 1
    BY <1>2, FS_Interval
  <2>2. P \in SUBSET (1 .. m)
    BY <1>3
  <2>3. IsFiniteSet(P) /\ p <= Cardinality(1 .. m)
    BY <1>3, <2>1, <2>2, FS_Subset
  <2>4. p \in Nat
    BY <1>3, <2>3, FS_CardinalityType
  <2> QED   BY <1>2, <2>1, <2>3, <2>4
<1>5. PICK l : l = IF m + 1 <= k THEN m + 1 ELSE k   OBVIOUS
<1>6. BestWith(held, x, k) = IF p >= k THEN held ELSE Inserted(held, p, x, l)
  BY <1>1, <1>2, <1>3, <1>5, BestWithIs
<1>7. l \in Nat /\ l <= m + 1
  BY <1>2, <1>5
<1>8. PICK y : y = Inserted(held, p, x, l)   OBVIOUS
<1>9. y \in [1 .. l -> OptSlots]
  <2>1. ASSUME NEW t \in 1 .. l
        PROVE  (IF t <= p THEN held[t] ELSE IF t = p + 1 THEN x ELSE held[t - 1]) \in OptSlots
    <3>1. t <= p => t \in 1 .. m
      BY <1>2, <1>4, <1>7
    <3>2. ~(t <= p) /\ t # p + 1 => t - 1 \in 1 .. m
      BY <1>2, <1>4, <1>7
    <3> QED   BY <1>2, <3>1, <3>2
  <2> QED   BY <1>8, <2>1 DEF Inserted
<1>10. y \in Seq(OptSlots)
  BY <1>7, <1>9, SeqDef
<1> QED   BY <1>6, <1>8, <1>10

LEMMA BestFold ==
  ASSUME final_degree \div 2 \in Nat, NEW edges, NEW row,
         NEW keys, keys = reverse_ptr(edges, row), NEW c \in Nat, c = Len(keys),
         \A i \in 1 .. c : keys[i] \in OptSlots
  PROVE  BestFolds(best(edges, row), keys, c, edges, row)
<1>1. PICK k, X : k = final_degree \div 2 /\ X = ToSet(edges[row])   OBVIOUS
<1>2. PICK V, J : V = Seq(OptSlots) /\ J = 0 + 1 .. c /\ J = 1 .. c   OBVIOUS
<1>3. PICK G : G = [i \in J |-> [z \in V |->
                      IF Source(keys[i]) \in X THEN z ELSE BestWith(z, keys[i], k)]]   OBVIOUS
<1>4. G \in [J -> [V -> V]]
  <2>1. ASSUME NEW i \in J, NEW z \in V
        PROVE  (IF Source(keys[i]) \in X THEN z ELSE BestWith(z, keys[i], k)) \in V
    <3>1. keys[i] \in OptSlots /\ z \in Seq(OptSlots) /\ k \in Nat
      BY <1>1, <1>2
    <3>2. BestWith(z, keys[i], k) \in Seq(OptSlots)
      BY <3>1, BestWithType
    <3> QED   BY <1>2, <3>2
  <2> QED   BY <1>3, <2>1
<1>5. Steps(0, c, V, <<>>, J, G)
  <2>1. <<>> \in V
    BY <1>2, EmptySeq
  <2>2. 0 \in Int /\ c \in Int /\ 0 <= c /\ J = 0 + 1 .. c
    BY <1>2
  <2> QED   BY <1>4, <2>1, <2>2, Recursion
<1>6. PICK g \in [0 .. c -> V] : g[0] = <<>> /\ \A i \in J : g[i] = G[i][g[i - 1]]
  BY <1>5 DEF Steps
<1>7. ASSUME NEW i \in 0 .. c
      PROVE  g[i] = IF i = 0 THEN <<>>
                    ELSE IF Source(keys[i]) \in X THEN g[i - 1] ELSE BestWith(g[i - 1], keys[i], k)
  <2>1. CASE i = 0
    BY <1>6, <2>1
  <2>2. CASE i # 0
    <3>1. i \in J /\ i - 1 \in 0 .. c
      BY <1>2, <2>2
    <3>2. g[i] = G[i][g[i - 1]] /\ g[i - 1] \in V
      BY <1>6, <3>1
    <3> QED   BY <1>3, <2>2, <3>1, <3>2
  <2> QED   BY <2>1, <2>2
<1> DEFINE Def(fun) ==
      fun = [i \in 0 .. c |->
               IF i = 0 THEN <<>>
               ELSE IF Source(keys[i]) \in ToSet(edges[row]) THEN fun[i - 1]
               ELSE BestWith(fun[i - 1], keys[i], final_degree \div 2)]
<1>8. Def(g)
  BY <1>1, <1>6, <1>7
<1>9. PICK f : f = CHOOSE fun : Def(fun)   OBVIOUS
<1>10. Def(f)
  BY <1>8, <1>9
<1>11. best(edges, row) = f[c]
  BY <1>9 DEF best
<1>12. ASSUME NEW i \in 0 .. c
       PROVE  f[i] = IF i = 0 THEN <<>>
                     ELSE IF Source(keys[i]) \in ToSet(edges[row]) THEN f[i - 1]
                     ELSE BestWith(f[i - 1], keys[i], final_degree \div 2)
  BY <1>10
<1> HIDE DEF Def
<1>13. f[0] = <<>>
  <2>1. 0 \in 0 .. c   OBVIOUS
  <2> QED   BY <1>12, <2>1
<1>14. ASSUME NEW i \in 1 .. c
       PROVE  f[i] = IF Source(keys[i]) \in ToSet(edges[row]) THEN f[i - 1]
                     ELSE BestWith(f[i - 1], keys[i], final_degree \div 2)
  <2>1. i \in 0 .. c /\ i # 0   OBVIOUS
  <2> QED   BY <1>12, <2>1
<1> QED   BY <1>11, <1>13, <1>14 DEF BestFolds

\* Whatever order the keys arrive in, the first of those that are accepted stay.
LEMMA BestFirsts ==
  ASSUME HostValid, AnOrder, NEW edges, EdgesOf(edges), NEW row \in Nodes
  PROVE  \E m : Firsts(best(edges, row), m, Accepted(edges, row), OptOrder, final_degree \div 2)
<1>1. PICK k, X, A, K : /\ k = final_degree \div 2 /\ X = ToSet(edges[row])
                        /\ A = Accepted(edges, row) /\ K = reverse_keys(edges, row)   OBVIOUS
<1>2. k \in Nat
  <2>1. final_degree \in Nat
    BY Shapes
  <2> QED   BY <1>1, <2>1
<1>3. IsFiniteSet(K) /\ K \subseteq OptSlots /\ StrictTotal(K, OptOrder)
  BY <1>1, ReverseKeysAre
<1>4. A = {x \in K : Source(x) \notin X}
  BY <1>1 DEF Accepted
<1>5. PICK keys, c : keys = reverse_ptr(edges, row) /\ c = Len(keys)   OBVIOUS
<1>6. Lists(keys, c, K, Arriving(K))
  BY <1>1, <1>5, ArrivedAre
<1>7. /\ c \in Nat /\ keys \in [1 .. c -> K] /\ \A t, u \in 1 .. c : keys[t] = keys[u] => t = u
      /\ \A x \in K : \E t \in 1 .. c : keys[t] = x
  <2>1. StrictTotal(K, Arriving(K))
    BY <1>1, ArrivingOrders
  <2>2. c \in Nat /\ keys \in [1 .. c -> K]
    BY <1>6 DEF Lists
  <2> QED   BY SMTT(30), <1>3, <1>6, <2>1, <2>2, ListsFirsts
<1>8. BestFolds(best(edges, row), keys, c, edges, row)
  <2>1. \A i \in 1 .. c : keys[i] \in OptSlots
    BY <1>3, <1>7
  <2>2. final_degree \div 2 \in Nat
    BY <1>1, <1>2
  <2> QED   BY <1>5, <1>7, <2>1, <2>2, BestFold
<1>9. PICK f : /\ f[0] = <<>>
               /\ \A i \in 1 .. c : f[i] = IF Source(keys[i]) \in X THEN f[i - 1]
                                           ELSE BestWith(f[i - 1], keys[i], k)
               /\ best(edges, row) = f[c]
  BY <1>1, <1>8 DEF BestFolds
<1>10. PICK Z : Z = [i \in 0 .. c |-> {x \in A : \E j \in 1 .. i : keys[j] = x}]   OBVIOUS
<1>11. PICK T : T = {i \in 0 .. c : \E m : Firsts(f[i], m, Z[i], OptOrder, k)}   OBVIOUS
<1>12. 0 \in T
  <2>1. 0 \in 0 .. c
    BY <1>7
  <2>2. Z[0] = {}
    BY <1>10, <2>1
  <2>3. f[0] \in [1 .. 0 -> {}] /\ 0 \in 0 .. k
    BY <1>2, <1>9
  <2>4. Firsts(f[0], 0, {}, OptOrder, k)
    BY <2>3 DEF Firsts
  <2> QED   BY <1>11, <2>1, <2>2, <2>4
<1>13. ASSUME NEW i \in 0 + 1 .. c, i - 1 \in T PROVE i \in T
  <2>1. i \in 1 .. c /\ i \in 0 .. c /\ i - 1 \in 0 .. c /\ i \in Nat /\ i - 1 \in Nat
    BY <1>7
  <2>2. PICK x : x = keys[i]   OBVIOUS
  <2>3. x \in K
    BY <1>7, <2>1, <2>2
  <2>4. PICK m : Firsts(f[i - 1], m, Z[i - 1], OptOrder, k)
    BY <1>11, <1>13
  <2>5. Z[i - 1] \subseteq A /\ Z[i] \subseteq A /\ A \subseteq K
    BY <1>4, <1>10, <2>1
  <2>6. \A j \in 1 .. i : j \in 1 .. i - 1 \/ j = i
    BY <2>1
  <2>7. i \in 1 .. i /\ \A j \in 1 .. i - 1 : j \in 1 .. i
    BY <2>1
  <2>8. CASE Source(x) \in X
    <3>1. x \notin A
      BY <1>4, <2>8
    <3>2. Z[i] = Z[i - 1]
      BY <1>10, <2>1, <2>2, <2>6, <2>7, <3>1
    <3>3. f[i] = f[i - 1]
      BY <1>9, <2>1, <2>2, <2>8
    <3> QED   BY <1>11, <2>1, <2>4, <3>2, <3>3
  <2>9. CASE Source(x) \notin X
    <3>1. x \in A
      BY <1>4, <2>3, <2>9
    <3>2. Z[i] = Z[i - 1] \cup {x}
      BY <1>10, <2>1, <2>2, <2>6, <2>7, <3>1
    <3>3. x \notin Z[i - 1]
      <4>1. \A j \in 1 .. i - 1 : j \in 1 .. c /\ j # i
        BY <1>7, <2>1
      <4>2. \A j \in 1 .. i - 1 : keys[j] # x
        BY <1>7, <2>1, <2>2, <4>1
      <4> QED   BY <1>10, <2>1, <4>2
    <3>4. Z[i - 1] \cup {x} \subseteq OptSlots
      BY <1>3, <2>3, <2>5
    <3>5. StrictTotal(Z[i - 1] \cup {x}, OptOrder)
      BY <1>3, <2>3, <2>5 DEF StrictTotal
    <3>6. PICK l : Firsts(BestWith(f[i - 1], x, k), l, Z[i - 1] \cup {x}, OptOrder, k)
      BY <1>2, <2>4, <3>3, <3>4, <3>5, BestWithFirsts
    <3>7. f[i] = BestWith(f[i - 1], x, k)
      BY <1>9, <2>1, <2>2, <2>9
    <3> QED   BY <1>11, <2>1, <3>2, <3>6, <3>7
  <2> QED   BY <2>8, <2>9
<1>14. \A i \in 0 .. c : i \in T
  <2>1. 0 \in Int /\ c \in Int
    BY <1>7
  <2> QED   BY <1>12, <1>13, <2>1, Climb
<1>15. c \in 0 .. c /\ c \in T
  BY <1>7, <1>14
<1>16. Z[c] = A
  <2>1. A \subseteq K
    BY <1>4
  <2> QED   BY <1>7, <1>10, <1>15, <2>1
<1>17. \E m : Firsts(best(edges, row), m, A, OptOrder, k)
  BY <1>9, <1>11, <1>15, <1>16
<1> QED   BY <1>1, <1>17

\* The select kernel merges what the reference merges.
LEMMA SelectIsMerge ==
  ASSUME HostValid, AnOrder, NEW edges, EdgesOf(edges), NEW row \in Nodes
  PROVE  select_row(edges, row) = merged_row(edges, row)
<1>1. PICK k, A, z, y, c : /\ k = final_degree \div 2 /\ A = Accepted(edges, row)
                           /\ z = accepted(edges, row) /\ y = best(edges, row) /\ c = Len(z)
  OBVIOUS
<1>2. k \in Nat
  <2>1. final_degree \in Nat
    BY Shapes
  <2> QED   BY <1>1, <2>1
<1>3. IsFiniteSet(A) /\ StrictTotal(A, OptOrder) /\ Lists(z, c, A, OptOrder)
  BY <1>1, AcceptedAre
<1>4. PICK m : Firsts(y, m, A, OptOrder, k)
  BY <1>1, BestFirsts
<1>5. m \in Nat /\ m = (IF k <= c THEN k ELSE c) /\ \A t \in 1 .. m : y[t] = z[t]
  BY <1>2, <1>3, <1>4, FirstsOfList
<1>6. c \in Nat
  BY <1>3 DEF Lists
<1>7. Min({k, c}) = m
  BY <1>2, <1>5, <1>6, MinOfTwo
<1>8. Len(y) = m
  <2>1. y \in [1 .. m -> A]
    BY <1>4 DEF Firsts
  <2> QED   BY <1>5, <2>1
<1>9. PICK taken : taken = [i \in 1 .. m |-> Source(z[i])]   OBVIOUS
<1>10. [i \in 1 .. m |-> Source(y[i])] = taken
  BY <1>5, <1>9
<1>11. merged_row(edges, row) = InTurn(SubSeq(edges[row], 1, final_degree - m), taken)
  BY <1>1, <1>7, <1>9 DEF merged_row
<1>12. select_row(edges, row) = InTurn(SubSeq(edges[row], 1, final_degree - m), taken)
  BY <1>1, <1>8, <1>10 DEF select_row
<1> QED   BY <1>11, <1>12

-----------------------------------------------------------------------------
(* What a merged row holds. *)

\* Half as many in turn as there are places, and then the rest of the first.
LEMMA InTurnIs ==
  ASSUME NEW d \in Nat, NEW m \in Nat, 2 * m <= d, NEW fw, NEW rv, Len(fw) = d - m, Len(rv) = m,
         NEW mixed, mixed = InTurn(fw, rv)
  PROVE  /\ DOMAIN mixed = 1 .. d /\ Len(mixed) = d
         /\ \A i \in 1 .. d :
              \/ \E a \in 1 .. d - m : mixed[i] = fw[a] /\ i = IF a <= m THEN 2 * a - 1 ELSE a + m
              \/ \E b \in 1 .. m : mixed[i] = rv[b] /\ i = 2 * b
<1>1. Min({Len(fw), Len(rv)}) = m
  <2>1. Min({d - m, m}) = IF d - m <= m THEN d - m ELSE m
    BY MinOfTwo
  <2> QED   BY <2>1
<1>2. PICK total : total = Len(fw) + Len(rv)   OBVIOUS
<1>3. total = d
  BY <1>2
<1>4. mixed = [i \in 1 .. total |->
               IF i <= 2 * m THEN IF i % 2 = 1 THEN fw[(i + 1) \div 2] ELSE rv[i \div 2]
               ELSE IF Len(fw) > m THEN fw[i - m] ELSE rv[i - m]]
  BY <1>1, <1>2 DEF InTurn
<1>5. DOMAIN mixed = 1 .. d /\ Len(mixed) = d
  BY <1>3, <1>4
<1>6. ASSUME NEW i \in 1 .. d
      PROVE  \/ \E a \in 1 .. d - m : mixed[i] = fw[a] /\ i = IF a <= m THEN 2 * a - 1 ELSE a + m
             \/ \E b \in 1 .. m : mixed[i] = rv[b] /\ i = 2 * b
  <2>1. mixed[i] = IF i <= 2 * m THEN IF i % 2 = 1 THEN fw[(i + 1) \div 2] ELSE rv[i \div 2]
                 ELSE IF Len(fw) > m THEN fw[i - m] ELSE rv[i - m]
    BY <1>3, <1>4
  <2>2. CASE i <= 2 * m /\ i % 2 = 1
    <3>1. PICK a : a = (i + 1) \div 2   OBVIOUS
    <3>2. a \in Int /\ 2 * a = i + 1
      BY <2>2, <3>1
    <3>3. a \in 1 .. d - m /\ a <= m /\ i = 2 * a - 1
      BY <2>2, <3>2
    <3>4. mixed[i] = fw[a]
      BY <2>1, <2>2, <3>1
    <3> QED   BY <3>3, <3>4
  <2>3. CASE i <= 2 * m /\ i % 2 # 1
    <3>1. PICK b : b = i \div 2   OBVIOUS
    <3>2. b \in Int /\ 2 * b = i
      BY <2>3, <3>1
    <3>3. b \in 1 .. m /\ i = 2 * b
      BY <2>3, <3>2
    <3>4. mixed[i] = rv[b]
      BY <2>1, <2>3, <3>1
    <3> QED   BY <3>3, <3>4
  <2>4. CASE ~(i <= 2 * m)
    <3>1. PICK a : a = i - m   OBVIOUS
    <3>2. a \in 1 .. d - m /\ ~(a <= m) /\ i = a + m /\ d - m > m
      BY <2>4, <3>1
    <3>3. mixed[i] = fw[a]
      BY <2>1, <2>4, <3>1, <3>2
    <3> QED   BY <3>2, <3>3
  <2> QED   BY <2>2, <2>3, <2>4
<1> QED   BY <1>5, <1>6

LEMMA MergedIsValid ==
  ASSUME HostValid, NEW edges, EdgesOf(edges), NEW row \in Nodes
  PROVE  selected_row_valid(merged_row(edges, row), row)
<1>1. PICK d, k, A, z, c, e : /\ d = final_degree /\ k = d \div 2 /\ A = Accepted(edges, row)
                              /\ z = accepted(edges, row) /\ c = Len(z) /\ e = edges[row]   OBVIOUS
<1>2. d \in Nat /\ k \in Nat /\ 2 * k <= d
  <2>1. d \in Nat
    BY <1>1, Shapes
  <2> QED   BY <1>1, <2>1
<1>3. IsFiniteSet(A) /\ StrictTotal(A, OptOrder) /\ Lists(z, c, A, OptOrder)
  BY <1>1, AcceptedAre
<1>4. c \in Nat /\ z \in [1 .. c -> A] /\ \A t, u \in 1 .. c : z[t] = z[u] => t = u
  <2>1. c \in Nat /\ z \in [1 .. c -> A]
    BY <1>3 DEF Lists
  <2> QED   BY SMTT(30), <1>3, <2>1, ListsFirsts
<1>5. PICK m : m = Min({k, c})   OBVIOUS
<1>6. m = IF k <= c THEN k ELSE c
  BY <1>2, <1>4, <1>5, MinOfTwo
<1>7. m \in Nat /\ 2 * m <= d /\ m <= c /\ d - m \in Nat
  BY <1>2, <1>4, <1>6
<1>8. /\ e \in [1 .. d -> Nodes] /\ \A t \in 1 .. d : e[t] # row
      /\ \A t, u \in 1 .. d : e[t] = e[u] => t = u
  BY <1>1 DEF EdgesOf
<1>9. PICK fw : fw = SubSeq(e, 1, d - m)   OBVIOUS
<1>10. Len(fw) = d - m /\ \A a \in 1 .. d - m : fw[a] = e[a] /\ a \in 1 .. d
  <2>2. \A i \in 1 .. d - m : i \in 1 .. d
    BY <1>2, <1>7
  <2>3. \A i \in 1 .. d - m : e[i] \in Nodes
    BY <1>8, <2>2
  <2>4. 1 \in Int /\ d - m \in Int
    BY <1>7
  <2>5. /\ Len(fw) = (IF 1 <= d - m THEN (d - m) - 1 + 1 ELSE 0)
        /\ \A i \in 1 .. (d - m) - 1 + 1 : fw[i] = e[1 + i - 1]
    BY <1>9, <2>3, <2>4, SubSeqProperties
  <2> QED   BY <1>2, <1>7, <2>2, <2>5
<1>11. PICK rv : rv = [i \in 1 .. m |-> Source(z[i])]   OBVIOUS
<1>12. Len(rv) = m
  BY <1>7, <1>11
<1>13. PICK mixed : mixed = InTurn(fw, rv)   OBVIOUS
<1>14. merged_row(edges, row) = mixed
  BY <1>1, <1>5, <1>9, <1>11, <1>13 DEF merged_row
<1>15. /\ DOMAIN mixed = 1 .. d /\ Len(mixed) = d
       /\ \A i \in 1 .. d :
            \/ \E a \in 1 .. d - m : mixed[i] = fw[a] /\ i = IF a <= m THEN 2 * a - 1 ELSE a + m
            \/ \E b \in 1 .. m : mixed[i] = rv[b] /\ i = 2 * b
  BY SMTT(30), <1>2, <1>7, <1>10, <1>12, <1>13, InTurnIs
<1>16. ASSUME NEW b \in 1 .. m
       PROVE  /\ rv[b] = Source(z[b]) /\ z[b] \in reverse_keys(edges, row) /\ b \in 1 .. c
              /\ rv[b] \in Nodes /\ rv[b] # row /\ \A t \in 1 .. d : rv[b] # e[t]
  <2>1. b \in 1 .. c /\ rv[b] = Source(z[b])
    BY <1>4, <1>7, <1>11
  <2>2. z[b] \in A
    BY <1>4, <2>1
  <2>3. z[b] \in reverse_keys(edges, row) /\ Source(z[b]) \notin ToSet(e)
    BY <1>1, <2>2 DEF Accepted
  <2>4. /\ Source(z[b]) \in Nodes
        /\ \E t \in 1 .. final_degree : edges[Source(z[b])][t] = row
    BY <2>3, ReverseKeyIs
  <2>5. Source(z[b]) # row
    BY <1>1, <1>8, <2>4
  <2>6. \A t \in 1 .. d : e[t] \in ToSet(e)
    BY <1>8 DEF ToSet
  <2> QED   BY <2>1, <2>3, <2>4, <2>5, <2>6
<1>17. \A i \in 1 .. d : mixed[i] \in Nodes /\ mixed[i] # row
  BY <1>8, <1>10, <1>15, <1>16
<1>18. ASSUME NEW i \in 1 .. d, NEW j \in 1 .. d, mixed[i] = mixed[j] PROVE i = j
  <2>1. CASE \E a \in 1 .. d - m : mixed[i] = fw[a] /\ i = IF a <= m THEN 2 * a - 1 ELSE a + m
    <3>1. PICK a \in 1 .. d - m : mixed[i] = fw[a] /\ i = IF a <= m THEN 2 * a - 1 ELSE a + m
      BY <2>1
    <3>2. CASE \E f \in 1 .. d - m : mixed[j] = fw[f] /\ j = IF f <= m THEN 2 * f - 1 ELSE f + m
      <4>1. PICK f \in 1 .. d - m : mixed[j] = fw[f] /\ j = IF f <= m THEN 2 * f - 1 ELSE f + m
        BY <3>2
      <4>2. e[a] = e[f] /\ a \in 1 .. d /\ f \in 1 .. d
        BY <1>10, <1>18, <3>1, <4>1
      <4>3. a = f
        BY <1>8, <4>2
      <4>4. i = IF a <= m THEN 2 * a - 1 ELSE a + m
        BY <3>1
      <4>5. j = IF a <= m THEN 2 * a - 1 ELSE a + m
        BY <4>1, <4>3
      <4> QED   BY <4>4, <4>5
    <3>3. CASE \E b \in 1 .. m : mixed[j] = rv[b] /\ j = 2 * b
      <4>1. PICK b \in 1 .. m : mixed[j] = rv[b]
        BY <3>3
      <4>2. mixed[i] = e[a] /\ a \in 1 .. d
        BY <1>10, <3>1
      <4>3. rv[b] # e[a]
        BY <1>16, <4>2
      <4> QED   BY <1>18, <4>1, <4>2, <4>3
    <3> QED   BY <1>15, <3>2, <3>3
  <2>2. CASE \E b \in 1 .. m : mixed[i] = rv[b] /\ i = 2 * b
    <3>1. PICK b \in 1 .. m : mixed[i] = rv[b] /\ i = 2 * b
      BY <2>2
    <3>2. CASE \E f \in 1 .. d - m : mixed[j] = fw[f] /\ j = IF f <= m THEN 2 * f - 1 ELSE f + m
      <4>1. PICK f \in 1 .. d - m : mixed[j] = fw[f]
        BY <3>2
      <4>2. mixed[j] = e[f] /\ f \in 1 .. d
        BY <1>10, <4>1
      <4>3. rv[b] # e[f]
        BY <1>16, <4>2
      <4> QED   BY <1>18, <3>1, <4>2, <4>3
    <3>3. CASE \E g \in 1 .. m : mixed[j] = rv[g] /\ j = 2 * g
      <4>1. PICK g \in 1 .. m : mixed[j] = rv[g] /\ j = 2 * g
        BY <3>3
      <4>2. /\ Source(z[b]) = Source(z[g]) /\ z[b] \in reverse_keys(edges, row)
            /\ z[g] \in reverse_keys(edges, row) /\ b \in 1 .. c /\ g \in 1 .. c
        BY <1>16, <1>18, <3>1, <4>1
      <4>3. z[b] = z[g]
        BY <4>2, SourcesDiffer
      <4>4. b = g
        BY <1>4, <4>2, <4>3
      <4> QED   BY <3>1, <4>1, <4>4
    <3> QED   BY <1>15, <3>2, <3>3
  <2> QED   BY <1>15, <2>1, <2>2
<1>19. IsInjective(mixed)
  BY <1>15, <1>18 DEF IsInjective
<1> QED   BY <1>1, <1>14, <1>15, <1>17, <1>19 DEF selected_row_valid

-----------------------------------------------------------------------------
(* The call. *)

\* What the reference answers, and that its graphs are valid.
LEMMA HostAnswers ==
  ASSUME initial \in Graphs, final_degree \in FinalDegrees, NEW answer, answer = cagra_optimize_ranked
  PROVE  /\ ~valid_call => answer = [status |-> "invalid_argument"]
         /\ valid_call /\ ~ranked_rows_valid => answer = [status |-> "error"]
         /\ valid_call /\ ranked_rows_valid =>
              /\ answer = [status |-> "success",
                           graph |-> [row \in Nodes |-> merged_row(forward, row)]]
              /\ \A row \in Nodes : selected_row_valid(merged_row(forward, row), row)
<1>1. CASE ~valid_call
  BY <1>1 DEF cagra_optimize_ranked
<1>2. CASE valid_call /\ ~ranked_rows_valid
  BY <1>2 DEF cagra_optimize_ranked
<1>3. CASE valid_call /\ ranked_rows_valid
  <2>1. HostValid
    BY <1>3 DEF HostValid
  <2>2. PICK edges : edges = forward   OBVIOUS
  <2>3. EdgesOf(edges)
    BY <2>1, <2>2, ForwardEdges
  <2>4. \A row \in Nodes : selected_row_valid(merged_row(edges, row), row)
    BY <2>1, <2>3, MergedIsValid
  <2>5. answer = [status |-> "success", graph |-> [row \in Nodes |-> merged_row(edges, row)]]
    BY <1>3, <2>2 DEF cagra_optimize_ranked
  <2> QED   BY <1>3, <2>2, <2>4, <2>5
<1> QED   BY <1>1, <1>2, <1>3

LEMMA HostAnswerIsValid ==
  ASSUME initial \in Graphs, final_degree \in FinalDegrees, on_host = cagra_optimize_ranked,
         on_host.status = "success"
  PROVE  \A row \in Nodes : selected_row_valid(on_host.graph[row], row)
<1>1. /\ ~valid_call => on_host = [status |-> "invalid_argument"]
      /\ valid_call /\ ~ranked_rows_valid => on_host = [status |-> "error"]
      /\ valid_call /\ ranked_rows_valid =>
           /\ on_host = [status |-> "success",
                         graph |-> [row \in Nodes |-> merged_row(forward, row)]]
           /\ \A row \in Nodes : selected_row_valid(merged_row(forward, row), row)
  BY HostAnswers
<1>2. valid_call /\ ranked_rows_valid
  BY <1>1
<1>3. PICK graph : graph = [row \in Nodes |-> merged_row(forward, row)]   OBVIOUS
<1>4. on_host = [status |-> "success", graph |-> graph]
  BY <1>1, <1>2, <1>3
<1>5. on_host.graph = graph /\ \A row \in Nodes : graph[row] = merged_row(forward, row)
  BY <1>3, <1>4
<1> QED   BY <1>1, <1>2, <1>5

\* A step that keeps the arguments keeps what the reference answers.
LEMMA ForwardStays ==
  ASSUME initial' = initial, final_degree' = final_degree
  PROVE  forward' = forward
BY DEF forward, Ranked, Precedes, Candidate, detours, rank_of, Nodes, N, I

LEMMA AnswerStays ==
  ASSUME initial' = initial, final_degree' = final_degree
  PROVE  cagra_optimize_ranked' = cagra_optimize_ranked
<1>1. PICK edges : edges = forward   OBVIOUS
<1>2. forward' = edges
  BY <1>1, ForwardStays
<1>3. Nodes' = Nodes /\ N' = N /\ I' = I
  BY DEF Nodes, N, I
<1>4. ASSUME NEW row PROVE merged_row(edges, row)' = merged_row(edges, row)
  <2>1. accepted(edges, row)' = accepted(edges, row)
    BY DEF accepted, reverse_keys, Source, Ranked, Precedes, Nodes, N
  <2> QED   BY <2>1 DEF merged_row, InTurn
<1>5. [row \in Nodes |-> merged_row(edges, row)]' = [row \in Nodes |-> merged_row(edges, row)]
  BY <1>3, <1>4
<1>6. valid_call' = valid_call
  BY <1>3 DEF valid_call
<1>7. ranked_rows_valid' = ranked_rows_valid
  BY <1>3 DEF ranked_rows_valid
<1>8. cagra_optimize_ranked =
        CASE ~valid_call -> [status |-> "invalid_argument"]
          [] valid_call /\ ~ranked_rows_valid -> [status |-> "error"]
          [] valid_call /\ ranked_rows_valid ->
               [status |-> "success", graph |-> [row \in Nodes |-> merged_row(edges, row)]]
  BY <1>1 DEF cagra_optimize_ranked
<1>9. cagra_optimize_ranked' =
        CASE ~valid_call' -> [status |-> "invalid_argument"]
          [] valid_call' /\ ~ranked_rows_valid' -> [status |-> "error"]
          [] valid_call' /\ ranked_rows_valid' ->
               [status |-> "success", graph |-> [row \in Nodes |-> merged_row(edges, row)]']
  BY <1>2 DEF cagra_optimize_ranked
<1> QED   BY <1>5, <1>6, <1>7, <1>8, <1>9

\* What the answers must satisfy once both are there.
LEMMA AnswersAgree ==
  ASSUME initial' = initial, final_degree' = final_degree, on_host' = on_host,
         initial \in Graphs, final_degree \in FinalDegrees, on_host = cagra_optimize_ranked,
         IF on_gpu'.status = "unsupported" THEN I > MaxInitialDegree ELSE on_gpu' = on_host
  PROVE  GpuPrunesAsTheHost'
<1>1. I' = I /\ Nodes' = Nodes
  BY DEF I, Nodes, N
<1>2. PICK h : h = on_host   OBVIOUS
<1>3. h.status = "success" => \A row \in Nodes : selected_row_valid(h.graph[row], row)
  BY <1>2, HostAnswerIsValid
<1>4. \A mixed, row : selected_row_valid(mixed, row)' <=> selected_row_valid(mixed, row)
  BY <1>1 DEF selected_row_valid
<1>5. h.status = "success" => \A row \in Nodes : selected_row_valid(h.graph[row], row)'
  BY <1>3, <1>4
<1>6. on_host' = h
  BY <1>2
<1> QED   BY <1>1, <1>2, <1>5, <1>6 DEF GpuPrunesAsTheHost

LEMMA ValidStays ==
  ASSUME initial' = initial, final_degree' = final_degree
  PROVE  /\ OptValid' <=> OptValid
         /\ rank_ptr' = rank_ptr => (RowsById' <=> RowsById)
         /\ arrival' = arrival => (AnOrder' <=> AnOrder)
<1>1. Nodes' = Nodes /\ N' = N /\ I' = I
  BY DEF Nodes, N, I
<1>2. (valid_call' <=> valid_call) /\ (ranked_rows_valid' <=> ranked_rows_valid)
  BY <1>1 DEF valid_call, ranked_rows_valid
<1>3. OptValid' <=> OptValid
  BY <1>1, <1>2 DEF OptValid, HostValid
<1>4. ASSUME rank_ptr' = rank_ptr PROVE RowsById' <=> RowsById
  BY <1>1, <1>4 DEF RowsById, ById, IdKey
<1>5. arrival' = arrival => (AnOrder' <=> AnOrder)
  BY <1>1 DEF AnOrder
<1> QED   BY <1>3, <1>4, <1>5

LEMMA RankStep ==
  ASSUME OptInv, Rank
  PROVE  OptInv'
<1>1. /\ stage = "rank" /\ initial \in Graphs /\ final_degree \in FinalDegrees
      /\ on_host = cagra_optimize_ranked
      /\ initial' = initial /\ final_degree' = final_degree /\ on_host' = on_host
  BY DEF OptInv, Rank
<1>2. cagra_optimize_ranked' = cagra_optimize_ranked
  BY <1>1, AnswerStays
<1>3. CASE valid_call /\ I <= MaxInitialDegree /\ ranked_rows_valid
  <2>1. rank_ptr' = [row \in Nodes |-> SortedById(row)] /\ stage' = "forward"
    BY <1>3 DEF Rank
  <2>2. OptValid
    BY <1>1, <1>3 DEF OptValid, HostValid
  <2>3. OptValid'
    BY <1>1, <2>2, ValidStays
  <2>4. ASSUME NEW row \in Nodes' PROVE ById(rank_ptr[row], row)'
    <3>1. Nodes' = Nodes /\ I' = I
      BY <1>1 DEF Nodes, N, I
    <3>2. PICK keys : keys = SortedById(row)   OBVIOUS
    <3>3. rank_ptr'[row] = keys
      BY <2>1, <3>1, <3>2
    <3>4. ById(keys, row)
      BY <2>2, <3>1, <3>2, SortedByIdIs
    <3>5. \A r : IdKey(row, r)' = IdKey(row, r)
      BY <1>1 DEF IdKey
    <3> QED   BY <3>1, <3>3, <3>4, <3>5 DEF ById
  <2>5. RowsById'
    BY <2>4 DEF RowsById
  <2>6. GpuPrunesAsTheHost'
    BY <2>1 DEF GpuPrunesAsTheHost
  <2> QED   BY <1>1, <1>2, <2>1, <2>3, <2>5, <2>6 DEF OptInv
<1>4. CASE ~(valid_call /\ I <= MaxInitialDegree /\ ranked_rows_valid)
  <2>1. /\ stage' = "done"
        /\ on_gpu' = [status |-> IF ~valid_call THEN "invalid_argument"
                                 ELSE IF I > MaxInitialDegree THEN "unsupported" ELSE "error"]
    BY <1>4 DEF Rank
  <2>2. /\ ~valid_call => on_host = [status |-> "invalid_argument"]
        /\ valid_call /\ ~ranked_rows_valid => on_host = [status |-> "error"]
    BY <1>1, HostAnswers
  <2>3. IF on_gpu'.status = "unsupported" THEN I > MaxInitialDegree ELSE on_gpu' = on_host
    <3>1. CASE ~valid_call
      BY <2>1, <2>2, <3>1
    <3>2. CASE valid_call /\ I > MaxInitialDegree
      BY <2>1, <3>2
    <3>3. CASE valid_call /\ ~(I > MaxInitialDegree)
      <4>1. I <= MaxInitialDegree
        <5>1. I \in Int /\ MaxInitialDegree \in Int
          BY <1>1, OptAssumption DEF OptAssumption, I
        <5> QED   BY <3>3, <5>1
      <4>2. ~ranked_rows_valid
        BY <1>4, <3>3, <4>1
      <4> QED   BY <2>1, <2>2, <3>3, <4>2
    <3> QED   BY <3>1, <3>2, <3>3
  <2>4. GpuPrunesAsTheHost'
    BY <1>1, <2>3, AnswersAgree
  <2> QED   BY <1>1, <2>1, <2>4 DEF OptInv
<1> QED   BY <1>3, <1>4

LEMMA ForwardStep ==
  ASSUME OptInv, Forward
  PROVE  OptInv'
<1>1. /\ stage = "forward" /\ stage' = "scatter"
      /\ initial \in Graphs /\ final_degree \in FinalDegrees
      /\ on_host = cagra_optimize_ranked /\ OptValid /\ RowsById
      /\ initial' = initial /\ final_degree' = final_degree /\ on_host' = on_host
      /\ rank_ptr' = rank_ptr /\ forward_ptr' = [row \in Nodes |-> ForwardRow(row)]
  BY DEF OptInv, Forward
<1>2. cagra_optimize_ranked' = cagra_optimize_ranked
  BY <1>1, AnswerStays
<1>3. OptValid' /\ RowsById'
  BY <1>1, ValidStays
<1>4. forward_ptr' = forward'
  BY <1>1, ForwardTable, ForwardStays
<1>5. GpuPrunesAsTheHost'
  BY <1>1 DEF GpuPrunesAsTheHost
<1> QED   BY <1>1, <1>2, <1>3, <1>4, <1>5 DEF OptInv

LEMMA ScatterStep ==
  ASSUME OptInv, Scatter
  PROVE  OptInv'
<1>1. /\ stage = "scatter" /\ stage' = "select"
      /\ initial \in Graphs /\ final_degree \in FinalDegrees
      /\ on_host = cagra_optimize_ranked /\ OptValid /\ RowsById /\ forward_ptr = forward
      /\ initial' = initial /\ final_degree' = final_degree /\ on_host' = on_host
      /\ rank_ptr' = rank_ptr /\ forward_ptr' = forward_ptr
      /\ arrival' \in [Nodes -> Nodes] /\ IsInjective(arrival')
  BY DEF OptInv, Scatter
<1>2. cagra_optimize_ranked' = cagra_optimize_ranked
  BY <1>1, AnswerStays
<1>3. OptValid' /\ RowsById'
  BY <1>1, ValidStays
<1>4. forward_ptr' = forward'
  BY <1>1, ForwardStays
<1>5. AnOrder'
  <2>1. Nodes' = Nodes
    BY <1>1 DEF Nodes, N
  <2>2. DOMAIN arrival' = Nodes
    BY <1>1
  <2>3. \A a, b \in Nodes : arrival'[a] = arrival'[b] => a = b
    BY <1>1, <2>2 DEF IsInjective
  <2> QED   BY <1>1, <2>1, <2>3 DEF AnOrder
<1>6. GpuPrunesAsTheHost'
  BY <1>1 DEF GpuPrunesAsTheHost
<1> QED   BY <1>1, <1>2, <1>3, <1>4, <1>5, <1>6 DEF OptInv

LEMMA SelectStep ==
  ASSUME OptInv, SelectRows
  PROVE  OptInv'
<1>1. /\ stage = "select" /\ stage' = "done"
      /\ initial \in Graphs /\ final_degree \in FinalDegrees
      /\ on_host = cagra_optimize_ranked /\ OptValid /\ forward_ptr = forward /\ AnOrder
      /\ initial' = initial /\ final_degree' = final_degree /\ on_host' = on_host
  BY DEF OptInv, SelectRows
<1>2. HostValid /\ valid_call /\ ranked_rows_valid
  BY <1>1 DEF OptValid, HostValid
<1>3. PICK edges : edges = forward   OBVIOUS
<1>4. EdgesOf(edges)
  BY <1>2, <1>3, ForwardEdges
<1>5. \A row \in Nodes : /\ select_row(edges, row) = merged_row(edges, row)
                         /\ selected_row_valid(merged_row(edges, row), row)
  BY <1>1, <1>2, <1>4, SelectIsMerge, MergedIsValid
<1>6. PICK result : result = [row \in Nodes |-> select_row(edges, row)]   OBVIOUS
<1>7. PICK graph : graph = [row \in Nodes |-> merged_row(edges, row)]   OBVIOUS
<1>8. result = graph /\ \A row \in Nodes : selected_row_valid(result[row], row)
  <2>1. \A row \in Nodes : result[row] = graph[row] /\ result[row] = merged_row(edges, row)
    BY <1>5, <1>6, <1>7
  <2>2. result = graph
    BY <1>6, <1>7, <2>1
  <2> QED   BY <1>5, <2>1, <2>2
<1>9. on_gpu' = IF \A row \in Nodes : selected_row_valid(result[row], row)
                THEN [status |-> "success", graph |-> result] ELSE [status |-> "error"]
  BY <1>1, <1>3, <1>6 DEF SelectRows
<1>10. on_gpu' = [status |-> "success", graph |-> graph]
  BY <1>8, <1>9
<1>11. on_host = [status |-> "success", graph |-> graph]
  BY <1>1, <1>2, <1>3, <1>7, HostAnswers
<1>12. GpuPrunesAsTheHost'
  BY <1>1, <1>10, <1>11, AnswersAgree
<1> QED   BY <1>1, <1>12 DEF OptInv

\* Between the kernels of every call the tables are the reference's.
THEOREM OptPhases == OptSpec => []OptInv
<1>1. OptInit => OptInv
  BY DEF OptInit, OptInv, GpuPrunesAsTheHost
<1>2. OptInv /\ [OptNext]_optVars => OptInv'
  <2> SUFFICES ASSUME OptInv, [OptNext]_optVars PROVE OptInv'   OBVIOUS
  <2>1. CASE OptCall
    BY <2>1 DEF OptInv, OptCall, GpuPrunesAsTheHost
  <2>2. CASE OnHost
    <3>1. /\ stage = "host" /\ initial \in Graphs /\ final_degree \in FinalDegrees
          /\ stage' = "rank" /\ on_host' = cagra_optimize_ranked
          /\ initial' = initial /\ final_degree' = final_degree
      BY <2>2 DEF OptInv, OnHost
    <3>2. on_host' = cagra_optimize_ranked'
      BY <3>1, AnswerStays
    <3> QED   BY <3>1, <3>2 DEF OptInv, GpuPrunesAsTheHost
  <2>3. CASE Rank
    BY <2>3, RankStep
  <2>4. CASE Forward
    BY <2>4, ForwardStep
  <2>5. CASE Scatter
    BY <2>5, ScatterStep
  <2>6. CASE SelectRows
    BY <2>6, SelectStep
  <2>7. CASE UNCHANGED optVars
    <3>1. /\ initial' = initial /\ final_degree' = final_degree /\ on_host' = on_host
          /\ stage' = stage /\ rank_ptr' = rank_ptr /\ forward_ptr' = forward_ptr
          /\ arrival' = arrival /\ on_gpu' = on_gpu
      BY <2>7 DEF optVars
    <3>2. cagra_optimize_ranked' = cagra_optimize_ranked /\ forward' = forward
      BY <3>1, AnswerStays, ForwardStays
    <3>3. (OptValid' <=> OptValid) /\ (RowsById' <=> RowsById) /\ (AnOrder' <=> AnOrder)
      BY <3>1, ValidStays
    <3>4. GpuPrunesAsTheHost'
      BY <3>1 DEF OptInv, GpuPrunesAsTheHost, selected_row_valid, I, Nodes, N
    <3> QED   BY <3>1, <3>2, <3>3, <3>4 DEF OptInv
  <2> QED   BY <2>1, <2>2, <2>3, <2>4, <2>5, <2>6, <2>7 DEF OptNext
<1> QED   BY <1>1, <1>2, PTL DEF OptSpec

\* Property GpuPrunesAsTheHost: the kernels answer what the reference answers,
\* whatever order the reverse edges arrive in.
THEOREM AlwaysGpuPrunesAsTheHost == OptSpec => []GpuPrunesAsTheHost
<1>1. OptInv => GpuPrunesAsTheHost
  BY DEF OptInv
<1> QED   BY <1>1, OptPhases, PTL

=============================================================================
