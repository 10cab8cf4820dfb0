---------------------------- MODULE CpuWorkPool -----------------------------
(***************************************************************************)
(* CpuWorkPool (src/internal.hpp): the threads of a Resources, parked on a *)
(* condition variable between parallel loops.  A caller of run publishes   *)
(* its loop under m, wakes the workers, takes indices from `next` beside   *)
(* them, and waits on done_cv until every worker has left the loop.        *)
(*                                                                         *)
(* A critical section of m is one step; a wait on a condition variable is  *)
(* the pc "asleep", from which a notification or a spurious wakeup leads   *)
(* back to the evaluation of the predicate under m.                        *)
(***************************************************************************)
EXTENDS Integers, FiniteSets

CONSTANTS
  Callers,   \* threads that call run
  Workers,   \* threads of the pool
  NoOne,     \* not a thread: a null body, a free run_mutex
  MaxItems,  \* bound: indices of a loop
  MaxCalls   \* bound: calls of run

ASSUME PoolAssumption ==
  /\ IsFiniteSet(Workers)
  /\ Callers \cap Workers = {} /\ NoOne \notin Callers \cup Workers
  /\ MaxItems \in Nat /\ MaxCalls \in Nat

Threads == Callers \cup Workers

VARIABLES
  pc,                    \* where each thread stands
  fn, hi, item,          \* the locals of a thread: whose fn, end of range, index i
  lo,                    \* a caller's start of range
  seen,                  \* a worker's last generation
  runMutex,              \* holder of run_mutex
  body, next, end, active, generation,
  shutdown,
  destroyer,             \* where the destructor stands
  calls,                 \* calls of run so far
  left                   \* history: a caller's indices nobody has taken yet

locals == <<fn, hi, item, lo, seen>>
job == <<body, next, end, active, generation>>
vars == <<pc, locals, runMutex, job, shutdown, destroyer, calls, left>>

Init ==
  /\ pc = [t \in Threads |-> IF t \in Callers THEN "idle" ELSE "check"]
  /\ fn = [t \in Threads |-> IF t \in Callers THEN t ELSE NoOne]
  /\ hi = [t \in Threads |-> 0] /\ item = [t \in Threads |-> 0]
  /\ lo = [c \in Callers |-> 0]
  /\ seen = [w \in Workers |-> 0]
  /\ runMutex = NoOne
  /\ body = NoOne /\ next = 0 /\ end = 0 /\ active = 0 /\ generation = 0
  /\ shutdown = FALSE /\ destroyer = "none"
  /\ calls = 0
  /\ left = [c \in Callers |-> {}]

Goto(t, from, to) == pc[t] = from /\ pc' = [pc EXCEPT ![t] = to]

-----------------------------------------------------------------------------
(* run.                                                                    *)

\* Resources are destroyed when no call is in progress, and not used after.
Call(c, l, h) ==
  /\ calls < MaxCalls /\ ~shutdown
  /\ Goto(c, "idle", IF Workers = {} \/ h - l <= 1 THEN "inline" ELSE "lock")
  /\ lo' = [lo EXCEPT ![c] = l]
  /\ hi' = [hi EXCEPT ![c] = h]
  /\ item' = [item EXCEPT ![c] = l]
  /\ calls' = calls + 1
  /\ left' = [left EXCEPT ![c] = l .. h - 1]
  /\ UNCHANGED <<fn, seen, runMutex, job, shutdown, destroyer>>

\* No range, one index or no workers: the caller's own loop.
InlineItem(c) ==
  /\ item[c] < hi[c]
  /\ Goto(c, "inline", "inlineItem")
  /\ left' = [left EXCEPT ![c] = @ \ {item[c]}]
  /\ UNCHANGED <<locals, runMutex, job, shutdown, destroyer, calls>>

InlineFinish(c) ==
  /\ Goto(c, "inlineItem", "inline")
  /\ item' = [item EXCEPT ![c] = @ + 1]
  /\ UNCHANGED <<fn, hi, lo, seen, runMutex, job, shutdown, destroyer, calls, left>>

InlineReturn(c) ==
  /\ item[c] >= hi[c]
  /\ Goto(c, "inline", "idle")
  /\ UNCHANGED <<locals, runMutex, job, shutdown, destroyer, calls, left>>

Lock(c) ==
  /\ runMutex = NoOne
  /\ Goto(c, "lock", "publish")
  /\ runMutex' = c
  /\ UNCHANGED <<locals, job, shutdown, destroyer, calls, left>>

Publish(c) ==
  /\ Goto(c, "publish", "notify")
  /\ body' = c /\ next' = lo[c] /\ end' = hi[c]
  /\ active' = Cardinality(Workers)
  /\ generation' = generation + 1
  /\ UNCHANGED <<locals, runMutex, shutdown, destroyer, calls, left>>

WakeWorkers ==
  [t \in Threads |-> IF t \in Workers /\ pc[t] = "asleep" THEN "check" ELSE pc[t]]

\* Mutant: notify_one instead of notify_all.
NotifyOne(c) ==
  /\ pc[c] = "notify"
  /\ IF \E w \in Workers : pc[w] = "asleep"
       THEN \E w \in {x \in Workers : pc[x] = "asleep"} :
              pc' = [pc EXCEPT ![c] = "grab", ![w] = "check"]
       ELSE pc' = [pc EXCEPT ![c] = "grab"]
  /\ UNCHANGED <<locals, runMutex, job, shutdown, destroyer, calls, left>>

Notify(c) ==
  /\ pc[c] = "notify"
  /\ pc' = [WakeWorkers EXCEPT ![c] = "grab"]
  /\ UNCHANGED <<locals, runMutex, job, shutdown, destroyer, calls, left>>

\* next.fetch_add(1), by the caller or a worker.
Grab(t) ==
  /\ pc[t] = "grab"
  /\ next' = next + 1
  /\ item' = [item EXCEPT ![t] = next]
  /\ IF next < hi[t]
       THEN /\ pc' = [pc EXCEPT ![t] = "item"]
            /\ left' = [left EXCEPT ![fn[t]] = @ \ {next}]
       ELSE /\ pc' = [pc EXCEPT ![t] = IF t \in Callers THEN "drain" ELSE "retire"]
            /\ UNCHANGED left
  /\ UNCHANGED <<fn, hi, lo, seen, runMutex, body, end, active, generation, shutdown,
                 destroyer, calls>>

FinishItem(t) ==
  /\ Goto(t, "item", "grab")
  /\ UNCHANGED <<locals, runMutex, job, shutdown, destroyer, calls, left>>

\* An exception of the caller's fn leaves run at once; body stays as it is.
Throw(c) ==
  /\ Goto(c, "item", "idle")
  /\ runMutex' = NoOne
  /\ UNCHANGED <<locals, job, shutdown, destroyer, calls, left>>

\* done_cv.wait: the predicate, and with it the end of the call.
Drain(c) ==
  /\ active > 0
  /\ Goto(c, "drain", "asleep")
  /\ UNCHANGED <<locals, runMutex, job, shutdown, destroyer, calls, left>>

\* Mutant: the caller returns when it finds no index left.
ReturnEarly(c) ==
  /\ Goto(c, "drain", "idle")
  /\ body' = NoOne
  /\ runMutex' = NoOne
  /\ UNCHANGED <<locals, next, end, active, generation, shutdown, destroyer, calls, left>>

Return(c) ==
  /\ active = 0
  /\ Goto(c, "drain", "idle")
  /\ body' = NoOne
  /\ runMutex' = NoOne
  /\ UNCHANGED <<locals, next, end, active, generation, shutdown, destroyer, calls, left>>

-----------------------------------------------------------------------------
(* worker_loop.                                                            *)

Sleep(w) ==
  /\ ~shutdown /\ generation = seen[w]
  /\ Goto(w, "check", "asleep")
  /\ UNCHANGED <<locals, runMutex, job, shutdown, destroyer, calls, left>>

Exit(w) ==
  /\ shutdown
  /\ Goto(w, "check", "exit")
  /\ UNCHANGED <<locals, runMutex, job, shutdown, destroyer, calls, left>>

Join(w) ==
  /\ ~shutdown /\ generation # seen[w]
  /\ Goto(w, "check", "grab")
  /\ seen' = [seen EXCEPT ![w] = generation]
  /\ fn' = [fn EXCEPT ![w] = body]
  /\ hi' = [hi EXCEPT ![w] = end]
  /\ UNCHANGED <<item, lo, runMutex, job, shutdown, destroyer, calls, left>>

Retire(w) ==
  /\ Goto(w, "retire", IF active = 1 THEN "signal" ELSE "check")
  /\ active' = active - 1
  /\ UNCHANGED <<locals, runMutex, body, next, end, generation, shutdown, destroyer, calls, left>>

\* done_cv.notify_all(), after m was released.
WakeCallers ==
  [t \in Threads |-> IF t \in Callers /\ pc[t] = "asleep" THEN "drain" ELSE pc[t]]

Signal(w) ==
  /\ pc[w] = "signal"
  /\ pc' = [WakeCallers EXCEPT ![w] = "check"]
  /\ UNCHANGED <<locals, runMutex, job, shutdown, destroyer, calls, left>>

SpuriousWakeup(t) ==
  /\ Goto(t, "asleep", IF t \in Callers THEN "drain" ELSE "check")
  /\ UNCHANGED <<locals, runMutex, job, shutdown, destroyer, calls, left>>

-----------------------------------------------------------------------------
(* ~CpuWorkPool, from ovvsResourcesDestroy.                                *)

Shutdown ==
  /\ destroyer = "none"
  /\ \A c \in Callers : pc[c] = "idle"
  /\ shutdown' = TRUE /\ destroyer' = "notify"
  /\ UNCHANGED <<pc, locals, runMutex, job, calls, left>>

\* Mutant: the destructor joins without waking its workers.
NotifyNobody ==
  /\ destroyer = "notify" /\ destroyer' = "join"
  /\ UNCHANGED <<pc, locals, runMutex, job, shutdown, calls, left>>

NotifyShutdown ==
  /\ destroyer = "notify" /\ destroyer' = "join"
  /\ pc' = WakeWorkers
  /\ UNCHANGED <<locals, runMutex, job, shutdown, calls, left>>

Joined ==
  /\ destroyer = "join" /\ destroyer' = "gone"
  /\ \A w \in Workers : pc[w] = "exit"
  /\ UNCHANGED <<pc, locals, runMutex, job, shutdown, calls, left>>

-----------------------------------------------------------------------------

InlineSteps(c) == InlineItem(c) \/ InlineFinish(c) \/ InlineReturn(c)
LoopSteps(t) == Grab(t) \/ FinishItem(t)
CallerSteps(c) == \/ InlineSteps(c) \/ LoopSteps(c)
                  \/ Lock(c) \/ Publish(c) \/ Notify(c) \/ Drain(c) \/ Return(c)
WorkerSteps(w) == \/ LoopSteps(w)
                  \/ Sleep(w) \/ Exit(w) \/ Join(w) \/ Retire(w) \/ Signal(w)
DestroySteps == NotifyShutdown \/ Joined

Next ==
  \/ \E c \in Callers : CallerSteps(c) \/ \E l, h \in 0 .. MaxItems : Call(c, l, h)
  \/ \E w \in Workers : WorkerSteps(w)
  \/ \E t \in Threads : SpuriousWakeup(t)
  \/ Shutdown \/ DestroySteps

\* Every thread runs on; nobody has to call, to destroy or to wake up spuriously.
Fairness ==
  /\ \A c \in Callers : WF_vars(CallerSteps(c))
  /\ \A w \in Workers : WF_vars(WorkerSteps(w))
  /\ WF_vars(DestroySteps)

Spec == Init /\ [][Next]_vars /\ Fairness

\* With an fn that throws, as walk_one in prim_graph_walk may (std::bad_alloc).
ThrowingSpec == Init /\ [][Next \/ \E c \in Callers : Throw(c)]_vars

-----------------------------------------------------------------------------
(* Properties.                                                             *)

CallerPc == {"idle", "inline", "inlineItem", "lock", "publish", "notify", "grab", "item",
             "drain", "asleep"}
WorkerPc == {"check", "asleep", "grab", "item", "retire", "signal", "exit"}

\* Every thread stands in code of its own kind.
PcOK ==
  /\ pc \in [Threads -> CallerPc \cup WorkerPc]
  /\ \A c \in Callers : pc[c] \in CallerPc
  /\ \A w \in Workers : pc[w] \in WorkerPc

\* Locals, job and counters keep their types; `active` does not go below zero.
TypeOK ==
  /\ PcOK
  /\ fn \in [Threads -> Callers \cup {NoOne}]
  /\ \A c \in Callers : fn[c] = c
  /\ hi \in [Threads -> Int] /\ item \in [Threads -> Int] /\ lo \in [Callers -> Int]
  /\ seen \in [Workers -> Nat]
  /\ runMutex \in Callers \cup {NoOne} /\ body \in Callers \cup {NoOne}
  /\ next \in Int /\ end \in Int /\ active \in Nat /\ generation \in Nat
  /\ shutdown \in BOOLEAN /\ destroyer \in {"none", "notify", "join", "gone"}
  /\ calls \in Nat
  /\ left \in [Callers -> SUBSET Int]

\* Callers that have published their loop and not returned.
Publishers == {c \in Callers : pc[c] \in {"notify", "grab", "item", "drain", "asleep"}}

\* Workers that have not left the current loop: some have not noticed it yet.
Pending == {w \in Workers : seen[w] # generation \/ pc[w] \in {"grab", "item", "retire"}}

\* The count the caller waits for is that of the workers still to leave the
\* loop: it is never zero while one of them may touch next or fn.
NobodyForgotten == active = Cardinality(Pending)

\* fn lives in the frame of run's caller: no worker uses it outside of the call.
FnOutlivesItsUsers == \A w \in Workers : pc[w] \in {"grab", "item"} => fn[w] \in Publishers

\* run applies fn to each index once and returns when all applications have
\* ended.
Executing == {t \in Threads : pc[t] \in {"item", "inlineItem"}}

Promise == INSTANCE ParallelFor WITH
  open <- {c \in Callers : pc[c] # "idle"},
  running <- {<<t, fn[t], item[t]>> : t \in Executing}

EveryIndexOnce == Promise!Spec

\* Every call of run returns: no wakeup is lost.
RunReturns == \A c \in Callers : pc[c] # "idle" ~> pc[c] = "idle"

\* The destructor gets its workers to exit.
DestroyEnds == shutdown ~> destroyer = "gone"

=============================================================================
