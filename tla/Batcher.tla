------------------------------- MODULE Batcher -------------------------------
(***************************************************************************)
(* The dynamic batcher (src/rt/batcher.cpp): concurrent small searches of  *)
(* a brute-force index are queued under mu and run as one search, by the   *)
(* thread whose queries fill the batch, whose k differs from the queue's,  *)
(* or whose wait times out.  Each caller leaves a Waiter, which lives in   *)
(* its frame, for the thread that flushes.                                 *)
(*                                                                         *)
(* What holds mu is one step, the flush and its search included.  A query  *)
(* is <<thread, number of its call, position>>; the answer to it is the    *)
(* query with the k it was searched with.                                  *)
(***************************************************************************)
EXTENDS Integers, Sequences, FiniteSets

CONSTANTS
  Threads,
  MaxBatch,   \* max_batch
  Waits,      \* whether max_wait_ms > 0
  MaxNq,      \* bound: queries of a call
  Ks,         \* values of k callers ask for
  MaxCalls    \* bound: calls of ovvsBatcherSearch

ASSUME BatcherAssumption ==
  /\ MaxBatch \in Nat \ {0} /\ MaxNq \in Nat \ {0} /\ MaxCalls \in Nat
  /\ Ks \subseteq Nat \ {0} /\ Waits \in BOOLEAN

VARIABLES
  batcher,  \* the queued queries, their k, the waiters, last_batch_nq
  w,        \* the Waiter of each thread's current or last call
  inside,   \* threads asleep in ovvsBatcherSearch
  calls     \* calls so far, per thread

vars == <<batcher, w, inside, calls>>

NoCall == [offset |-> 0, nq |-> 0, k |-> 0, answer |-> <<>>, status |-> "success", done |-> FALSE]

Init ==
  /\ batcher = [queued |-> <<>>, k |-> 0, waiters |-> {}, last |-> 0]
  /\ w = [t \in Threads |-> NoCall]
  /\ inside = {}
  /\ calls = [t \in Threads |-> 0]

Queries(t, nq) == [i \in 1 .. nq |-> <<t, calls[t] + 1, i>>]

-----------------------------------------------------------------------------
(* What the holder of mu does, as functions of s = [batcher, w].           *)

\* flush_locked.  The search answers every query or fails.
Flush(s, status) ==
  LET b == s.batcher
      Answered(x) ==
        [x EXCEPT !.answer = IF status = "success"
                               THEN [i \in 1 .. x.nq |-> <<b.queued[x.offset + i], b.k>>]
                               ELSE <<>>,
                  !.status = status, !.done = TRUE]
  IN  IF b.queued = <<>> THEN s
      ELSE [batcher |-> [queued |-> <<>>, k |-> 0, waiters |-> {}, last |-> Len(b.queued)],
            w |-> [t \in Threads |-> IF t \in b.waiters THEN Answered(s.w[t]) ELSE s.w[t]]]

\* Mutant: a call with another k joins the queue as it is.
JoinAnyK(s, t, nq, k, status) ==
  [batcher |-> [s.batcher EXCEPT !.queued = @ \o Queries(t, nq), !.k = k,
                                 !.waiters = @ \cup {t}],
   w |-> [s.w EXCEPT ![t] = [NoCall EXCEPT !.offset = Len(s.batcher.queued), !.nq = nq, !.k = k]]]

\* The queue of another k is flushed first.
Join(s, t, nq, k, status) ==
  LET q == IF s.batcher.k # k THEN Flush(s, status) ELSE s
      b == q.batcher
  IN  [batcher |-> [b EXCEPT !.queued = @ \o Queries(t, nq), !.k = k, !.waiters = @ \cup {t}],
       w |-> [q.w EXCEPT ![t] = [NoCall EXCEPT !.offset = Len(b.queued), !.nq = nq, !.k = k]]]

-----------------------------------------------------------------------------

Full(s) == Len(s.batcher.queued) >= MaxBatch

Statuses == {"success", "error"}

Becomes(s) == batcher' = s.batcher /\ w' = s.w

State == [batcher |-> batcher, w |-> w]

\* ovvsBatcherSearch up to its wait; the batch it fills, or every one when
\* nobody waits, is flushed at once.
Search(t, nq, k) ==
  /\ t \notin inside /\ calls[t] < MaxCalls
  /\ \E before, after \in Statuses :
       LET s == Join(State, t, nq, k, before)
       IN  IF Full(s) \/ ~Waits
             THEN Becomes(Flush(s, after)) /\ UNCHANGED inside
             ELSE Becomes(s) /\ inside' = inside \cup {t}
  /\ calls' = [calls EXCEPT ![t] = @ + 1]

\* Mutant: a call that times out gives up and leaves its Waiter in the queue.
GiveUp(t) ==
  /\ t \in inside
  /\ inside' = inside \ {t}
  /\ UNCHANGED <<batcher, w, calls>>

\* wait_for returns: the Waiter is done, or the time is over.
WakeUp(t) ==
  /\ t \in inside
  /\ IF w[t].done THEN UNCHANGED <<batcher, w>>
     ELSE \E status \in Statuses : Becomes(Flush(State, status))
  /\ inside' = inside \ {t}
  /\ UNCHANGED calls

Next ==
  \/ \E t \in Threads, nq \in 1 .. MaxNq, k \in Ks : Search(t, nq, k)
  \/ \E t \in Threads : WakeUp(t)

Spec == Init /\ [][Next]_vars

-----------------------------------------------------------------------------
(* Properties.                                                             *)

\* Offsets and waiters fit the queue, which never holds a full batch while
\* nobody holds mu.
TypeOK ==
  /\ Len(batcher.queued) < MaxBatch
  /\ batcher.k \in Ks \cup {0} /\ (batcher.k = 0 <=> batcher.queued = <<>>)
  /\ batcher.waiters \subseteq Threads /\ inside \subseteq Threads
  /\ \A t \in Threads : /\ w[t].status \in Statuses /\ w[t].done \in BOOLEAN
                        /\ w[t].offset \in Nat /\ w[t].nq \in 0 .. MaxNq
  /\ calls \in [Threads -> 0 .. MaxCalls]

\* A call that returned success has the answers to its own queries, in their
\* order, searched with its k, as an eager search would have given them.
MatchesEager ==
  \A t \in Threads \ inside :
    calls[t] > 0 /\ w[t].status = "success" =>
      w[t].answer = [i \in 1 .. w[t].nq |-> <<<<t, calls[t], i>>, w[t].k>>]

\* The flush writes through pointers into the frames of blocked calls: each of
\* them is still inside, and those inside that are not done will be found.
WaitersAreBlocked == batcher.waiters = {t \in inside : ~w[t].done}

\* "up to max_batch": no search runs over more queries than that.
BatchWithinMax == batcher.last <= MaxBatch

=============================================================================
