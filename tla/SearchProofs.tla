---------------------------- MODULE SearchProofs ----------------------------
(***************************************************************************)
(* Theorems about searches in batches.  The batcher hands callers their    *)
(* own answers, and its flush writes only to calls that are blocked: for   *)
(* any threads, batch size, k and queries, and searches that fail.  What   *)
(* it relies on, that a query gets the answer it would get alone, and the  *)
(* rest of what the runs check of the indexes that scan lists, holds for   *)
(* rows, batches, block sizes and devices of any number and kind.          *)
(*                                                                         *)
(* The proof about the indexes goes from Ascending, TopK and Cat (Ranks,   *)
(* TopKFacts, CatFacts), over the lists of an index (Sorted, RightInv), to *)
(* the plans of a block (Laid) and what a query chooses among them         *)
(* (Chosen), and to the rows a full probe enumerates (Enumerates).         *)
(***************************************************************************)
EXTENDS Batcher, IvfIndexes, FiniteSetTheorems, SequenceTheorems,
        WellFoundedInduction, TLAPS

-----------------------------------------------------------------------------
(* The invariant, of what Flush and Join work on (s) and the calls (c).    *)

Query == Threads \X Nat \X Nat
WaiterType == [offset : Nat, nq : 0 .. MaxNq, k : Nat, answer : Seq(Query \X Nat),
               status : Statuses, done : BOOLEAN]
BatcherType == [queued : Seq(Query), k : Ks \cup {0}, waiters : SUBSET Threads, last : Nat]
StateType == [batcher : BatcherType, w : [Threads -> WaiterType]]

\* The queries of a waiting call stand in the queue, from its offset on.
Stands(s, c, t) ==
  \A i \in 1 .. s.w[t].nq :
    /\ s.w[t].offset + i \in 1 .. Len(s.batcher.queued)
    /\ s.batcher.queued[s.w[t].offset + i] = <<t, c[t], i>>

Own(s, c, t) ==
  s.w[t].status = "success" =>
    s.w[t].answer = [i \in 1 .. s.w[t].nq |-> <<<<t, c[t], i>>, s.w[t].k>>]

Good(s, c) ==
  /\ s \in StateType
  /\ s.batcher.k = 0 <=> s.batcher.queued = <<>>
  /\ \A t \in s.batcher.waiters :
       ~s.w[t].done /\ s.w[t].nq > 0 /\ s.w[t].k = s.batcher.k /\ Stands(s, c, t)
  /\ \A t \in Threads \ s.batcher.waiters : c[t] > 0 => s.w[t].done /\ Own(s, c, t)

IInv ==
  /\ Good(State, calls)
  /\ calls \in [Threads -> 0 .. MaxCalls] /\ inside \subseteq Threads
  /\ WaitersAreBlocked
  /\ Len(batcher.queued) < MaxBatch

-----------------------------------------------------------------------------
(* flush_locked and the queueing of a call.                                *)

\* A flush answers every waiter and leaves the queue empty.
LEMMA FlushGood ==
  ASSUME NEW s, NEW c \in [Threads -> Nat], NEW status \in Statuses, Good(s, c)
  PROVE  /\ Good(Flush(s, status), c)
         /\ Flush(s, status).batcher.waiters = {} /\ Flush(s, status).batcher.queued = <<>>
         /\ \A t \in Threads :
              Flush(s, status).w[t].done <=> (s.w[t].done \/ t \in s.batcher.waiters)
<1> DEFINE f == Flush(s, status)
           b == s.batcher
           ans(t) == IF status = "success"
                       THEN [i \in 1 .. s.w[t].nq |-> <<b.queued[s.w[t].offset + i], b.k>>]
                       ELSE <<>>
           new(t) == [s.w[t] EXCEPT !.answer = ans(t), !.status = status, !.done = TRUE]
<1>1. /\ b \in BatcherType /\ s.w \in [Threads -> WaiterType]
      /\ b.waiters \subseteq Threads /\ b.queued \in Seq(Query) /\ b.k \in Nat
  <2>1. Ks \cup {0} \subseteq Nat
    BY BatcherAssumption
  <2> QED BY <2>1 DEF Good, StateType, BatcherType
<1>2. CASE b.queued = <<>>
  <2>1. f = s
    BY <1>2 DEF Flush
  <2>2. b.waiters = {}
    <3> SUFFICES ASSUME NEW t \in b.waiters PROVE FALSE
      OBVIOUS
    <3>1. s.w[t].nq \in Nat /\ s.w[t].nq > 0 /\ Stands(s, c, t)
      BY <1>1 DEF Good, WaiterType
    <3>2. s.w[t].offset + 1 \in 1 .. Len(b.queued)
      BY <3>1 DEF Stands
    <3> QED BY <3>2, <1>2, <1>1 DEF WaiterType
  <2> QED BY <2>1, <2>2, <1>2
<1>3. CASE b.queued # <<>>
  <2>1. f = [batcher |-> [queued |-> <<>>, k |-> 0, waiters |-> {}, last |-> Len(b.queued)],
             w |-> [t \in Threads |-> IF t \in b.waiters THEN new(t) ELSE s.w[t]]]
    BY <1>3 DEF Flush
  <2> HIDE DEF new, f
  <2>2. /\ f.batcher = [queued |-> <<>>, k |-> 0, waiters |-> {}, last |-> Len(b.queued)]
        /\ f.w = [t \in Threads |-> IF t \in b.waiters THEN new(t) ELSE s.w[t]]
    BY <2>1
  <2> USE DEF new
  <2>3. ASSUME NEW t \in b.waiters
        PROVE  /\ new(t) \in WaiterType /\ new(t).done
               /\ new(t).nq = s.w[t].nq /\ new(t).k = s.w[t].k
               /\ new(t).status = status /\ new(t).answer = ans(t)
               /\ status = "success" =>
                    ans(t) = [i \in 1 .. s.w[t].nq |-> <<<<t, c[t], i>>, s.w[t].k>>]
    <3>1. /\ s.w[t] \in WaiterType /\ s.w[t].nq \in Nat /\ s.w[t].offset \in Nat
          /\ s.w[t].k = b.k /\ Stands(s, c, t) /\ t \in Threads
      BY <1>1 DEF Good, WaiterType
    <3>2. \A i \in 1 .. s.w[t].nq : /\ b.queued[s.w[t].offset + i] = <<t, c[t], i>>
                                   /\ b.queued[s.w[t].offset + i] \in Query
      BY <3>1, <1>1, SMTT(30) DEF Stands
    <3>3. ans(t) \in Seq(Query \X Nat)
      <4>1. CASE status = "success"
        <5>1. \A i \in 1 .. s.w[t].nq : <<b.queued[s.w[t].offset + i], b.k>> \in Query \X Nat
          BY <3>2, <1>1
        <5>2. ans(t) = [i \in 1 .. s.w[t].nq |-> <<b.queued[s.w[t].offset + i], b.k>>]
          BY <4>1
        <5>3. ans(t) \in [1 .. s.w[t].nq -> Query \X Nat]
          BY <5>1, <5>2, Zenon
        <5> HIDE DEF ans
        <5> QED BY <5>3, <3>1
      <4>2. CASE status # "success"
        BY <4>2
      <4> QED BY <4>1, <4>2
    <3>4. status = "success" =>
            ans(t) = [i \in 1 .. s.w[t].nq |-> <<<<t, c[t], i>>, s.w[t].k>>]
      BY <3>1, <3>2
    <3> HIDE DEF ans
    <3>5. /\ new(t) \in WaiterType /\ new(t).done
          /\ new(t).nq = s.w[t].nq /\ new(t).k = s.w[t].k
          /\ new(t).status = status /\ new(t).answer = ans(t)
      BY <3>1, <3>3 DEF WaiterType
    <3> HIDE DEF new
    <3> QED BY <3>4, <3>5
  <2> HIDE DEF new, ans, b
  <2>4. f \in StateType
    <3>1. f.w \in [Threads -> WaiterType]
      BY <2>2, <2>3, <1>1
    <3>2. f.batcher \in BatcherType
      BY <2>2, <1>1 DEF BatcherType
    <3>3. f = [batcher |-> f.batcher, w |-> f.w]
      BY <2>1, <2>2
    <3> QED BY <3>1, <3>2, <3>3 DEF StateType
  <2>5. f.batcher.waiters = {} /\ f.batcher.queued = <<>>
    BY <2>2
  <2>6. \A t \in Threads : f.w[t].done <=> (s.w[t].done \/ t \in b.waiters)
    BY <2>2, <2>3
  <2>7. ASSUME NEW t \in Threads, c[t] > 0
        PROVE  f.w[t].done /\ Own(f, c, t)
    <3>1. CASE t \in b.waiters
      <4>1. f.w[t] = new(t)
        BY <2>2, <3>1
      <4>2. /\ f.w[t].done /\ f.w[t].nq = s.w[t].nq /\ f.w[t].k = s.w[t].k
            /\ f.w[t].status = status /\ f.w[t].answer = ans(t)
            /\ status = "success" =>
                 ans(t) = [i \in 1 .. s.w[t].nq |-> <<<<t, c[t], i>>, s.w[t].k>>]
        BY <4>1, <3>1, <2>3
      <4> QED BY <4>2, Zenon DEF Own
    <3>2. CASE t \notin b.waiters
      <4>1. f.w[t] = s.w[t]
        BY <2>2, <3>2
      <4> QED BY <4>1, <3>2, <2>7 DEF Own, Good, b
    <3> QED BY <3>1, <3>2
  <2>8. Good(f, c)
    BY <2>2, <2>4, <2>5, <2>7 DEF Good
  <2> QED BY <2>5, <2>6, <2>8 DEF f, b
<1> QED BY <1>2, <1>3

\* A call is appended to a queue of its own k.
LEMMA JoinGood ==
  ASSUME NEW s, calls \in [Threads -> Nat], Good(s, calls),
         NEW t \in Threads, t \notin s.batcher.waiters,
         NEW nq \in 1 .. MaxNq, NEW k \in Ks, NEW status \in Statuses
  PROVE  LET j == Join(s, t, nq, k, status) IN
         /\ Good(j, [calls EXCEPT ![t] = @ + 1])
         /\ ~j.w[t].done
         /\ \A u \in Threads \ {t} :
              /\ u \in j.batcher.waiters => u \in s.batcher.waiters
              /\ u \in s.batcher.waiters => u \in j.batcher.waiters \/ j.w[u].done
              /\ u \notin s.batcher.waiters => (j.w[u].done <=> s.w[u].done)
         /\ t \in j.batcher.waiters
<1> DEFINE q == IF s.batcher.k # k THEN Flush(s, status) ELSE s
           b == q.batcher
           j == Join(s, t, nq, k, status)
           c == [calls EXCEPT ![t] = @ + 1]
           mine == [NoCall EXCEPT !.offset = Len(b.queued), !.nq = nq, !.k = k]
<1>1. /\ Good(q, calls) /\ t \notin b.waiters
      /\ \A u \in b.waiters : q.w[u].k = k
      /\ \A u \in Threads :
           /\ u \in b.waiters => u \in s.batcher.waiters
           /\ u \in s.batcher.waiters => u \in b.waiters \/ q.w[u].done
           /\ u \notin s.batcher.waiters => (q.w[u].done <=> s.w[u].done)
  <2>1. CASE s.batcher.k = k
    BY <2>1 DEF Good
  <2>2. CASE s.batcher.k # k
    BY <2>2, FlushGood
  <2> QED BY <2>1, <2>2
<1>2. j = [batcher |-> [b EXCEPT !.queued = @ \o Queries(t, nq), !.k = k, !.waiters = @ \cup {t}],
           w |-> [q.w EXCEPT ![t] = mine]]
  BY DEF Join
<1> HIDE DEF q, j
<1>3. /\ b \in BatcherType /\ q.w \in [Threads -> WaiterType]
      /\ b.waiters \subseteq Threads /\ b.queued \in Seq(Query)
  BY <1>1 DEF Good, StateType, BatcherType
<1>4. nq \in Nat /\ nq > 0 /\ nq \in 0 .. MaxNq /\ k \in Nat /\ k > 0
  BY BatcherAssumption
<1>5. /\ Queries(t, nq) \in Seq(Query) /\ Len(Queries(t, nq)) = nq
      /\ \A i \in 1 .. nq : Queries(t, nq)[i] = <<t, calls[t] + 1, i>>
  BY <1>4 DEF Queries, Query
<1>6. /\ j.batcher = [b EXCEPT !.queued = @ \o Queries(t, nq), !.k = k, !.waiters = @ \cup {t}]
      /\ j.w = [q.w EXCEPT ![t] = mine]
  BY <1>2
<1>7. /\ j.batcher.queued = b.queued \o Queries(t, nq) /\ j.batcher.k = k
      /\ j.batcher.waiters = b.waiters \cup {t} /\ j.batcher \in BatcherType
  <2>1. b.queued \o Queries(t, nq) \in Seq(Query) /\ b.waiters \cup {t} \in SUBSET Threads
    BY <1>3, <1>5
  <2> HIDE DEF b
  <2> QED BY <2>1, <1>3, <1>4, <1>6 DEF BatcherType
<1>8. /\ mine \in WaiterType /\ mine.offset = Len(b.queued) /\ mine.nq = nq
      /\ mine.k = k /\ mine.done = FALSE
  <2>1. Len(b.queued) \in Nat /\ <<>> \in Seq(Query \X Nat)
    BY <1>3
  <2> QED BY <2>1, <1>4 DEF NoCall, WaiterType, Statuses
<1> HIDE DEF mine
<1>9. j.w[t] = mine /\ \A u \in Threads \ {t} : j.w[u] = q.w[u]
  BY <1>3, <1>6
<1>10. j \in StateType
  <2>1. j.w \in [Threads -> WaiterType]
    BY <1>3, <1>6, <1>8
  <2> QED BY <2>1, <1>2, <1>6, <1>7 DEF StateType
<1>11. Stands(j, c, t)
  <2> SUFFICES ASSUME NEW i \in 1 .. nq
               PROVE  /\ Len(b.queued) + i \in 1 .. Len(j.batcher.queued)
                      /\ j.batcher.queued[Len(b.queued) + i] = <<t, c[t], i>>
    BY <1>8, <1>9 DEF Stands
  <2> QED BY SMTT(30), <1>3, <1>4, <1>5, <1>7
<1>12. ASSUME NEW u \in b.waiters PROVE Stands(j, c, u)
  <2>1. u # t /\ u \in Threads /\ Stands(q, calls, u) /\ j.w[u] = q.w[u]
    BY <1>1, <1>3, <1>9 DEF Good
  <2> SUFFICES ASSUME NEW i \in 1 .. q.w[u].nq
               PROVE  /\ q.w[u].offset + i \in 1 .. Len(j.batcher.queued)
                      /\ j.batcher.queued[q.w[u].offset + i] = <<u, c[u], i>>
    BY <2>1 DEF Stands
  <2>2. /\ q.w[u].offset + i \in 1 .. Len(b.queued)
        /\ b.queued[q.w[u].offset + i] = <<u, calls[u], i>> /\ c[u] = calls[u]
    BY <2>1 DEF Stands
  <2> HIDE DEF c, b
  <2> QED BY <2>2, <1>3, <1>4, <1>5, <1>7, SMTT(30)
<1>13. \A u \in j.batcher.waiters :
         ~j.w[u].done /\ j.w[u].nq > 0 /\ j.w[u].k = j.batcher.k /\ Stands(j, c, u)
  <2>1. ~j.w[t].done /\ j.w[t].nq > 0 /\ j.w[t].k = j.batcher.k
    BY <1>4, <1>7, <1>8, <1>9
  <2>2. \A u \in b.waiters : ~j.w[u].done /\ j.w[u].nq > 0 /\ j.w[u].k = j.batcher.k
    BY <1>1, <1>3, <1>7, <1>9, SMTT(30) DEF Good
  <2> QED BY <2>1, <2>2, <1>7, <1>11, <1>12
<1>14. \A u \in Threads \ j.batcher.waiters : c[u] > 0 => j.w[u].done /\ Own(j, c, u)
  <2> SUFFICES ASSUME NEW u \in Threads \ j.batcher.waiters, c[u] > 0
               PROVE  j.w[u].done /\ Own(j, c, u)
    OBVIOUS
  <2>1. u # t /\ u \notin b.waiters /\ j.w[u] = q.w[u] /\ c[u] = calls[u]
    BY <1>7, <1>9
  <2>2. q.w[u].done /\ Own(q, calls, u)
    BY <2>1, <1>1 DEF Good
  <2> HIDE DEF c
  <2> QED BY <2>1, <2>2 DEF Own
<1>15. Good(j, c)
  <2>1. j.batcher.k # 0 /\ j.batcher.queued # <<>>
    BY <1>3, <1>4, <1>5, <1>7
  <2> QED BY <2>1, <1>10, <1>13, <1>14 DEF Good
<1> QED BY <1>15, <1>1, <1>7, <1>8, <1>9 DEF j

-----------------------------------------------------------------------------
(* The invariant holds.                                                    *)

\* Nobody has called.
LEMMA InitHolds == Init => IInv
<1> SUFFICES ASSUME Init PROVE IInv
  OBVIOUS
<1>1. NoCall \in WaiterType /\ ~(0 > 0)
  BY BatcherAssumption DEF NoCall, WaiterType, Statuses
<1>2. batcher \in BatcherType /\ batcher.waiters = {}
  BY DEF Init, BatcherType
<1>3. State \in StateType /\ State.batcher = batcher
  BY <1>1, <1>2 DEF Init, State, StateType
<1>4. calls \in [Threads -> 0 .. MaxCalls] /\ Len(batcher.queued) < MaxBatch
  BY BatcherAssumption DEF Init
<1> QED BY <1>1, <1>2, <1>3, <1>4 DEF IInv, Good, Init, WaitersAreBlocked

\* A call joins, and flushes what it filled.
LEMMA SearchHolds ==
  ASSUME IInv, NEW t \in Threads, NEW nq \in 1 .. MaxNq, NEW k \in Ks, Search(t, nq, k)
  PROVE  IInv'
<1>1. /\ Good(State, calls) /\ calls \in [Threads -> Nat] /\ inside \subseteq Threads
      /\ t \notin inside /\ State.batcher = batcher /\ State.w = w
      /\ batcher.waiters = {u \in inside : ~w[u].done}
  BY BatcherAssumption DEF IInv, Search, State, WaitersAreBlocked
<1>2. PICK before \in Statuses, after \in Statuses :
        LET s == Join(State, t, nq, k, before)
        IN  IF Full(s) \/ ~Waits
              THEN Becomes(Flush(s, after)) /\ UNCHANGED inside
              ELSE Becomes(s) /\ inside' = inside \cup {t}
  BY DEF Search
<1> DEFINE s == Join(State, t, nq, k, before)
<1>3. /\ calls' = [calls EXCEPT ![t] = @ + 1]
      /\ calls' \in [Threads -> Nat] /\ calls' \in [Threads -> 0 .. MaxCalls]
  BY <1>1, BatcherAssumption DEF IInv, Search
<1>4. /\ Good(s, calls') /\ ~s.w[t].done /\ t \in s.batcher.waiters
      /\ \A u \in Threads \ {t} :
           /\ u \in s.batcher.waiters => u \in batcher.waiters
           /\ u \in batcher.waiters => u \in s.batcher.waiters \/ s.w[u].done
           /\ u \notin batcher.waiters => (s.w[u].done <=> w[u].done)
  BY <1>1, <1>3, JoinGood
<1> HIDE DEF s
<1>5. /\ s.batcher.waiters \subseteq Threads
      /\ \A u \in s.batcher.waiters : ~s.w[u].done
      /\ \A r \in StateType : r = [batcher |-> r.batcher, w |-> r.w]
      /\ \A r \in StateType : \A u \in Threads : r.w[u].done \in BOOLEAN
  BY SMTT(30), <1>4 DEF Good, StateType, BatcherType, WaiterType
<1>6. \A r : Becomes(r) => State' = [batcher |-> r.batcher, w |-> r.w]
  BY DEF Becomes, State
<1>7. CASE Full(s) \/ ~Waits
  <2> DEFINE f == Flush(s, after)
  <2>1. /\ Good(f, calls') /\ f.batcher.waiters = {} /\ f \in StateType
        /\ f.batcher.queued = <<>>
        /\ \A u \in Threads : f.w[u].done <=> (s.w[u].done \/ u \in s.batcher.waiters)
    <3>1. Good(f, calls') /\ f.batcher.waiters = {} /\ f.batcher.queued = <<>>
          /\ \A u \in Threads : f.w[u].done <=> (s.w[u].done \/ u \in s.batcher.waiters)
      BY <1>3, <1>4, FlushGood
    <3> QED BY <3>1 DEF Good
  <2>2. Becomes(f) /\ inside' = inside
    BY <1>2, <1>7 DEF s
  <2> HIDE DEF f
  <2>3. State' = f /\ batcher' = f.batcher /\ w' = f.w
    BY <1>5, <1>6, <2>1, <2>2 DEF Becomes
  <2>4. \A u \in inside : f.w[u].done
    BY <1>1, <1>4, <2>1
  <2>5. WaitersAreBlocked'
    BY <2>1, <2>2, <2>3, <2>4 DEF WaitersAreBlocked
  <2>6. batcher'.queued = <<>> /\ Len(batcher'.queued) < MaxBatch
    BY <2>1, <2>3, BatcherAssumption
  <2> QED BY <1>1, <1>3, <2>1, <2>2, <2>3, <2>5, <2>6 DEF IInv
<1>8. CASE ~(Full(s) \/ ~Waits)
  <2>1. Becomes(s) /\ inside' = inside \cup {t}
    BY <1>2, <1>8 DEF s
  <2>2. State' = s /\ batcher' = s.batcher /\ w' = s.w
    BY <1>4, <1>5, <1>6, <2>1 DEF Becomes, Good
  <2>3. \A u \in Threads : u \in s.batcher.waiters <=> (u \in inside' /\ ~s.w[u].done)
    <3> SUFFICES ASSUME NEW u \in Threads
                 PROVE  u \in s.batcher.waiters <=> (u \in inside' /\ ~s.w[u].done)
      OBVIOUS
    <3>1. CASE u = t
      BY <3>1, <1>4, <2>1
    <3>2. CASE u # t /\ u \in inside
      BY <3>2, <1>1, <1>4, <1>5, <2>1
    <3>3. CASE u # t /\ u \notin inside
      BY <3>3, <1>1, <1>4, <2>1
    <3> QED BY <3>1, <3>2, <3>3
  <2>4. WaitersAreBlocked'
    BY <1>1, <1>5, <2>1, <2>2, <2>3 DEF WaitersAreBlocked
  <2>5. Len(batcher'.queued) < MaxBatch
    BY <1>4, <1>8, <2>2, BatcherAssumption DEF Full, Good, StateType, BatcherType
  <2> QED BY <1>1, <1>3, <1>4, <2>1, <2>2, <2>4, <2>5 DEF IInv
<1> QED BY <1>7, <1>8

\* A call wakes up done, or flushes the queue it stands in.
LEMMA WakeUpHolds ==
  ASSUME IInv, NEW t \in Threads, WakeUp(t)
  PROVE  IInv'
<1>1. /\ Good(State, calls) /\ calls \in [Threads -> Nat] /\ inside \subseteq Threads
      /\ t \in inside /\ State.batcher = batcher /\ State.w = w
      /\ batcher.waiters = {u \in inside : ~w[u].done}
      /\ inside' = inside \ {t} /\ calls' = calls
  BY BatcherAssumption DEF IInv, WakeUp, State, WaitersAreBlocked
<1>2. CASE w[t].done
  <2>1. batcher' = batcher /\ w' = w /\ State' = State
    BY <1>2 DEF WakeUp, State
  <2>2. WaitersAreBlocked'
    BY <1>1, <1>2, <2>1 DEF WaitersAreBlocked
  <2> QED BY <1>1, <2>1, <2>2 DEF IInv
<1>3. CASE ~w[t].done
  <2>1. PICK status \in Statuses : Becomes(Flush(State, status))
    BY <1>3 DEF WakeUp
  <2> DEFINE f == Flush(State, status)
  <2>2. /\ Good(f, calls) /\ f.batcher.waiters = {} /\ f.batcher.queued = <<>>
        /\ \A u \in Threads : f.w[u].done <=> (w[u].done \/ u \in batcher.waiters)
    BY <1>1, FlushGood
  <2>3. f = [batcher |-> f.batcher, w |-> f.w]
    BY <2>2 DEF Good, StateType
  <2>4. batcher' = f.batcher /\ w' = f.w
    BY <2>1 DEF Becomes
  <2> HIDE DEF f
  <2>5. State' = f
    BY <2>3, <2>4 DEF State
  <2>6. WaitersAreBlocked'
    BY <1>1, <2>2, <2>4 DEF WaitersAreBlocked
  <2>7. batcher'.queued = <<>> /\ Len(batcher'.queued) < MaxBatch
    BY <2>2, <2>4, BatcherAssumption
  <2> QED BY <1>1, <2>2, <2>5, <2>6, <2>7 DEF IInv
<1> QED BY <1>2, <1>3

\* Every step keeps the invariant.
LEMMA Invariance == Spec => []IInv
<1>1. ASSUME IInv, [Next]_vars PROVE IInv'
  <2>1. CASE Next
    BY <1>1, <2>1, SearchHolds, WakeUpHolds DEF Next
  <2>2. CASE UNCHANGED vars
    BY <1>1, <2>2 DEF vars, IInv, Good, State, Stands, Own, WaitersAreBlocked
  <2> QED BY <1>1, <2>1, <2>2
<1> QED BY <1>1, InitHolds, PTL DEF Spec

-----------------------------------------------------------------------------

\* Between two holders of mu the queue holds less than a full batch, its k is
\* one a caller asked for, and is 0 exactly when nothing is queued
\* (batcher.cpp 38-62 and 94-112).
THEOREM TypeCorrect == Spec => []TypeOK
<1>1. IInv => TypeOK
  BY DEF IInv, Good, State, StateType, BatcherType, WaiterType, TypeOK, WaitersAreBlocked
<1> QED BY <1>1, Invariance, PTL

\* A call that returned success has the answers to its own queries, in their
\* order and for its own k, as an eager search would have given them
\* (the offsets flush_locked copies by, batcher.cpp 38-62).
THEOREM CallersGetTheirOwnAnswers == Spec => []MatchesEager
<1>1. IInv => MatchesEager
  <2> SUFFICES ASSUME IInv, NEW t \in Threads \ inside, calls[t] > 0, w[t].status = "success"
               PROVE  w[t].answer = [i \in 1 .. w[t].nq |-> <<<<t, calls[t], i>>, w[t].k>>]
    BY DEF MatchesEager
  <2>1. t \in Threads \ State.batcher.waiters /\ State.w = w
    BY DEF IInv, WaitersAreBlocked, State
  <2>2. Own(State, calls, t)
    BY <2>1 DEF IInv, Good
  <2> QED BY <2>1, <2>2 DEF Own
<1> QED BY <1>1, Invariance, PTL

\* A flush writes through the pointers of blocked calls only, and finds every
\* blocked call that is not done (the Waiters of ovvsBatcherSearch, batcher.cpp 82-114).
THEOREM FlushesWriteToBlockedCalls == Spec => []WaitersAreBlocked
<1>1. IInv => WaitersAreBlocked
  BY DEF IInv
<1> QED BY <1>1, Invariance, PTL

-----------------------------------------------------------------------------
(* Numbers and ranks.                                                      *)

\* Every non-empty set of natural numbers has a least member.
LEMMA LeastPlace ==
  ASSUME NEW T, T \subseteq Nat, T # {}
  PROVE  \E x \in T : \A y \in T : x <= y
<1> DEFINE R == {ss \in Nat \X Nat : ss[1] < ss[2]}
<1>1. OpToRel(<, Nat) = R
  BY DEF OpToRel
<1>2. IsWellFoundedOn(R, Nat)
  BY <1>1, NatLessThanWellFounded
<1> HIDE DEF R
<1>3. PICK x \in T : \A y \in T : ~ (<<y, x>> \in R)
  BY <1>2, WFMin
<1>4. ASSUME NEW y \in T, ~(x <= y) PROVE FALSE
  <2>1. <<y, x>> \in R
    BY <1>4 DEF R
  <2> QED
    BY <1>3, <2>1
<1> QED
  BY <1>4

\* How many members of S come before x.
Below(S, R, x) == {y \in S : <<y, x>> \in R}
RankIn(S, R, x) == Cardinality(Below(S, R, x))

StrictTotal(S, R) ==
  /\ \A x \in S : <<x, x>> \notin R
  /\ \A x, y \in S : x # y => <<x, y>> \in R \/ <<y, x>> \in R
  /\ \A x, y, z \in S : <<x, y>> \in R /\ <<y, z>> \in R => <<x, z>> \in R

\* The ranks of a finite set under a strict total order are 0, 1, ..., each once
\* and in order.
LEMMA Ranks ==
  ASSUME NEW S, IsFiniteSet(S), NEW R, StrictTotal(S, R)
  PROVE  /\ Cardinality(S) \in Nat
         /\ \A x \in S : RankIn(S, R, x) \in 0 .. Cardinality(S) - 1
         /\ \A x, y \in S : <<x, y>> \in R => RankIn(S, R, x) < RankIn(S, R, y)
         /\ \A x, y \in S : RankIn(S, R, x) = RankIn(S, R, y) => x = y
         /\ \A r \in 0 .. Cardinality(S) - 1 : \E x \in S : RankIn(S, R, x) = r
<1>1. Cardinality(S) \in Nat
  BY FS_CardinalityType
<1>2. ASSUME NEW x \in S
      PROVE  /\ IsFiniteSet(Below(S, R, x)) /\ RankIn(S, R, x) \in Nat
             /\ RankIn(S, R, x) < Cardinality(S)
  <2>1. Below(S, R, x) \in SUBSET S /\ Below(S, R, x) # S
    BY DEF Below, StrictTotal
  <2>2. IsFiniteSet(Below(S, R, x)) /\ Cardinality(Below(S, R, x)) <= Cardinality(S)
        /\ Cardinality(Below(S, R, x)) # Cardinality(S)
    BY <2>1, FS_Subset
  <2>3. Cardinality(Below(S, R, x)) \in Nat
    BY <2>2, FS_CardinalityType
  <2> QED
    BY <1>1, <2>2, <2>3 DEF RankIn
<1>3. ASSUME NEW x \in S, NEW y \in S, <<x, y>> \in R
      PROVE  RankIn(S, R, x) < RankIn(S, R, y)
  <2>1. Below(S, R, x) \in SUBSET Below(S, R, y) /\ Below(S, R, x) # Below(S, R, y)
    BY <1>3 DEF Below, StrictTotal
  <2>2. /\ Cardinality(Below(S, R, x)) <= Cardinality(Below(S, R, y))
        /\ Cardinality(Below(S, R, x)) # Cardinality(Below(S, R, y))
    BY <1>2, <2>1, FS_Subset
  <2> QED
    BY <1>2, <2>2 DEF RankIn
<1>4. ASSUME NEW x \in S, NEW y \in S, RankIn(S, R, x) = RankIn(S, R, y)
      PROVE  x = y
  <2>1. SUFFICES ASSUME x # y PROVE FALSE
    OBVIOUS
  <2>2. RankIn(S, R, x) < RankIn(S, R, y) \/ RankIn(S, R, y) < RankIn(S, R, x)
    BY <1>3, <2>1 DEF StrictTotal
  <2> QED
    BY <1>2, <1>4, <2>2
<1> DEFINE T == 0 .. Cardinality(S) - 1
           f == [x \in S |-> RankIn(S, R, x)]
<1>5. f \in Injection(S, T)
  BY <1>1, <1>2, <1>4 DEF Injection, IsInjective
<1>6. IsFiniteSet(T) /\ Cardinality(T) = Cardinality(S)
  BY SMTT(30), <1>1, FS_Interval
<1>7. f \in Surjection(S, T)
  BY <1>5, <1>6, FS_Injection
<1>8. \A r \in T : \E x \in S : f[x] = r
  BY <1>7 DEF Surjection
<1> QED
  BY <1>1, <1>2, <1>3, <1>4, <1>8

\* Every rank below the size of the set is that of a member.
LEMMA RanksReach ==
  ASSUME NEW S, IsFiniteSet(S), NEW R, StrictTotal(S, R)
  PROVE  \A q \in 0 .. Cardinality(S) - 1 : \E x \in S : RankIn(S, R, x) = q
BY Ranks

\* The members of a finite set of integers, ascending.
LEMMA AscendingFacts ==
  ASSUME NEW S, S \subseteq Int, IsFiniteSet(S)
  PROVE  /\ Cardinality(S) \in Nat
         /\ Ascending(S) \in [1 .. Cardinality(S) -> S]
         /\ \A t, u \in 1 .. Cardinality(S) : t < u => Ascending(S)[t] < Ascending(S)[u]
         /\ \A i \in S : \E t \in 1 .. Cardinality(S) : Ascending(S)[t] = i
<1> DEFINE n == Cardinality(S)
           A == Ascending(S)
<1>1. PICK R : R = {p \in S \X S : p[1] < p[2]}
  OBVIOUS
<1>2. StrictTotal(S, R) /\ \A x, y \in S : x < y => <<x, y>> \in R
  BY <1>1 DEF StrictTotal
<1>3. ASSUME NEW x \in S PROVE Cardinality({j \in S : j < x}) = RankIn(S, R, x)
  <2>1. {j \in S : j < x} = Below(S, R, x)
    BY <1>1 DEF Below
  <2> QED
    BY <2>1 DEF RankIn
<1>4. /\ n \in Nat
      /\ \A x \in S : RankIn(S, R, x) \in 0 .. n - 1
      /\ \A x, y \in S : <<x, y>> \in R => RankIn(S, R, x) < RankIn(S, R, y)
      /\ \A x, y \in S : RankIn(S, R, x) = RankIn(S, R, y) => x = y
      /\ \A r \in 0 .. n - 1 : \E x \in S : RankIn(S, R, x) = r
  <2>1. StrictTotal(S, R)
    BY <1>2
  <2>2. /\ Cardinality(S) \in Nat
        /\ \A x \in S : RankIn(S, R, x) \in 0 .. Cardinality(S) - 1
    BY <2>1, Ranks
  <2>3. \A x, y \in S : <<x, y>> \in R => RankIn(S, R, x) < RankIn(S, R, y)
    BY <2>1, Ranks
  <2>4. \A x, y \in S : RankIn(S, R, x) = RankIn(S, R, y) => x = y
    BY <2>1, Ranks
  <2>5. \A r \in 0 .. Cardinality(S) - 1 : \E x \in S : RankIn(S, R, x) = r
    <3>1. SUFFICES ASSUME NEW r \in 0 .. Cardinality(S) - 1 PROVE \E x \in S : RankIn(S, R, x) = r
      OBVIOUS
    <3> HIDE DEF n, A
    <3>2. \A q \in 0 .. Cardinality(S) - 1 : \E x \in S : RankIn(S, R, x) = q
      BY <2>1, RanksReach
    <3> QED
      BY <3>2
  <2> QED
    BY <2>2, <2>3, <2>4, <2>5
<1>5. ASSUME NEW t \in 1 .. n PROVE A[t] \in S /\ RankIn(S, R, A[t]) = t - 1
  <2>1. \E x \in S : Cardinality({j \in S : j < x}) = t - 1
    BY <1>3, <1>4
  <2>2. A[t] = CHOOSE x \in S : Cardinality({j \in S : j < x}) = t - 1
    BY DEF Ascending
  <2> QED
    BY <1>3, <2>1, <2>2
<1>8. A \in [1 .. n -> S]
  BY <1>5 DEF Ascending
<1> HIDE DEF A, n
<1>6. ASSUME NEW t \in 1 .. n, NEW u \in 1 .. n, t < u PROVE A[t] < A[u]
  <2>0. A[t] \in S /\ A[u] \in S /\ RankIn(S, R, A[t]) = t - 1 /\ RankIn(S, R, A[u]) = u - 1
    BY <1>5
  <2>4. t \in Int /\ u \in Int
    OBVIOUS
  <2>5. RankIn(S, R, A[t]) < RankIn(S, R, A[u])
    BY <2>0, <2>4, <1>6
  <2>1. /\ A[t] \in Int /\ A[u] \in Int /\ A[t] \in S /\ A[u] \in S
        /\ RankIn(S, R, A[t]) < RankIn(S, R, A[u])
    BY <2>0, <2>5
  <2>2. A[t] # A[u]
    BY <2>0, <1>6
  <2>3. ~(A[u] < A[t])
    <3>1. SUFFICES ASSUME A[u] < A[t] PROVE FALSE
      OBVIOUS
    <3>2. RankIn(S, R, A[u]) < RankIn(S, R, A[t])
      BY <1>2, <1>4, <2>1, <3>1
    <3>3. RankIn(S, R, A[u]) \in Int /\ RankIn(S, R, A[t]) \in Int
      BY <1>5
    <3> QED
      BY <2>1, <3>2, <3>3
  <2> QED
    BY <2>1, <2>2, <2>3
<1>7. ASSUME NEW i \in S PROVE \E t \in 1 .. n : A[t] = i
  <2>1. RankIn(S, R, i) + 1 \in 1 .. n
    BY <1>4
  <2>2. RankIn(S, R, A[RankIn(S, R, i) + 1]) = RankIn(S, R, i)
    BY <1>4, <1>5, <2>1
  <2> QED
    BY <1>4, <1>5, <2>1, <2>2
<1> QED
  BY <1>4, <1>6, <1>7, <1>8 DEF A, n

\* TopK in order: before is the order of scores, ties to the lower place.
Before(scores, i, j) == scores[i] < scores[j] \/ (scores[i] = scores[j] /\ i < j)

LEMMA TopKFacts ==
  ASSUME NEW scores \in Seq(Int), NEW k \in Nat
  PROVE  /\ Least(k, Len(scores)) \in Nat
         /\ TopK(scores, k) \in [1 .. Least(k, Len(scores)) -> DOMAIN scores]
         /\ Len(TopK(scores, k)) = Least(k, Len(scores))
         /\ \A t, u \in 1 .. Least(k, Len(scores)) :
              t < u => Before(scores, TopK(scores, k)[t], TopK(scores, k)[u])
         /\ \A t \in 1 .. Least(k, Len(scores)) : \A j \in DOMAIN scores :
              Before(scores, j, TopK(scores, k)[t]) => \E u \in 1 .. t - 1 : TopK(scores, k)[u] = j
<1> DEFINE n == Len(scores)
           S == DOMAIN scores
           m == Least(k, n)
           T == TopK(scores, k)
           before(i) == {j \in S : scores[j] < scores[i] \/ (scores[j] = scores[i] /\ j < i)}
<1>1. n \in Nat /\ S = 1 .. n /\ \A i \in S : scores[i] \in Int
  OBVIOUS
<1>2. IsFiniteSet(S) /\ Cardinality(S) = n
  BY SMTT(30), <1>1, FS_Interval
<1>3. m \in Nat /\ m <= n
  BY <1>1 DEF Least
<1>4. PICK R : R = {p \in S \X S : Before(scores, p[1], p[2])}
  OBVIOUS
<1>5. \A i, j \in S : <<i, j>> \in R <=> Before(scores, i, j)
  BY <1>4
<1>6. StrictTotal(S, R)
  BY <1>1, <1>5, SMTT(30) DEF StrictTotal, Before
<1>7. /\ \A x \in S : RankIn(S, R, x) \in 0 .. Cardinality(S) - 1
      /\ \A x, y \in S : <<x, y>> \in R => RankIn(S, R, x) < RankIn(S, R, y)
      /\ \A x, y \in S : RankIn(S, R, x) = RankIn(S, R, y) => x = y
      /\ \A r \in 0 .. Cardinality(S) - 1 : \E x \in S : RankIn(S, R, x) = r
  BY <1>2, <1>6, Ranks
<1>8. \A i \in S : Cardinality(before(i)) = RankIn(S, R, i)
  <2>1. ASSUME NEW i \in S PROVE before(i) = Below(S, R, i)
    BY <1>5 DEF Below, Before
  <2> QED
    BY <2>1 DEF RankIn
<1>9. ASSUME NEW t \in 1 .. m PROVE T[t] \in S /\ RankIn(S, R, T[t]) = t - 1
  <2>1. T[t] = CHOOSE i \in S : Cardinality(before(i)) = t - 1
    BY DEF TopK
  <2>2. t - 1 \in 0 .. Cardinality(S) - 1
    BY <1>1, <1>2, <1>3
  <2>3. \E i \in S : Cardinality(before(i)) = t - 1
    BY <1>7, <1>8, <2>2, SMTT(30)
  <2> HIDE DEF before, S, T
  <2>4. T[t] \in S /\ Cardinality(before(T[t])) = t - 1
    BY <2>1, <2>3
  <2> QED
    BY <1>8, <2>4
<1>10. T \in [1 .. m -> S]
  BY <1>9 DEF TopK
<1>11. Len(T) = m
  BY <1>3, <1>10
<1> HIDE DEF T, S, n, m, before
<1>12. ASSUME NEW t \in 1 .. m, NEW u \in 1 .. m, t < u PROVE Before(scores, T[t], T[u])
  <2>1. T[t] \in S /\ T[u] \in S /\ RankIn(S, R, T[t]) = t - 1 /\ RankIn(S, R, T[u]) = u - 1
    BY <1>9
  <2>2. t \in Int /\ u \in Int
    OBVIOUS
  <2>3. T[t] # T[u]
    BY <2>1, <2>2, <1>12
  <2>4. ~(<<T[u], T[t]>> \in R)
    <3>1. SUFFICES ASSUME <<T[u], T[t]>> \in R PROVE FALSE
      OBVIOUS
    <3>2. RankIn(S, R, T[u]) < RankIn(S, R, T[t])
      BY <1>7, <2>1, <3>1
    <3> QED
      BY <2>1, <2>2, <3>2, <1>12
  <2>5. <<T[t], T[u]>> \in R
    BY <1>6, <2>1, <2>3, <2>4 DEF StrictTotal
  <2> QED
    BY <1>5, <2>1, <2>5
<1>13. ASSUME NEW t \in 1 .. m, NEW j \in S, Before(scores, j, T[t])
       PROVE  \E u \in 1 .. t - 1 : T[u] = j
  <2>1. T[t] \in S /\ RankIn(S, R, T[t]) = t - 1
    BY <1>9
  <2>2. <<j, T[t]>> \in R
    BY <1>5, <1>13, <2>1
  <2>3. RankIn(S, R, j) < t - 1 /\ RankIn(S, R, j) \in 0 .. n - 1
    BY <1>2, <1>7, <2>1, <2>2
  <2>4. PICK u : u = RankIn(S, R, j) + 1
    OBVIOUS
  <2>5. t \in Int /\ n \in Int
    BY <1>1
  <2>6. u \in 1 .. t - 1 /\ u \in 1 .. m /\ RankIn(S, R, j) = u - 1
    BY <1>3, <2>3, <2>4, <2>5
  <2>7. T[u] \in S /\ RankIn(S, R, T[u]) = RankIn(S, R, j)
    BY <1>9, <2>6
  <2>8. T[u] = j
    BY <1>7, <2>7
  <2> QED
    BY <2>6, <2>8
<1> QED
  BY <1>3, <1>10, <1>11, <1>12, <1>13 DEF T, S, n, m

-----------------------------------------------------------------------------
(* Induction and recursion over an interval.                               *)

LEMMA Climb ==
  ASSUME NEW a \in Int, NEW b \in Int, NEW T,
         a \in T, \A i \in a + 1 .. b : i - 1 \in T => i \in T
  PROVE  \A i \in a .. b : i \in T
<1>1. PICK Bad : Bad = {n \in 0 .. b - a : a + n \notin T}
  OBVIOUS
<1>2. Bad = {}
  <2>1. SUFFICES ASSUME Bad # {} PROVE FALSE
    OBVIOUS
  <2>2. Bad \subseteq Nat
    BY <1>1
  <2>3. PICK n \in Bad : \A m \in Bad : n <= m
    BY <2>1, <2>2, LeastPlace
  <2>4. n \in 0 .. b - a /\ a + n \notin T /\ n # 0 /\ n \in Nat
    BY <1>1, <2>3
  <2>5. n - 1 \in 0 .. b - a /\ ~(n <= n - 1) /\ (a + n) - 1 = a + (n - 1) /\ a + n \in a + 1 .. b
    BY <2>4
  <2>6. a + (n - 1) \in T
    BY <1>1, <2>3, <2>5
  <2> QED
    BY <2>4, <2>5, <2>6
<1>3. ASSUME NEW i \in a .. b PROVE i \in T
  <2>1. PICK n : n = i - a
    OBVIOUS
  <2>2. n \in 0 .. b - a /\ a + n = i
    BY <2>1
  <2>3. n \notin Bad
    BY <1>2
  <2>4. a + n \in T
    BY <1>1, <2>2, <2>3
  <2> QED
    BY <2>2, <2>4
<1> QED
  BY <1>3

\* On a .. b a function begins with v and takes step G[i] at each i of J.
Steps(a, b, V, v, J, G) ==
  \E f \in [a .. b -> V] : f[a] = v /\ \A i \in J : f[i] = G[i][f[i - 1]]

\* A function given by its first value and a step exists.
LEMMA Recursion ==
  ASSUME NEW a \in Int, NEW b \in Int, a <= b, NEW V, NEW v \in V,
         NEW J, J = a + 1 .. b, NEW G \in [J -> [V -> V]]
  PROVE  Steps(a, b, V, v, J, G)
<1> DEFINE Upto(f, n) == /\ f \in [a .. n -> V] /\ f[a] = v
                         /\ \A i \in a + 1 .. n : f[i] = G[i][f[i - 1]]
<1>1. PICK T : T = {n \in a .. b : \E f : Upto(f, n)}
  OBVIOUS
<1>2. a \in T
  <2>1. PICK f : f = [i \in a .. a |-> v]
    OBVIOUS
  <2>2. Upto(f, a)
    BY <2>1
  <2>3. a \in a .. b
    OBVIOUS
  <2> HIDE DEF Upto
  <2> QED
    BY <1>1, <2>2, <2>3
<1>3. ASSUME NEW n \in a + 1 .. b, n - 1 \in T PROVE n \in T
  <2>1. n - 1 \in a .. b /\ n \in a .. b /\ n \in Int
    BY <1>3
  <2>2. PICK f : Upto(f, n - 1)
    BY <1>1, <1>3
  <2>3. PICK g : g = [i \in a .. n |-> IF i = n THEN G[n][f[n - 1]] ELSE f[i]]
    OBVIOUS
  <2>4. f[n - 1] \in V /\ G[n][f[n - 1]] \in V
    BY <2>1, <2>2
  <2>5. g \in [a .. n -> V]
    <3>1. ASSUME NEW i \in a .. n PROVE g[i] \in V
      <4>1. CASE i = n
        BY <2>3, <2>4, <4>1
      <4>2. CASE i # n
        <5>1. i \in a .. n - 1
          BY <2>1, <4>2
        <5> QED
          BY <2>2, <2>3, <4>2, <5>1
      <4> QED
        BY <4>1, <4>2
    <3> QED
      BY <2>3, <3>1
  <2>6. g[a] = v
    BY <2>1, <2>2, <2>3
  <2>7. ASSUME NEW i \in a + 1 .. n PROVE g[i] = G[i][g[i - 1]]
    <3>1. CASE i = n
      <4>1. n - 1 \in a .. n /\ n - 1 # n /\ n \in a .. n
        BY <2>1
      <4>2. g[n - 1] = f[n - 1] /\ g[n] = G[n][f[n - 1]]
        BY <2>3, <4>1
      <4> QED
        BY <3>1, <4>2
    <3>2. CASE i # n
      <4>1. /\ i \in a + 1 .. n - 1 /\ i - 1 \in a .. n /\ i \in a .. n
            /\ i - 1 # n
        BY <2>1, <3>2
      <4>2. g[i] = f[i] /\ g[i - 1] = f[i - 1]
        BY <2>3, <3>2, <4>1
      <4>3. f[i] = G[i][f[i - 1]]
        BY <2>2, <4>1
      <4> QED
        BY <4>2, <4>3
    <3> QED
      BY <3>1, <3>2
  <2>8. Upto(g, n)
    BY <2>5, <2>6, <2>7
  <2> QED
    BY <1>1, <2>1, <2>8
<1>4. b \in T
  <2>1. \A i \in a .. b : i \in T
    BY <1>2, <1>3, Climb
  <2> QED
    BY <2>1
<1> QED
  BY <1>1, <1>4 DEF Steps

-----------------------------------------------------------------------------
(* Sequences one after another.                                            *)

\* The offset at which the part t of Cat(ss) begins.
Off(ss, t) == Len(Cat(SubSeq(ss, 1, t - 1)))

\* c is a, then b.
Joins(c, a, b) ==
  /\ Len(a) \in Nat /\ Len(b) \in Nat /\ Len(c) = Len(a) + Len(b)
  /\ \A p \in 1 .. Len(a) : c[p] = a[p]
  /\ \A p \in 1 .. Len(b) : c[Len(a) + p] = b[p]

\* Two sequences, one after the other.
LEMMA Joined ==
  ASSUME NEW A, NEW a \in Seq(A), NEW b \in Seq(A), NEW c, c = a \o b
  PROVE  c \in Seq(A) /\ Joins(c, a, b)
<1>1. Len(a) \in Nat /\ Len(b) \in Nat
  OBVIOUS
<1>2. Len(a \o b) = Len(a) + Len(b)
  OBVIOUS
<1>3. \A p \in 1 .. Len(a) : (a \o b)[p] = a[p]
  BY <1>1
<1>4. ASSUME NEW p \in 1 .. Len(b) PROVE (a \o b)[Len(a) + p] = b[p]
  <2>1. Len(a) + p \in 1 .. Len(a) + Len(b) /\ ~(Len(a) + p <= Len(a)) /\ (Len(a) + p) - Len(a) = p
    BY <1>1
  <2> QED
    BY <1>1, <2>1
<1> QED
  BY <1>1, <1>2, <1>3, <1>4 DEF Joins

\* Where the members of the two lie.
LEMMA JoinedPlaces ==
  ASSUME NEW a, NEW b, NEW c, Joins(c, a, b)
  PROVE  /\ \A p \in 1 .. Len(a) : p \in 1 .. Len(c) /\ c[p] = a[p]
         /\ \A p \in 1 .. Len(b) : Len(a) + p \in 1 .. Len(c) /\ c[Len(a) + p] = b[p]
<1>1. PICK m : m = Len(a)
  OBVIOUS
<1>2. PICK n : n = Len(b)
  OBVIOUS
<1>3. m \in Nat /\ n \in Nat /\ Len(c) = m + n
  BY <1>1, <1>2 DEF Joins
<1>4. \A p \in 1 .. m : p \in 1 .. m + n
  BY <1>3
<1>5. \A p \in 1 .. n : m + p \in 1 .. m + n
  BY <1>3
<1> QED
  BY <1>1, <1>2, <1>3, <1>4, <1>5 DEF Joins

\* Cat is a fold: nothing, then each part appended.
LEMMA CatFold ==
  ASSUME NEW A, NEW ss \in Seq(Seq(A))
  PROVE  \E f \in [0 .. Len(ss) -> Seq(A)] :
           /\ f[0] = <<>>
           /\ \A i \in 1 .. Len(ss) : f[i] = f[i - 1] \o ss[i]
           /\ Cat(ss) = f[Len(ss)]
<1>1. PICK L : L = Len(ss)
  OBVIOUS
<1>2. L \in Nat /\ \A i \in 1 .. L : ss[i] \in Seq(A)
  BY <1>1
<1> DEFINE Def(f) == f = [i \in 0 .. L |-> IF i = 0 THEN <<>> ELSE f[i - 1] \o ss[i]]
<1>3. PICK V : V = Seq(A)
  OBVIOUS
<1>4. PICK J : J = 1 .. L /\ J = 0 + 1 .. L
  OBVIOUS
<1>G. PICK G : G = [i \in J |-> [z \in V |-> z \o ss[i]]]
  OBVIOUS
<1>5. PICK g \in [0 .. L -> V] :
        g[0] = <<>> /\ \A i \in J : g[i] = G[i][g[i - 1]]
  <2>1. <<>> \in V /\ 0 \in Int /\ L \in Int /\ 0 <= L
    BY <1>2, <1>3
  <2>2. G \in [J -> [V -> V]]
    BY <1>2, <1>3, <1>4, <1>G
  <2>3. J = 0 + 1 .. L
    BY <1>4
  <2>4. Steps(0, L, V, <<>>, J, G)
    BY <2>1, <2>2, <2>3, Recursion
  <2> QED
    BY <2>4 DEF Steps
<1>6. ASSUME NEW i \in 1 .. L PROVE g[i] = g[i - 1] \o ss[i]
  <2>1. i - 1 \in 0 .. L /\ i \in J
    BY <1>2, <1>4
  <2>2. g[i] = G[i][g[i - 1]] /\ g[i - 1] \in V
    BY <1>5, <2>1
  <2> QED
    BY <1>G, <2>1, <2>2
<1>7. g = [i \in 0 .. L |-> IF i = 0 THEN <<>> ELSE g[i - 1] \o ss[i]]
  <2>1. ASSUME NEW i \in 0 .. L PROVE g[i] = IF i = 0 THEN <<>> ELSE g[i - 1] \o ss[i]
    <3>1. i = 0 \/ i \in 1 .. L
      BY <1>2
    <3> QED
      BY <1>5, <1>6, <3>1
  <2> QED
    BY <1>5, <2>1
<1>8. \E f : Def(f)
  BY <1>7
<1>9. PICK f : /\ f = [i \in 0 .. L |-> IF i = 0 THEN <<>> ELSE f[i - 1] \o ss[i]]
              /\ Cat(ss) = f[L]
  <2>1. Cat(ss) = (CHOOSE f : Def(f))[L]
    BY Zenon, <1>1 DEF Cat
  <2>2. Def(CHOOSE f : Def(f))
    BY Zenon, <1>8
  <2> QED
    BY Zenon, <2>1, <2>2
<1> HIDE DEF Def
<1>11. f = [i \in 0 .. L |-> f[i]]
  BY <1>9
<1>10. f[0] = <<>> /\ \A i \in 1 .. L : f[i] = f[i - 1] \o ss[i]
  <2>1. ASSUME NEW i \in 0 .. L PROVE f[i] = IF i = 0 THEN <<>> ELSE f[i - 1] \o ss[i]
    BY <1>9
  <2>2. 0 \in 0 .. L /\ \A i \in 1 .. L : i \in 0 .. L /\ i # 0
    BY <1>2
  <2> QED
    BY <2>1, <2>2
<1>12. PICK T : T = {i \in 0 .. L : f[i] \in V}
  OBVIOUS
<1>13. 0 \in T
  <2>1. <<>> \in V /\ 0 \in 0 .. L
    BY <1>2, <1>3
  <2> QED
    BY <2>1, <1>10, <1>12
<1>14. ASSUME NEW i \in 0 + 1 .. L, i - 1 \in T PROVE i \in T
  <2>1. i \in 1 .. L /\ i \in 0 .. L
    BY <1>2
  <2>2. f[i] = f[i - 1] \o ss[i] /\ f[i - 1] \in V /\ ss[i] \in V
    BY <1>2, <1>3, <1>10, <1>12, <1>14, <2>1
  <2>3. f[i] \in V
    BY <1>3, <2>2
  <2> QED
    BY <1>12, <2>1, <2>3
<1>15. \A i \in 0 .. L : i \in T
  <2>1. 0 \in Int /\ L \in Int
    BY <1>2
  <2> QED
    BY <2>1, <1>13, <1>14, Climb
<1>16. f \in [0 .. L -> Seq(A)]
  BY <1>3, <1>11, <1>12, <1>15
<1> QED
  BY <1>1, <1>9, <1>10, <1>16

\* A part added at the end.
LEMMA CatPrefix ==
  ASSUME NEW A, NEW ss \in Seq(Seq(A)), NEW f \in [0 .. Len(ss) -> Seq(A)],
         f[0] = <<>>, \A i \in 1 .. Len(ss) : f[i] = f[i - 1] \o ss[i],
         NEW n \in 0 .. Len(ss)
  PROVE  Cat(SubSeq(ss, 1, n)) = f[n]
<1>1. PICK pp : pp = SubSeq(ss, 1, n)
  OBVIOUS
<1>2. Len(ss) \in Nat /\ n \in Nat
  OBVIOUS
<1>3. pp \in Seq(Seq(A)) /\ Len(pp) = n /\ \A i \in 1 .. n : pp[i] = ss[i]
  BY <1>1, <1>2
<1>4. PICK g \in [0 .. n -> Seq(A)] : /\ g[0] = <<>>
                                      /\ \A i \in 1 .. n : g[i] = g[i - 1] \o pp[i]
                                      /\ Cat(pp) = g[n]
  BY <1>3, CatFold
<1>5. PICK T : T = {i \in 0 .. n : g[i] = f[i]}
  OBVIOUS
<1>6. 0 \in T
  BY <1>2, <1>4, <1>5
<1>7. ASSUME NEW i \in 0 + 1 .. n, i - 1 \in T PROVE i \in T
  <2>1. i \in 1 .. n /\ i \in 0 .. n /\ i \in 1 .. Len(ss)
    BY <1>2
  <2>2. g[i] = g[i - 1] \o pp[i] /\ f[i] = f[i - 1] \o ss[i] /\ g[i - 1] = f[i - 1]
    BY <1>4, <1>5, <1>7, <2>1
  <2> QED
    BY <1>3, <1>5, <2>1, <2>2
<1>8. 0 \in Int /\ n \in Int /\ n \in 0 .. n
  BY <1>2
<1>9. n \in T
  BY <1>6, <1>7, <1>8, Climb
<1> QED
  BY <1>1, <1>4, <1>5, <1>9

\* The parts of Cat(ss) begin where the ones before end.
LEMMA CatFacts ==
  ASSUME NEW A, NEW ss \in Seq(Seq(A))
  PROVE  /\ Cat(ss) \in Seq(A) /\ Off(ss, 1) = 0 /\ Off(ss, Len(ss) + 1) = Len(Cat(ss))
         /\ \A t \in 1 .. Len(ss) + 1 : Off(ss, t) \in Nat
         /\ \A t \in 1 .. Len(ss) : Off(ss, t + 1) = Off(ss, t) + Len(ss[t])
<1>1. PICK f \in [0 .. Len(ss) -> Seq(A)] :
           /\ f[0] = <<>>
           /\ \A i \in 1 .. Len(ss) : f[i] = f[i - 1] \o ss[i]
           /\ Cat(ss) = f[Len(ss)]
  BY CatFold
<1>2. Len(ss) \in Nat /\ \A t \in 1 .. Len(ss) : ss[t] \in Seq(A)
  OBVIOUS
<1>3. ASSUME NEW t \in 1 .. Len(ss) + 1 PROVE Off(ss, t) = Len(f[t - 1]) /\ f[t - 1] \in Seq(A)
  <2>1. t - 1 \in 0 .. Len(ss)
    BY <1>2
  <2>2. Cat(SubSeq(ss, 1, t - 1)) = f[t - 1]
    BY <1>1, <2>1, CatPrefix
  <2> QED
    BY <1>1, <2>1, <2>2 DEF Off
<1>4. Cat(ss) \in Seq(A)
  BY <1>1, <1>2
<1>5. Off(ss, 1) = 0
  BY <1>1, <1>2, <1>3
<1>6. Off(ss, Len(ss) + 1) = Len(Cat(ss))
  BY <1>1, <1>2, <1>3
<1>7. \A t \in 1 .. Len(ss) + 1 : Off(ss, t) \in Nat
  BY <1>3
<1>8. ASSUME NEW t \in 1 .. Len(ss) PROVE Off(ss, t + 1) = Off(ss, t) + Len(ss[t])
  <2>1. t \in 1 .. Len(ss) + 1 /\ t + 1 \in 1 .. Len(ss) + 1 /\ (t + 1) - 1 = t
    BY <1>2
  <2>2. Off(ss, t) = Len(f[t - 1]) /\ f[t - 1] \in Seq(A) /\ Off(ss, t + 1) = Len(f[t])
    BY <1>3, <2>1
  <2>3. Joins(f[t], f[t - 1], ss[t])
    BY <1>1, <1>2, <2>2, Joined
  <2> QED
    BY <2>2, <2>3 DEF Joins
<1> QED
  BY <1>4, <1>5, <1>6, <1>7, <1>8

\* A later part begins no earlier.
LEMMA OffGrows ==
  ASSUME NEW A, NEW ss \in Seq(Seq(A)),
         NEW t \in 1 .. Len(ss) + 1, NEW u \in 1 .. Len(ss) + 1, t <= u
  PROVE  Off(ss, t) <= Off(ss, u)
<1>1. Len(ss) \in Nat /\ \A v \in 1 .. Len(ss) : ss[v] \in Seq(A) /\ Len(ss[v]) \in Nat
  OBVIOUS
<1>2. PICK T : T = {v \in t .. u : Off(ss, t) <= Off(ss, v)}
  OBVIOUS
<1>3. t \in T
  BY <1>1, <1>2, CatFacts
<1>4. ASSUME NEW v \in t + 1 .. u, v - 1 \in T PROVE v \in T
  <2>1. v - 1 \in 1 .. Len(ss) /\ v \in t .. u /\ (v - 1) + 1 = v /\ v - 1 \in 1 .. Len(ss) + 1
    BY <1>1
  <2>2. Off(ss, v) = Off(ss, v - 1) + Len(ss[v - 1]) /\ Off(ss, v - 1) \in Nat /\ Off(ss, t) \in Nat
    BY <2>1, CatFacts
  <2> QED
    BY SMTT(30), <1>1, <1>2, <1>4, <2>1, <2>2
<1>5. t \in Int /\ u \in Int /\ u \in t .. u
  BY <1>1
<1>6. u \in T
  BY <1>3, <1>4, <1>5, Climb
<1> QED
  BY <1>2, <1>6

\* The member j of part t lies j after the offset of the part.
LEMMA CatAt ==
  ASSUME NEW A, NEW ss \in Seq(Seq(A)), NEW t \in 1 .. Len(ss), NEW j \in 1 .. Len(ss[t])
  PROVE  Off(ss, t) + j \in 1 .. Len(Cat(ss)) /\ Cat(ss)[Off(ss, t) + j] = ss[t][j]
<1>1. PICK f \in [0 .. Len(ss) -> Seq(A)] :
           /\ f[0] = <<>>
           /\ \A i \in 1 .. Len(ss) : f[i] = f[i - 1] \o ss[i]
           /\ Cat(ss) = f[Len(ss)]
  BY CatFold
<1>2. PICK L : L = Len(ss)
  OBVIOUS
<1>3. L \in Nat /\ \A u \in 1 .. L : ss[u] \in Seq(A) /\ Len(ss[u]) \in Nat
  BY <1>2
<1>4. PICK p : p = Off(ss, t) + j
  OBVIOUS
<1>5. PICK T : T = {u \in t .. L : p \in 1 .. Len(f[u]) /\ f[u][p] = ss[t][j]}
  OBVIOUS
<1>6. t \in T
  <2>1. f[t] = f[t - 1] \o ss[t] /\ f[t - 1] \in Seq(A) /\ ss[t] \in Seq(A) /\ t - 1 \in 0 .. L
    <3>1. t \in 1 .. L /\ t - 1 \in 0 .. L
      BY <1>2, <1>3
    <3> QED
      BY <3>1, <1>1, <1>2, <1>3
  <2>2. Cat(SubSeq(ss, 1, t - 1)) = f[t - 1]
    BY <1>1, <1>2, <2>1, CatPrefix
  <2>3. p = Len(f[t - 1]) + j /\ Len(f[t - 1]) \in Nat /\ j \in 1 .. Len(ss[t])
    <3>1. Off(ss, t) = Len(f[t - 1])
      BY <2>2 DEF Off
    <3> QED
      BY <1>4, <2>1, <3>1
  <2>4. p \in 1 .. Len(f[t]) /\ f[t][p] = ss[t][j]
    <3>1. Joins(f[t], f[t - 1], ss[t])
      BY <2>1, Joined
    <3>2. PICK a, b, c : a = f[t - 1] /\ b = ss[t] /\ c = f[t]
      OBVIOUS
    <3>3. Joins(c, a, b) /\ j \in 1 .. Len(b)
      BY <3>1, <3>2
    <3>4. Len(a) + j \in 1 .. Len(c) /\ c[Len(a) + j] = b[j]
      BY <3>3, JoinedPlaces
    <3> QED
      BY <2>3, <3>2, <3>4
  <2>5. t \in t .. L
    BY <1>2, <1>3
  <2> QED
    BY <1>5, <2>4, <2>5
<1>7. ASSUME NEW u \in t + 1 .. L, u - 1 \in T PROVE u \in T
  <2>1. u \in 1 .. L /\ u - 1 \in 0 .. L /\ u \in t .. L
    BY <1>2, <1>3
  <2>2. f[u] = f[u - 1] \o ss[u] /\ f[u - 1] \in Seq(A) /\ ss[u] \in Seq(A)
    BY <1>1, <1>2, <1>3, <2>1
  <2>3. p \in 1 .. Len(f[u - 1]) /\ f[u - 1][p] = ss[t][j]
    BY <1>5, <1>7
  <2>4. p \in 1 .. Len(f[u]) /\ f[u][p] = f[u - 1][p]
    <3>1. Joins(f[u], f[u - 1], ss[u])
      BY <2>2, Joined
    <3>2. PICK a, b, c : a = f[u - 1] /\ b = ss[u] /\ c = f[u]
      OBVIOUS
    <3>3. Joins(c, a, b) /\ p \in 1 .. Len(a)
      BY <2>3, <3>1, <3>2
    <3>4. p \in 1 .. Len(c) /\ c[p] = a[p]
      BY <3>3, JoinedPlaces
    <3> QED
      BY <3>2, <3>4
  <2> QED
    BY <1>5, <2>1, <2>3, <2>4
<1>8. t \in Int /\ L \in Int /\ L \in t .. L
  BY <1>2, <1>3
<1>9. L \in T
  BY <1>6, <1>7, <1>8, Climb
<1> QED
  BY <1>1, <1>2, <1>4, <1>5, <1>9

\* And every place of Cat(ss) is one of a part.
LEMMA CatPlace ==
  ASSUME NEW A, NEW ss \in Seq(Seq(A)), NEW p \in 1 .. Len(Cat(ss))
  PROVE  \E t \in 1 .. Len(ss) : \E j \in 1 .. Len(ss[t]) : p = Off(ss, t) + j
<1>1. PICK L : L = Len(ss)
  OBVIOUS
<1>2. L \in Nat /\ \A t \in 1 .. L : ss[t] \in Seq(A) /\ Len(ss[t]) \in Nat
  BY <1>1
<1>3. /\ Cat(ss) \in Seq(A) /\ Off(ss, 1) = 0 /\ Off(ss, L + 1) = Len(Cat(ss))
      /\ \A t \in 1 .. L + 1 : Off(ss, t) \in Nat
      /\ \A t \in 1 .. L : Off(ss, t + 1) = Off(ss, t) + Len(ss[t])
  BY <1>1, CatFacts
<1>4. p \in Nat /\ p > 0
  BY <1>3
<1>5. PICK T : T = {t \in 1 .. L + 1 : Off(ss, t) >= p}
  OBVIOUS
<1>6. L + 1 \in T /\ T \subseteq Nat
  BY <1>2, <1>3, <1>4, <1>5
<1>7. PICK u \in T : \A v \in T : u <= v
  BY <1>6, LeastPlace
<1>8. u \in 1 .. L + 1 /\ Off(ss, u) >= p /\ u # 1 /\ u \in Int
  BY <1>3, <1>4, <1>5, <1>7
<1>9. PICK t : t = u - 1
  OBVIOUS
<1>10. t \in 1 .. L /\ t \in 1 .. L + 1 /\ t + 1 = u /\ ~(u <= t)
  BY <1>2, <1>8, <1>9
<1>11. ~(Off(ss, t) >= p)
  BY <1>5, <1>7, <1>10
<1>12. Off(ss, u) = Off(ss, t) + Len(ss[t]) /\ Off(ss, t) \in Nat /\ Len(ss[t]) \in Nat
  BY <1>2, <1>3, <1>10
<1>13. p - Off(ss, t) \in 1 .. Len(ss[t]) /\ p = Off(ss, t) + (p - Off(ss, t))
  BY SMTT(30), <1>4, <1>8, <1>11, <1>12
<1> QED
  BY <1>1, <1>10, <1>13

\* The same, with the place named.
Lies(ss, p) == \E t \in 1 .. Len(ss) : \E j \in 1 .. Len(ss[t]) : p = Off(ss, t) + j

LEMMA CatLies ==
  ASSUME NEW A, NEW ss \in Seq(Seq(A)), NEW p \in 1 .. Len(Cat(ss))
  PROVE  Lies(ss, p)
BY CatPlace DEF Lies

-----------------------------------------------------------------------------
(* A call that fails.                                                      *)

\* An extension or a load that fails changes nothing of the index.
THEOREM FailedCallsChangeNothing == IvfSpec => FailuresChangeNothing
<1> DEFINE A == did'.op \in {"extend", "load"} /\ ~did'.ok => ix' = ix
<1>1. ASSUME [IvfNext]_ivfVars PROVE A
  <2>1. CASE Build
    <3>1. PICK kind \in Kinds, D \in Datasets, C \in Centroids, B \in Codebooks, dev \in Devices :
            CASE kind = "brute" -> BuildBrute(D)
              [] kind = "flat" -> BuildFlat(D, C, dev)
              [] kind = "rabitq" -> BuildRabitq(D, C, dev)
              [] kind = "pq" -> BuildPq("pq", D, C, B, dev)
              [] kind = "scann" -> BuildScann(D, C, B, dev)
      BY <2>1, ZenonT(30) DEF Build
    <3>2. kind \in {"brute", "flat", "rabitq", "pq", "scann"}
      BY IvfAssumption
    <3>3. ASSUME NEW k, BuildPq(k, D, C, B, dev) PROVE did'.op = "build"
      BY <3>3 DEF BuildPq, Call
    <3>4. BuildBrute(D) \/ BuildFlat(D, C, dev) \/ BuildRabitq(D, C, dev) => did'.op = "build"
      BY DEF BuildBrute, BuildFlat, BuildRabitq, Call
    <3>5. did'.op = "build"
      BY <3>1, <3>2, <3>3, <3>4 DEF BuildScann
    <3> QED
      BY <3>5
  <2>2. CASE Extend
    <3>1. PICK E \in Extras, dev \in Devices :
            CASE ix.kind = "pq" -> ExtendPq(E, dev)
              [] ix.kind = "flat" -> ExtendFlat(E, dev)
              [] ix.kind = "rabitq" -> ExtendRabitq(E, dev)
      BY <2>2 DEF Extend
    <3>2. ix.kind \in {"flat", "rabitq", "pq"}
      BY <2>2 DEF Extend
    <3>3. CASE ExtendPq(E, dev)
      <4>1. CASE did'.ok
        BY <4>1
      <4>2. CASE ~did'.ok
        BY <3>3, <4>2 DEF ExtendPq, Call
      <4> QED
        BY <4>1, <4>2
    <3>4. CASE ExtendFlat(E, dev) \/ ExtendRabitq(E, dev)
      BY <3>4 DEF ExtendFlat, ExtendRabitq, Call
    <3> QED
      BY <3>1, <3>2, <3>3, <3>4
  <2>3. CASE Deserialize
    BY <2>3 DEF Deserialize, Call
  <2>4. CASE Serialize \/ IvfSearch \/ Return \/ UNCHANGED ivfVars
    BY <2>4 DEF Serialize, IvfSearch, Return, ivfVars
  <2> QED
    BY <1>1, <2>1, <2>2, <2>3, <2>4 DEF IvfNext
<1> QED
  BY <1>1, PTL DEF IvfSpec, FailuresChangeNothing

-----------------------------------------------------------------------------
(* The lists of an index.                                                  *)

\* The nearest centroid of v, the first of them among equals.
Home(centroids, v) == TopK([d \in DOMAIN centroids |-> Dist(v, centroids[d])], 1)[1]
HomesOf(xs, centroids) == [r \in DOMAIN xs |-> Home(centroids, xs[r])]

\* List c holds the rows whose home it is, each once.
Holds(list, home, n, c) ==
  /\ list \in Seq(1 .. n)
  /\ \A t \in 1 .. Len(list) : home[list[t]] = c
  /\ \A t, u \in 1 .. Len(list) : list[t] = list[u] => t = u
  /\ \A r \in 1 .. n : home[r] = c => \E t \in 1 .. Len(list) : list[t] = r

\* The n rows lie in the L lists, each once and in the list home gives it.
Sorted(lists, home, n, L) ==
  /\ lists \in [1 .. L -> Seq(1 .. n)]
  /\ \A c \in 1 .. L : Holds(lists[c], home, n, c)

\* Distances between values are finite numbers.
LEMMA DistFacts ==
  ASSUME NEW a \in Values, NEW b \in Values
  PROVE  Dist(a, b) \in Int /\ Dist(a, b) < Inf /\ 0 <= Dist(a, b) /\ Dist(a, b) # Inf
<1>1. a \in Int /\ b \in Int /\ Inf \in Int /\ (a - b) * (a - b) < Inf
  BY IvfAssumption
<1>2. \A z \in Int : z * z \in Int /\ 0 <= z * z
  OBVIOUS
<1> QED
  BY <1>1, <1>2 DEF Dist

\* A row has a nearest centroid.
LEMMA HomeFacts ==
  ASSUME NEW centroids \in Seq(Values), Len(centroids) > 0, NEW v \in Values
  PROVE  /\ Home(centroids, v) \in 1 .. Len(centroids)
         /\ [d \in DOMAIN centroids |-> Dist(v, centroids[d])] \in Seq(Int)
<1>1. PICK sc : sc = [d \in DOMAIN centroids |-> Dist(v, centroids[d])]
  OBVIOUS
<1>2. Len(centroids) \in Nat /\ DOMAIN centroids = 1 .. Len(centroids)
      /\ \A d \in DOMAIN centroids : centroids[d] \in Values
  OBVIOUS
<1>3. \A d \in DOMAIN centroids : Dist(v, centroids[d]) \in Int
  BY <1>2, DistFacts
<1>4. sc \in Seq(Int) /\ Len(sc) = Len(centroids) /\ DOMAIN sc = 1 .. Len(centroids)
  BY <1>1, <1>2, <1>3
<1>5. Least(1, Len(sc)) = 1
  BY <1>2, <1>4 DEF Least
<1>6. TopK(sc, 1) \in [1 .. Least(1, Len(sc)) -> DOMAIN sc]
  BY <1>4, TopKFacts
<1>7. TopK(sc, 1)[1] \in DOMAIN sc
  BY <1>5, <1>6
<1> QED
  BY <1>1, <1>4, <1>7 DEF Home

\* A device that runs pairwise and top-k labels rows with their homes.
LEMMA LabelsAreHomes ==
  ASSUME NEW dev, Ok(dev, "pairwise"), Ok(dev, "topk"),
         NEW centroids \in Seq(Values), Len(centroids) > 0, NEW xs \in Seq(Values)
  PROVE  Labels(dev, xs, centroids) = HomesOf(xs, centroids)
<1>1. ASSUME NEW i \in DOMAIN xs PROVE Label(dev, xs[i], centroids) = Home(centroids, xs[i])
  <2>1. xs[i] \in Values
    OBVIOUS
  <2>2. PICK sc : sc = [d \in DOMAIN centroids |-> Dist(xs[i], centroids[d])]
    OBVIOUS
  <2>3. Pairwise(dev, xs[i], centroids) = sc
    BY <2>2 DEF Pairwise
  <2>4. PICK best : best = TopK(sc, 1)
    OBVIOUS
  <2>5. sc \in Seq(Int) /\ best[1] \in 1 .. Len(centroids) /\ best[1] = Home(centroids, xs[i])
    BY <2>1, <2>2, <2>4, HomeFacts DEF Home
  <2>6. Len(sc) = Len(centroids) /\ Len(centroids) \in Nat
    BY <2>2
  <2>7. Least(1, Len(sc)) = 1
    BY <2>6 DEF Least
  <2>8. 1 \in DOMAIN best
    BY <2>4, <2>5, <2>7, TopKFacts
  <2>9. sc[best[1]] # Inf
    BY SMTT(30), <2>1, <2>2, <2>5, DistFacts
  <2> QED
    BY <2>3, <2>4, <2>5, <2>8, <2>9 DEF Label, Best
<1> QED
  BY <1>1 DEF Labels, HomesOf

\* build_ivf_lists sorts rows by their labels.
LEMMA SortedNew ==
  ASSUME NEW n \in Nat, NEW L \in Nat, NEW labels \in [1 .. n -> 1 .. L]
  PROVE  Sorted(ListsOf(labels, L), labels, n, L)
<1>1. PICK S : S = [c \in 1 .. L |-> {i \in DOMAIN labels : labels[i] = c}]
  OBVIOUS
<1>2. PICK lists : lists = ListsOf(labels, L)
  OBVIOUS
<1>3. lists = [c \in 1 .. L |-> Ascending(S[c])]
  BY <1>1, <1>2 DEF ListsOf
<1>4. ASSUME NEW c \in 1 .. L
      PROVE  /\ lists[c] \in Seq(1 .. n) /\ lists[c] \in [1 .. Len(lists[c]) -> S[c]]
             /\ \A t, u \in 1 .. Len(lists[c]) : t < u => lists[c][t] < lists[c][u]
             /\ \A i \in S[c] : \E t \in 1 .. Len(lists[c]) : lists[c][t] = i
  <2>1. S[c] \subseteq 1 .. n /\ S[c] \in SUBSET (1 .. n)
    BY <1>1
  <2>2. IsFiniteSet(S[c]) /\ S[c] \subseteq Int
    <3>1. IsFiniteSet(1 .. n) /\ 1 .. n \subseteq Int
      BY FS_Interval
    <3> QED
      BY <2>1, <3>1, FS_Subset
  <2>3. PICK z, k : z = Ascending(S[c]) /\ k = Cardinality(S[c])
    OBVIOUS
  <2>4. /\ k \in Nat /\ z \in [1 .. k -> S[c]]
        /\ \A t, u \in 1 .. k : t < u => z[t] < z[u]
        /\ \A i \in S[c] : \E t \in 1 .. k : z[t] = i
    BY <2>2, <2>3, AscendingFacts
  <2>5. Len(z) = k /\ z \in Seq(1 .. n)
    BY <2>1, <2>4
  <2> QED
    BY <1>3, <2>3, <2>4, <2>5
<1>5. ASSUME NEW c \in 1 .. L PROVE Holds(lists[c], labels, n, c)
  <2>1. PICK z, R : z = lists[c] /\ R = S[c]
    OBVIOUS
  <2>2. /\ z \in Seq(1 .. n) /\ \A t \in 1 .. Len(z) : z[t] \in R
        /\ \A t, u \in 1 .. Len(z) : t < u => z[t] < z[u]
        /\ \A i \in R : \E t \in 1 .. Len(z) : z[t] = i
    BY <1>4, <2>1
  <2>3. \A i : i \in R <=> i \in 1 .. n /\ labels[i] = c
    BY <1>1, <2>1
  <2>4. ASSUME NEW t \in 1 .. Len(z), NEW u \in 1 .. Len(z), z[t] = z[u] PROVE t = u
    <3>1. t \in Int /\ u \in Int /\ z[t] \in Int
      BY <2>2, <2>3
    <3>2. ~(t < u) /\ ~(u < t)
      BY <2>2, <2>4, <3>1, SMTT(30)
    <3> QED
      BY <3>1, <3>2
  <2> QED
    BY <2>1, <2>2, <2>3, <2>4 DEF Holds
<1>6. lists \in [1 .. L -> Seq(1 .. n)]
  BY <1>3, <1>4
<1> QED
  BY <1>2, <1>5, <1>6 DEF Sorted

\* A place of c is one of a or one of b.
LEMMA JoinedCases ==
  ASSUME NEW a, NEW b, NEW c, Joins(c, a, b), NEW p \in 1 .. Len(c)
  PROVE  \/ p \in 1 .. Len(a) /\ c[p] = a[p]
         \/ p - Len(a) \in 1 .. Len(b) /\ c[p] = b[p - Len(a)]
<1>1. PICK m, n : m = Len(a) /\ n = Len(b)
  OBVIOUS
<1>2. m \in Nat /\ n \in Nat /\ p \in 1 .. m + n
  BY <1>1 DEF Joins
<1>3. CASE p <= m
  BY <1>1, <1>2, <1>3 DEF Joins
<1>4. CASE ~(p <= m)
  <2>1. PICK q : q = p - m
    OBVIOUS
  <2>2. q \in 1 .. n /\ p = m + q
    BY <1>2, <1>4, <2>1
  <2>3. c[m + q] = b[q]
    BY <1>1, <2>2 DEF Joins
  <2> QED
    BY <1>1, <2>1, <2>2, <2>3
<1> QED
  BY <1>3, <1>4

\* What a sequence over S is.
LEMMA SeqFacts ==
  ASSUME NEW S, NEW z \in Seq(S)
  PROVE  Len(z) \in Nat /\ DOMAIN z = 1 .. Len(z) /\ \A t \in 1 .. Len(z) : z[t] \in S
OBVIOUS

\* Rows numbered after n others.
LEMMA Shifted ==
  ASSUME NEW n \in Nat, NEW m \in Nat, NEW z \in Seq(1 .. m),
         NEW wd, wd = [t \in DOMAIN z |-> n + z[t]]
  PROVE  /\ wd \in Seq(1 .. n + m) /\ Len(wd) = Len(z)
         /\ \A t \in 1 .. Len(z) : z[t] \in 1 .. m /\ wd[t] = n + z[t]
<1>1. Len(z) \in Nat /\ DOMAIN z = 1 .. Len(z) /\ \A t \in 1 .. Len(z) : z[t] \in 1 .. m
  BY SeqFacts
<1>2. PICK k : k = Len(z)
  OBVIOUS
<1>3. \A t \in 1 .. k : n + z[t] \in 1 .. n + m
  BY <1>1, <1>2
<1>4. wd = [t \in 1 .. k |-> n + z[t]]
  BY <1>1, <1>2
<1>5. wd \in Seq(1 .. n + m) /\ Len(wd) = k
  BY <1>1, <1>2, <1>3, <1>4
<1> QED
  BY <1>1, <1>2, <1>4, <1>5

\* c is the rows a, then the rows z counted after n others.
Extended(c, a, z, n, m) ==
  /\ c \in Seq(1 .. n + m)
  /\ \A t \in 1 .. Len(a) : t \in 1 .. Len(c) /\ c[t] = a[t]
  /\ \A t \in 1 .. Len(z) : Len(a) + t \in 1 .. Len(c) /\ c[Len(a) + t] = n + z[t]
  /\ \A t \in 1 .. Len(c) :
       \/ t \in 1 .. Len(a) /\ c[t] = a[t] /\ c[t] \in 1 .. n
       \/ /\ t - Len(a) \in 1 .. Len(z) /\ c[t] = n + z[t - Len(a)]
          /\ z[t - Len(a)] \in 1 .. m

LEMMA JoinedRows ==
  ASSUME NEW n \in Nat, NEW m \in Nat, NEW a \in Seq(1 .. n), NEW z \in Seq(1 .. m),
         NEW b, b = [t \in DOMAIN z |-> n + z[t]], NEW c, c = a \o b
  PROVE  Extended(c, a, z, n, m)
<1>1. /\ b \in Seq(1 .. n + m) /\ Len(b) = Len(z)
      /\ \A t \in 1 .. Len(z) : z[t] \in 1 .. m /\ b[t] = n + z[t]
  BY Shifted
<1>2. 1 .. n \subseteq 1 .. n + m
  OBVIOUS
<1>3. a \in Seq(1 .. n + m)
  BY <1>2
<1>4. c \in Seq(1 .. n + m)
  BY <1>1, <1>3
<1>5. Joins(c, a, b)
  BY <1>1, <1>3, Joined
<1>6. \A t \in 1 .. Len(a) : a[t] \in 1 .. n
  BY SeqFacts
<1>7. ASSUME NEW t \in 1 .. Len(c)
      PROVE  \/ t \in 1 .. Len(a) /\ c[t] = a[t] /\ c[t] \in 1 .. n
             \/ /\ t - Len(a) \in 1 .. Len(z) /\ c[t] = n + z[t - Len(a)]
                /\ z[t - Len(a)] \in 1 .. m
  <2>1. \/ t \in 1 .. Len(a) /\ c[t] = a[t]
        \/ t - Len(a) \in 1 .. Len(b) /\ c[t] = b[t - Len(a)]
    BY <1>5, JoinedCases
  <2> QED
    BY <1>1, <1>6, <2>1
<1>8. /\ \A t \in 1 .. Len(a) : t \in 1 .. Len(c) /\ c[t] = a[t]
      /\ \A t \in 1 .. Len(b) : Len(a) + t \in 1 .. Len(c) /\ c[Len(a) + t] = b[t]
  BY <1>5, JoinedPlaces
<1>9. ASSUME NEW t \in 1 .. Len(z)
      PROVE  Len(a) + t \in 1 .. Len(c) /\ c[Len(a) + t] = n + z[t]
  BY <1>1, <1>8
<1> QED
  BY <1>4, <1>7, <1>8, <1>9 DEF Extended

\* The homes of n rows, then the labels of m more.
Both(both, home, labels, n, m) ==
  /\ \A r \in 1 .. n : both[r] = home[r]
  /\ \A r \in 1 .. m : both[n + r] = labels[r]

\* New rows at the end of one list.
LEMMA HoldsMore ==
  ASSUME NEW n \in Nat, NEW m \in Nat, NEW home, NEW labels, NEW both,
         Both(both, home, labels, n, m), NEW a, NEW z, NEW c,
         Holds(a, home, n, c), Holds(z, labels, m, c), NEW wd, Extended(wd, a, z, n, m)
  PROVE  Holds(wd, both, n + m, c)
<1>1. PICK k : k = Len(a)
  OBVIOUS
<1>2. a \in Seq(1 .. n) /\ z \in Seq(1 .. m) /\ wd \in Seq(1 .. n + m)
  BY DEF Holds, Extended
<1>3. k \in Nat /\ (\A t \in 1 .. k : a[t] \in 1 .. n) /\ (\A t \in 1 .. Len(z) : z[t] \in 1 .. m)
  BY <1>1, <1>2, SeqFacts
<1>4. ASSUME NEW t \in 1 .. Len(wd)
      PROVE  \/ t \in 1 .. k /\ wd[t] = a[t] /\ wd[t] \in 1 .. n
             \/ t - k \in 1 .. Len(z) /\ wd[t] = n + z[t - k] /\ z[t - k] \in 1 .. m
  BY <1>1 DEF Extended
<1>5. ASSUME NEW t \in 1 .. Len(wd) PROVE both[wd[t]] = c
  <2>1. CASE t \in 1 .. k /\ wd[t] = a[t] /\ wd[t] \in 1 .. n
    <3>1. home[a[t]] = c
      BY <1>1, <2>1 DEF Holds
    <3>2. PICK r \in 1 .. n : r = wd[t]
      BY <2>1
    <3>3. both[r] = home[r]
      BY DEF Both
    <3> QED
      BY <2>1, <3>1, <3>2, <3>3
  <2>2. CASE t - k \in 1 .. Len(z) /\ wd[t] = n + z[t - k] /\ z[t - k] \in 1 .. m
    BY <2>2 DEF Both, Holds
  <2> QED
    BY <1>4, <2>1, <2>2
<1>6. ASSUME NEW t \in 1 .. Len(wd), NEW u \in 1 .. Len(wd), wd[t] = wd[u] PROVE t = u
  <2>1. t \in Int /\ u \in Int /\ k \in Int
    BY <1>2, <1>3, SeqFacts
  <2>2. CASE t \in 1 .. k /\ wd[t] = a[t] /\ wd[t] \in 1 .. n
    <3>1. \A p \in 1 .. m : n + p \notin 1 .. n
      OBVIOUS
    <3>2. u \in 1 .. k /\ wd[u] = a[u]
      BY <1>4, <1>6, <2>2, <3>1
    <3>3. t \in 1 .. Len(a) /\ u \in 1 .. Len(a) /\ a[t] = a[u]
      BY <1>1, <1>6, <2>2, <3>2
    <3> QED
      BY <3>3 DEF Holds
  <2>3. CASE t - k \in 1 .. Len(z) /\ wd[t] = n + z[t - k] /\ z[t - k] \in 1 .. m
    <3>1. PICK p, q : p = t - k /\ q = u - k
      OBVIOUS
    <3>2. p \in 1 .. Len(z) /\ wd[t] = n + z[p] /\ z[p] \in 1 .. m
      BY <2>3, <3>1
    <3>3. wd[t] \notin 1 .. n
      BY <3>2
    <3>4. q \in 1 .. Len(z) /\ wd[u] = n + z[q] /\ z[q] \in 1 .. m
      BY <1>4, <1>6, <3>1, <3>3
    <3>7. \A x, y \in 1 .. m : n + x = n + y => x = y
      OBVIOUS
    <3>8. n + z[p] = n + z[q]
      BY <1>6, <3>2, <3>4
    <3>5. z[p] = z[q]
      BY <3>2, <3>4, <3>7, <3>8
    <3>6. p = q
      BY <3>2, <3>4, <3>5 DEF Holds
    <3> QED
      BY <2>1, <3>1, <3>6
  <2> QED
    BY <1>4, <2>2, <2>3
<1>7. ASSUME NEW r \in 1 .. n + m, both[r] = c PROVE \E t \in 1 .. Len(wd) : wd[t] = r
  <2>1. CASE r \in 1 .. n
    <3>1. PICK t \in 1 .. Len(a) : a[t] = r
      BY <1>7, <2>1 DEF Both, Holds
    <3> QED
      BY <3>1 DEF Extended
  <2>2. CASE r \notin 1 .. n
    <3>1. PICK i : i = r - n
      OBVIOUS
    <3>2. i \in 1 .. m /\ r = n + i
      BY <2>2, <3>1
    <3>3. PICK t \in 1 .. Len(z) : z[t] = i
      BY <1>7, <3>2 DEF Both, Holds
    <3>4. Len(a) + t \in 1 .. Len(wd) /\ wd[Len(a) + t] = n + z[t]
      BY DEF Extended
    <3> QED
      BY <3>2, <3>3, <3>4
  <2> QED
    BY <2>1, <2>2
<1> QED
  BY <1>2, <1>5, <1>6, <1>7 DEF Holds

\* New rows at the ends of their lists.
LEMMA SortedMore ==
  ASSUME NEW n \in Nat, NEW m \in Nat, NEW L \in Nat, NEW lists,
         NEW home \in [1 .. n -> 1 .. L], NEW labels \in [1 .. m -> 1 .. L],
         Sorted(lists, home, n, L), NEW both \in [1 .. n + m -> 1 .. L],
         Both(both, home, labels, n, m)
  PROVE  Sorted(Appended(lists, n, labels), both, n + m, L)
<1>1. PICK fr : fr = ListsOf(labels, L)
  OBVIOUS
<1>2. Sorted(fr, labels, m, L)
  BY <1>1, SortedNew
<1>3. PICK new : new = [c \in 1 .. L |-> [t \in DOMAIN fr[c] |-> n + fr[c][t]]]
  OBVIOUS
<1>4. PICK all : all = Appended(lists, n, labels)
  OBVIOUS
<1>5. DOMAIN lists = 1 .. L /\ \A c \in 1 .. L : fr[c] = Ascending({i \in DOMAIN labels : labels[i] = c})
  BY <1>1 DEF Sorted, ListsOf
<1>6. all = [c \in 1 .. L |-> lists[c] \o new[c]]
  BY <1>3, <1>4, <1>5 DEF Appended
<1>7. ASSUME NEW c \in 1 .. L
      PROVE  all[c] \in Seq(1 .. n + m) /\ Holds(all[c], both, n + m, c)
  <2>1. PICK a, z, b, wd : a = lists[c] /\ z = fr[c] /\ b = new[c] /\ wd = all[c]
    OBVIOUS
  <2>2. Holds(a, home, n, c) /\ Holds(z, labels, m, c)
    BY <1>2, <2>1 DEF Sorted
  <2>3. a \in Seq(1 .. n) /\ z \in Seq(1 .. m)
    BY <2>2 DEF Holds
  <2>4. b = [t \in DOMAIN z |-> n + z[t]] /\ wd = a \o b
    BY <1>3, <1>6, <2>1
  <2>5. Extended(wd, a, z, n, m)
    BY <2>3, <2>4, JoinedRows
  <2>6. Holds(wd, both, n + m, c)
    BY <2>2, <2>5, HoldsMore
  <2> QED
    BY <2>1, <2>6 DEF Holds
<1>8. all \in [1 .. L -> Seq(1 .. n + m)]
  BY <1>6, <1>7
<1> QED
  BY <1>4, <1>7, <1>8 DEF Sorted

-----------------------------------------------------------------------------
(* What builds, extensions and loads leave.                                *)

\* Rows, centroids and lists that belong together.
Clustered(x, C, lists) ==
  /\ x \in Seq(Values) /\ C \in Seq(Values) /\ Len(C) > 0
  /\ Sorted(lists, HomesOf(x, C), Len(x), Len(C))

FlatIndex(x, C, lists) == Index("flat", x, C, <<>>, <<>>, lists, <<>>)
RabitqIndex(x, C, lists) ==
  Index("rabitq", x, C, <<>>, HomesOf(x, C), lists, Residuals(x, HomesOf(x, C), C))
PqIndex(kind, x, C, B, lists) ==
  Index(kind, x, C, B, HomesOf(x, C), lists, Codes(x, HomesOf(x, C), C, B))

\* An index as its kind should be.
Right(i) ==
  /\ i.kind \in {"brute", "flat", "rabitq", "pq", "scann"}
  /\ i.kind = "brute" =>
       i.x \in Seq(Values) /\ i = Index("brute", i.x, <<>>, <<>>, <<>>, <<>>, <<>>)
  /\ i.kind # "brute" => Clustered(i.x, i.centroids, i.lists)
  /\ i.kind = "flat" => i = FlatIndex(i.x, i.centroids, i.lists)
  /\ i.kind = "rabitq" => i = RabitqIndex(i.x, i.centroids, i.lists)
  /\ i.kind \in {"pq", "scann"} =>
       /\ i.codebook \in Seq(Int) \ {<<>>}
       /\ i = PqIndex(i.kind, i.x, i.centroids, i.codebook, i.lists)

\* What a file would load as, were its lists not looked at.
Whole(f) ==
  CASE f.kind = "flat" -> LoadFlat(f)
    [] f.kind = "rabitq" -> LoadRabitq(f)
    [] f.kind = "pq" ->
         Index("pq", f.x, f.centroids, f.codebook, f.assign, f.lists, f.codes)

\* The kinds that look at every status, or meet no failure to drop.
Trusted(kind) == kind \in {"brute", "pq", "scann"} \/ "ignored" \notin Habits

\* The index and the file are right, of the kinds that can be trusted.
RightIndex ==
  ix # NoIndex => /\ ix.kind \in {"brute", "flat", "rabitq", "pq", "scann"}
                  /\ Trusted(ix.kind) => Right(ix)
RightFile ==
  \/ file = NoFile \/ file = Cut
  \/ file.kind \in {"flat", "rabitq", "pq"} /\ (Trusted(file.kind) => Right(Whole(file)))
RightInv == RightIndex /\ RightFile

\* Homes of rows are numbers of lists.
LEMMA HomesFacts ==
  ASSUME NEW x \in Seq(Values), NEW C \in Seq(Values), Len(C) > 0
  PROVE  HomesOf(x, C) \in [1 .. Len(x) -> 1 .. Len(C)] /\ Len(x) \in Nat /\ Len(C) \in Nat
<1>1. Len(x) \in Nat /\ Len(C) \in Nat /\ DOMAIN x = 1 .. Len(x) /\ \A r \in 1 .. Len(x) : x[r] \in Values
  BY SeqFacts
<1>2. \A r \in 1 .. Len(x) : Home(C, x[r]) \in 1 .. Len(C)
  BY <1>1, HomeFacts
<1> QED
  BY <1>1, <1>2 DEF HomesOf

\* A build on devices that run what it needs.
LEMMA ClusteredNew ==
  ASSUME NEW dev, Ok(dev, "pairwise"), Ok(dev, "topk"), NEW D \in Datasets, NEW C \in Centroids
  PROVE  /\ Labels(dev, D, C) = HomesOf(D, C)
         /\ Clustered(D, C, ListsOf(HomesOf(D, C), Len(C)))
<1>1. D \in Seq(Values) /\ C \in Seq(Values) /\ Len(C) > 0
  BY IvfAssumption
<1>2. Labels(dev, D, C) = HomesOf(D, C)
  BY <1>1, LabelsAreHomes
<1>3. HomesOf(D, C) \in [1 .. Len(D) -> 1 .. Len(C)] /\ Len(D) \in Nat /\ Len(C) \in Nat
  BY <1>1, HomesFacts
<1>4. Sorted(ListsOf(HomesOf(D, C), Len(C)), HomesOf(D, C), Len(D), Len(C))
  BY <1>3, SortedNew
<1> QED
  BY <1>1, <1>2, <1>4 DEF Clustered

\* k begins with the n members of f and ends with the m of g.
Splits(k, f, g, n, m) ==
  /\ DOMAIN f = 1 .. n /\ f = [r \in 1 .. n |-> f[r]]
  /\ DOMAIN g = 1 .. m /\ g = [r \in 1 .. m |-> g[r]]
  /\ k = [r \in 1 .. n + m |-> k[r]]
  /\ \A r \in 1 .. n : k[r] = f[r]
  /\ \A r \in 1 .. m : k[n + r] = g[r]

\* Then it is one after the other.
LEMMA SplitsJoin ==
  ASSUME NEW n \in Nat, NEW m \in Nat, NEW f, NEW g, NEW k, Splits(k, f, g, n, m)
  PROVE  k = f \o g
<1>1. PICK V : V = {f[r] : r \in 1 .. n} \cup {g[r] : r \in 1 .. m}
  OBVIOUS
<1>0. /\ f = [r \in 1 .. n |-> f[r]] /\ g = [r \in 1 .. m |-> g[r]]
      /\ k = [r \in 1 .. n + m |-> k[r]]
      /\ \A r \in 1 .. n : k[r] = f[r]
      /\ \A r \in 1 .. m : k[n + r] = g[r]
  BY DEF Splits
<1>2. f \in [1 .. n -> V] /\ g \in [1 .. m -> V]
  BY <1>0, <1>1
<1>3. f \in Seq(V) /\ g \in Seq(V) /\ Len(f) = n /\ Len(g) = m
  BY <1>2
<1>4. PICK z : z = f \o g
  OBVIOUS
<1>5. z \in Seq(V) /\ Joins(z, f, g)
  BY <1>3, <1>4, Joined
<1>6. Len(z) = n + m /\ DOMAIN z = 1 .. n + m
  BY <1>3, <1>5, SeqFacts DEF Joins
<1>7. ASSUME NEW r \in 1 .. n + m PROVE z[r] = k[r]
  <2>1. CASE r \in 1 .. n
    BY <1>0, <1>3, <1>5, <2>1 DEF Joins
  <2>2. CASE r \notin 1 .. n
    <3>1. PICK i : i = r - n
      OBVIOUS
    <3>2. i \in 1 .. m /\ r = n + i
      BY <2>2, <3>1
    <3>3. z[n + i] = g[i]
      BY <1>3, <1>5, <3>2 DEF Joins
    <3> QED
      BY <1>0, <3>2, <3>3
  <2> QED
    BY <2>1, <2>2
<1>8. z = [r \in 1 .. n + m |-> z[r]]
  BY <1>5, <1>6
<1> QED
  BY <1>0, <1>4, <1>7, <1>8

\* Rows y are x, then E; their lists, homes, residuals and codes.
Grown(y, x, E, C, lists, B) ==
  /\ Clustered(y, C, Appended(lists, Len(x), HomesOf(E, C)))
  /\ HomesOf(y, C) = HomesOf(x, C) \o HomesOf(E, C)
  /\ Residuals(y, HomesOf(y, C), C) =
       Residuals(x, HomesOf(x, C), C) \o Residuals(E, HomesOf(E, C), C)
  /\ Codes(y, HomesOf(y, C), C, B) =
       Codes(x, HomesOf(x, C), C, B) \o Codes(E, HomesOf(E, C), C, B)

\* What rows that are appended bring.
LEMMA ClusteredMore ==
  ASSUME NEW x, NEW C, NEW lists, Clustered(x, C, lists), NEW E \in Seq(Values), NEW B,
         NEW y, y = x \o E
  PROVE  Grown(y, x, E, C, lists, B)
<1>1. x \in Seq(Values) /\ C \in Seq(Values) /\ Len(C) > 0
  BY DEF Clustered
<1>2. PICK n, m, L : n = Len(x) /\ m = Len(E) /\ L = Len(C)
  OBVIOUS
<1>3. PICK h, l, b : h = HomesOf(x, C) /\ l = HomesOf(E, C) /\ b = HomesOf(y, C)
  OBVIOUS
<1>4. y \in Seq(Values) /\ Joins(y, x, E)
  BY <1>1, <1>2, Joined
<1>5. n \in Nat /\ m \in Nat /\ L \in Nat /\ Len(y) = n + m
  BY <1>2, <1>4, <1>1 DEF Joins
<1>6. /\ h \in [1 .. n -> 1 .. L] /\ l \in [1 .. m -> 1 .. L]
      /\ b \in [1 .. n + m -> 1 .. L]
  BY <1>1, <1>2, <1>3, <1>4, <1>5, HomesFacts
<1>7. /\ DOMAIN x = 1 .. n /\ DOMAIN E = 1 .. m /\ DOMAIN y = 1 .. n + m
  BY <1>1, <1>2, <1>4, <1>5, SeqFacts
<1>8. ASSUME NEW r \in 1 .. n
      PROVE  r \in 1 .. n + m /\ y[r] = x[r] /\ b[r] = h[r]
  <2>1. r \in 1 .. n + m /\ y[r] = x[r]
    BY <1>2, <1>4, <1>5 DEF Joins
  <2> QED
    BY <1>3, <1>7, <2>1 DEF HomesOf
<1>9. ASSUME NEW r \in 1 .. m
      PROVE  n + r \in 1 .. n + m /\ y[n + r] = E[r] /\ b[n + r] = l[r]
  <2>1. n + r \in 1 .. n + m /\ y[n + r] = E[r]
    BY <1>2, <1>4, <1>5 DEF Joins
  <2> QED
    BY <1>3, <1>7, <2>1 DEF HomesOf
<1>10. Both(b, h, l, n, m)
  BY <1>8, <1>9 DEF Both
<1>11. Sorted(Appended(lists, n, l), b, n + m, L)
  <2>1. Sorted(lists, h, n, L)
    BY <1>2, <1>3 DEF Clustered
  <2> QED
    BY <2>1, <1>5, <1>6, <1>10, SortedMore
<1>13. b = h \o l
  <2>1. \A r \in 1 .. n : b[r] = h[r]
    BY <1>8
  <2>2. \A r \in 1 .. m : b[n + r] = l[r]
    BY <1>9
  <2>3. b = [r \in 1 .. n + m |-> b[r]] /\ h = [r \in 1 .. n |-> h[r]] /\ l = [r \in 1 .. m |-> l[r]]
        /\ DOMAIN h = 1 .. n /\ DOMAIN l = 1 .. m
    BY <1>6
  <2>4. Splits(b, h, l, n, m)
    BY <2>1, <2>2, <2>3 DEF Splits
  <2> QED
    BY <1>5, <2>4, SplitsJoin
<1>14. Residuals(y, b, C) = Residuals(x, h, C) \o Residuals(E, l, C)
  <2>1. PICK f, g, k : f = Residuals(x, h, C) /\ g = Residuals(E, l, C) /\ k = Residuals(y, b, C)
    OBVIOUS
  <2>2. /\ f = [r \in 1 .. n |-> x[r] - C[h[r]]] /\ g = [r \in 1 .. m |-> E[r] - C[l[r]]]
        /\ k = [r \in 1 .. n + m |-> y[r] - C[b[r]]]
    BY <1>7, <2>1 DEF Residuals
  <2>3. \A r \in 1 .. n : k[r] = f[r]
    BY <1>8, <2>2
  <2>4. \A r \in 1 .. m : k[n + r] = g[r]
    BY <1>9, <2>2
  <2>5. /\ k = [r \in 1 .. n + m |-> k[r]] /\ f = [r \in 1 .. n |-> f[r]] /\ g = [r \in 1 .. m |-> g[r]]
        /\ DOMAIN f = 1 .. n /\ DOMAIN g = 1 .. m
    BY <2>2
  <2>6. Splits(k, f, g, n, m)
    BY <2>3, <2>4, <2>5 DEF Splits
  <2>7. k = f \o g
    BY <1>5, <2>6, SplitsJoin
  <2> QED
    BY <2>1, <2>7
<1>15. Codes(y, b, C, B) = Codes(x, h, C, B) \o Codes(E, l, C, B)
  <2>1. PICK f, g, k : f = Codes(x, h, C, B) /\ g = Codes(E, l, C, B) /\ k = Codes(y, b, C, B)
    OBVIOUS
  <2>2. /\ f = [r \in 1 .. n |-> pq_encode(x[r] - C[h[r]], B)]
        /\ g = [r \in 1 .. m |-> pq_encode(E[r] - C[l[r]], B)]
        /\ k = [r \in 1 .. n + m |-> pq_encode(y[r] - C[b[r]], B)]
    BY <1>7, <2>1 DEF Codes
  <2>3. \A r \in 1 .. n : k[r] = f[r]
    BY <1>8, <2>2
  <2>4. \A r \in 1 .. m : k[n + r] = g[r]
    BY <1>9, <2>2
  <2>5. /\ k = [r \in 1 .. n + m |-> k[r]] /\ f = [r \in 1 .. n |-> f[r]] /\ g = [r \in 1 .. m |-> g[r]]
        /\ DOMAIN f = 1 .. n /\ DOMAIN g = 1 .. m
    BY <2>2
  <2>6. Splits(k, f, g, n, m)
    BY <2>3, <2>4, <2>5 DEF Splits
  <2>7. k = f \o g
    BY <1>5, <2>6, SplitsJoin
  <2> QED
    BY <2>1, <2>7
<1>16. Clustered(y, C, Appended(lists, n, l))
  BY <1>1, <1>2, <1>3, <1>4, <1>5, <1>11 DEF Clustered
<1> QED
  BY <1>2, <1>3, <1>13, <1>14, <1>15, <1>16 DEF Grown

\* The records that are right.
LEMMA RightOnes ==
  /\ \A x \in Seq(Values) : Right(Index("brute", x, <<>>, <<>>, <<>>, <<>>, <<>>))
  /\ \A x, C, lists : Clustered(x, C, lists) =>
       Right(FlatIndex(x, C, lists)) /\ Right(RabitqIndex(x, C, lists))
  /\ \A kind \in {"pq", "scann"}, B \in Seq(Int) \ {<<>>} : \A x, C, lists :
       Clustered(x, C, lists) => Right(PqIndex(kind, x, C, B, lists))
<1>1. ASSUME NEW x \in Seq(Values) PROVE Right(Index("brute", x, <<>>, <<>>, <<>>, <<>>, <<>>))
  BY DEF Right, Index
<1>2. ASSUME NEW x, NEW C, NEW lists, Clustered(x, C, lists) PROVE Right(FlatIndex(x, C, lists))
  <2>1. PICK i : i = FlatIndex(x, C, lists)
    OBVIOUS
  <2>2. i.kind = "flat" /\ i.x = x /\ i.centroids = C /\ i.lists = lists
    BY <2>1 DEF FlatIndex, Index
  <2> QED
    BY <1>2, <2>1, <2>2 DEF Right
<1>3. ASSUME NEW x, NEW C, NEW lists, Clustered(x, C, lists) PROVE Right(RabitqIndex(x, C, lists))
  <2>1. PICK i : i = RabitqIndex(x, C, lists)
    OBVIOUS
  <2>2. i.kind = "rabitq" /\ i.x = x /\ i.centroids = C /\ i.lists = lists
    BY <2>1 DEF RabitqIndex, Index
  <2> QED
    BY <1>3, <2>1, <2>2 DEF Right
<1>4. ASSUME NEW kind \in {"pq", "scann"}, NEW B \in Seq(Int) \ {<<>>}, NEW x, NEW C, NEW lists,
             Clustered(x, C, lists)
      PROVE  Right(PqIndex(kind, x, C, B, lists))
  <2>1. PICK i : i = PqIndex(kind, x, C, B, lists)
    OBVIOUS
  <2>2. i.kind = kind /\ i.x = x /\ i.centroids = C /\ i.lists = lists /\ i.codebook = B
    BY <2>1 DEF PqIndex, Index
  <2> QED
    BY <1>4, <2>1, <2>2 DEF Right
<1> QED
  BY <1>1, <1>2, <1>3, <1>4

\* A build leaves a right index, or none.
LEMMA BuildIsRight ==
  ASSUME Build, ix' # NoIndex
  PROVE  ix'.kind \in {"brute", "flat", "rabitq", "pq", "scann"} /\ (Trusted(ix'.kind) => Right(ix'))
<1>1. PICK kind \in Kinds, D \in Datasets, C \in Centroids, B \in Codebooks, dev \in Devices :
        /\ Usable(kind, dev)
        /\ CASE kind = "brute" -> BuildBrute(D)
             [] kind = "flat" -> BuildFlat(D, C, dev)
             [] kind = "rabitq" -> BuildRabitq(D, C, dev)
             [] kind = "pq" -> BuildPq("pq", D, C, B, dev)
             [] kind = "scann" -> BuildScann(D, C, B, dev)
  BY DEF Build
<1>2. /\ kind \in {"brute", "flat", "rabitq", "pq", "scann"}
      /\ D \in Seq(Values) /\ C \in Seq(Values) /\ B \in Seq(Int) \ {<<>>}
  BY IvfAssumption
<1>3. CASE kind = "brute"
  <2>1. ix' = Index("brute", D, <<>>, <<>>, <<>>, <<>>, <<>>)
    BY <1>1, <1>3 DEF BuildBrute
  <2>2. ix'.kind = "brute"
    BY <2>1 DEF Index
  <2> QED
    BY <1>2, <2>1, <2>2, RightOnes
<1>4. ASSUME kind \in {"flat", "rabitq"}, "ignored" \notin Habits
      PROVE  Labels(dev, D, C) = HomesOf(D, C) /\ Clustered(D, C, ListsOf(HomesOf(D, C), Len(C)))
  <2>1. Ok(dev, "pairwise") /\ Ok(dev, "topk")
    BY <1>1, <1>4 DEF Usable, DropsStatus
  <2> QED
    BY <2>1, ClusteredNew
<1>5. CASE kind = "flat"
  <2>1. ix' = Index("flat", D, C, <<>>, <<>>, ListsOf(Labels(dev, D, C), Len(C)), <<>>)
    BY <1>1, <1>5 DEF BuildFlat
  <2>2. ix'.kind = "flat"
    BY <2>1 DEF Index
  <2>3. CASE "ignored" \notin Habits
    <3>1. ix' = FlatIndex(D, C, ListsOf(HomesOf(D, C), Len(C)))
      BY <1>4, <1>5, <2>1, <2>3 DEF FlatIndex
    <3> QED
      BY <1>4, <1>5, <2>2, <2>3, <3>1, RightOnes
  <2> QED
    BY <2>2, <2>3 DEF Trusted
<1>6. CASE kind = "rabitq"
  <2>1. ix' = Index("rabitq", D, C, <<>>, Labels(dev, D, C), ListsOf(Labels(dev, D, C), Len(C)),
                    Residuals(D, Labels(dev, D, C), C))
    BY <1>1, <1>6 DEF BuildRabitq
  <2>2. ix'.kind = "rabitq"
    BY <2>1 DEF Index
  <2>3. CASE "ignored" \notin Habits
    <3>1. ix' = RabitqIndex(D, C, ListsOf(HomesOf(D, C), Len(C)))
      BY <1>4, <1>6, <2>1, <2>3 DEF RabitqIndex
    <3> QED
      BY <1>4, <1>6, <2>2, <2>3, <3>1, RightOnes
  <2> QED
    BY <2>2, <2>3 DEF Trusted
<1>7. ASSUME NEW k \in {"pq", "scann"}, BuildPq(k, D, C, B, dev)
      PROVE  ix'.kind \in {"brute", "flat", "rabitq", "pq", "scann"} /\ (Trusted(ix'.kind) => Right(ix'))
  <2>1. Trains(dev)
    BY <1>7 DEF BuildPq
  <2>2. Ok(dev, "pairwise") /\ Ok(dev, "topk")
    BY <2>1 DEF Trains
  <2>3. Labels(dev, D, C) = HomesOf(D, C) /\ Clustered(D, C, ListsOf(HomesOf(D, C), Len(C)))
    BY <2>2, ClusteredNew
  <2>4. ix' = Index(k, D, C, B, Labels(dev, D, C), ListsOf(Labels(dev, D, C), Len(C)),
                    Codes(D, Labels(dev, D, C), C, B))
    BY <1>7 DEF BuildPq
  <2>5. ix' = PqIndex(k, D, C, B, ListsOf(HomesOf(D, C), Len(C)))
    BY <2>3, <2>4 DEF PqIndex
  <2>6. ix'.kind = k
    BY <2>4 DEF Index
  <2> QED
    BY <1>2, <2>3, <2>5, <2>6, RightOnes
<1>8. CASE kind \in {"pq", "scann"}
  <2>1. BuildPq(kind, D, C, B, dev)
    BY <1>1, <1>8 DEF BuildScann
  <2> QED
    BY <1>7, <1>8, <2>1
<1> QED
  BY <1>2, <1>3, <1>5, <1>6, <1>8

\* An extension too.
LEMMA ExtendIsRight ==
  ASSUME RightInv, Extend
  PROVE  ix' # NoIndex => ix'.kind \in {"brute", "flat", "rabitq", "pq", "scann"} /\ (Trusted(ix'.kind) => Right(ix'))
<1>1. PICK E \in Extras, dev \in Devices :
        /\ Usable(ix.kind, dev)
        /\ CASE ix.kind = "pq" -> ExtendPq(E, dev)
             [] ix.kind = "flat" -> ExtendFlat(E, dev)
             [] ix.kind = "rabitq" -> ExtendRabitq(E, dev)
  BY DEF Extend
<1>2. ix.kind \in {"flat", "rabitq", "pq"} /\ E \in Seq(Values)
  BY IvfAssumption DEF Extend
<1>3. ix # NoIndex
  BY <1>2 DEF NoIndex
<1>4. PICK x, C, lists, B : x = ix.x /\ C = ix.centroids /\ lists = ix.lists /\ B = ix.codebook
  OBVIOUS
<1>5. PICK more, y : more = Appended(lists, Len(x), HomesOf(E, C)) /\ y = x \o E
  OBVIOUS
<1>6. Trusted(ix.kind) => Right(ix)
  BY <1>3 DEF RightInv, RightIndex
<1>7. ASSUME Right(ix)
      PROVE  Clustered(x, C, lists) /\ Clustered(y, C, more) /\ Grown(y, x, E, C, lists, B)
  <2>1. Clustered(x, C, lists)
    BY <1>2, <1>4, <1>7 DEF Right
  <2>2. Grown(y, x, E, C, lists, B)
    BY <1>2, <1>5, <2>1, ClusteredMore
  <2> QED
    BY <1>5, <2>1, <2>2 DEF Grown
<1>8. ASSUME Right(ix), Ok(dev, "pairwise"), Ok(dev, "topk")
      PROVE  Labels(dev, E, C) = HomesOf(E, C)
  <2>1. C \in Seq(Values) /\ Len(C) > 0
    BY <1>7, <1>8 DEF Clustered
  <2> QED
    BY <1>2, <1>8, <2>1, LabelsAreHomes
<1>9. CASE ix.kind = "flat"
  <2>1. ix' = [ix EXCEPT !.x = @ \o E, !.lists = Appended(@, Rows(ix), Labels(dev, E, ix.centroids))]
    BY <1>1, <1>9 DEF ExtendFlat
  <2>2. CASE Trusted(ix.kind)
    <3>1. Right(ix) /\ "ignored" \notin Habits
      BY <1>6, <1>9, <2>2 DEF Trusted
    <3>2. Labels(dev, E, C) = HomesOf(E, C)
      BY <1>1, <1>8, <1>9, <3>1 DEF Usable, DropsStatus
    <3>3. ix = FlatIndex(x, C, lists)
      BY <1>4, <1>9, <3>1 DEF Right
    <3>6. ix' = [ix EXCEPT !.x = y, !.lists = more]
      BY <1>4, <1>5, <2>1, <3>2 DEF Rows
    <3>4. ix' = FlatIndex(y, C, more)
      BY <3>3, <3>6 DEF FlatIndex, Index
    <3>5. ix'.kind = "flat"
      BY <3>4 DEF FlatIndex, Index
    <3> QED
      BY <1>7, <3>1, <3>4, <3>5, RightOnes
  <2>3. CASE ~Trusted(ix.kind)
    <3>1. ix'.kind = "flat"
      <4>1. PICK a, b : ix' = [ix EXCEPT !.x = a, !.lists = b]
        BY <2>1
      <4> QED
        BY <1>9, <4>1
    <3> QED
      BY <1>9, <2>3, <3>1
  <2> QED
    BY <2>2, <2>3
<1>10. CASE ix.kind = "rabitq"
  <2>1. ix' = [ix EXCEPT !.x = @ \o E, !.assign = @ \o Labels(dev, E, ix.centroids),
                 !.lists = Appended(@, Rows(ix), Labels(dev, E, ix.centroids)),
                 !.codes = @ \o Residuals(E, Labels(dev, E, ix.centroids), ix.centroids)]
    BY <1>1, <1>10 DEF ExtendRabitq
  <2>2. CASE Trusted(ix.kind)
    <3>1. Right(ix) /\ "ignored" \notin Habits
      BY <1>6, <1>10, <2>2 DEF Trusted
    <3>2. Labels(dev, E, C) = HomesOf(E, C)
      BY <1>1, <1>8, <1>10, <3>1 DEF Usable, DropsStatus
    <3>3. ix = RabitqIndex(x, C, lists)
      BY <1>4, <1>10, <3>1 DEF Right
    <3>7. ix.assign = HomesOf(x, C) /\ ix.codes = Residuals(x, HomesOf(x, C), C)
      BY <3>3 DEF RabitqIndex, Index
    <3>8. PICK h, d : h = HomesOf(y, C) /\ d = Residuals(y, HomesOf(y, C), C)
      OBVIOUS
    <3>9. /\ ix.assign \o Labels(dev, E, ix.centroids) = h
          /\ ix.codes \o Residuals(E, Labels(dev, E, ix.centroids), ix.centroids) = d
      BY <1>4, <1>7, <3>1, <3>2, <3>7, <3>8 DEF Grown
    <3>10. ix' = [ix EXCEPT !.x = y, !.assign = h, !.lists = more, !.codes = d]
      BY <1>4, <1>5, <2>1, <3>2, <3>9 DEF Rows
    <3>4. ix' = Index("rabitq", y, C, <<>>, h, more, d)
      BY <3>3, <3>10 DEF RabitqIndex, Index
    <3>5. ix' = RabitqIndex(y, C, more)
      BY <3>4, <3>8 DEF RabitqIndex
    <3>6. ix'.kind = "rabitq"
      BY <3>4 DEF Index
    <3> QED
      BY <1>7, <3>1, <3>5, <3>6, RightOnes
  <2>3. CASE ~Trusted(ix.kind)
    <3>1. ix'.kind = "rabitq"
      <4>1. PICK a, b, c, d : ix' = [ix EXCEPT !.x = a, !.assign = b, !.lists = c, !.codes = d]
        BY <2>1
      <4> QED
        BY <1>10, <4>1
    <3> QED
      BY <1>10, <2>3, <3>1
  <2> QED
    BY <2>2, <2>3
<1>11. CASE ix.kind = "pq"
  <2>1. Right(ix)
    BY <1>6, <1>11 DEF Trusted
  <2>2. ExtendPq(E, dev)
    BY <1>1, <1>11
  <2>3. CASE ix' = ix
    BY <1>11, <2>1, <2>3
  <2>4. CASE ix' # ix
    <3>1. Trains(dev)
      BY <2>2, <2>4 DEF ExtendPq
    <3>2. Labels(dev, E, C) = HomesOf(E, C)
      BY <1>8, <2>1, <3>1 DEF Trains
    <3>3. ix = PqIndex("pq", x, C, B, lists) /\ B \in Seq(Int) \ {<<>>}
      BY <1>4, <1>11, <2>1 DEF Right
    <3>4. ix.assign = HomesOf(x, C) /\ ix.codes = Codes(x, HomesOf(x, C), C, B)
      BY <3>3 DEF PqIndex, Index
    <3>5. ix' = Index("pq", y, C, B, HomesOf(x, C) \o HomesOf(E, C), more,
                      Codes(x, HomesOf(x, C), C, B) \o Codes(E, HomesOf(E, C), C, B))
      BY <1>4, <1>5, <1>11, <2>2, <2>4, <3>2, <3>4 DEF ExtendPq, Rows
    <3>6. ix' = PqIndex("pq", y, C, B, more)
      BY <1>7, <2>1, <3>5 DEF PqIndex, Grown
    <3>7. ix'.kind = "pq"
      BY <3>5 DEF Index
    <3> QED
      BY <1>7, <2>1, <3>3, <3>6, <3>7, RightOnes
  <2> QED
    BY <2>3, <2>4
<1> QED
  BY <1>2, <1>9, <1>10, <1>11

\* What Serialize writes loads as the index it was given.
LEMMA FilesAreRight ==
  ASSUME NEW i, i.kind \in {"flat", "rabitq", "pq"},
         NEW f, f = CASE i.kind = "flat" -> FlatFile(i)
                      [] i.kind = "rabitq" -> RabitqFile(i)
                      [] i.kind = "pq" -> PqFile(i)
  PROVE  f.kind = i.kind /\ (Right(i) => Right(Whole(f)))
<1>1. CASE i.kind = "flat"
  <2>1. f.kind = "flat" /\ f.x = i.x /\ f.centroids = i.centroids /\ f.lists = i.lists
    BY <1>1 DEF FlatFile
  <2>2. Whole(f) = FlatIndex(i.x, i.centroids, i.lists)
    BY <2>1 DEF Whole, LoadFlat, FlatIndex
  <2>3. Right(i) => i = FlatIndex(i.x, i.centroids, i.lists)
    BY <1>1 DEF Right
  <2>4. Right(i) => Whole(f) = i
    BY <2>2, <2>3
  <2> QED
    BY <1>1, <2>1, <2>4
<1>2. CASE i.kind = "rabitq"
  <2>1. /\ f.kind = "rabitq" /\ f.x = i.x /\ f.centroids = i.centroids /\ f.lists = i.lists
        /\ f.codes = i.codes /\ f.assign = i.assign
    BY <1>2 DEF RabitqFile
  <2>2. Whole(f) = Index("rabitq", i.x, i.centroids, <<>>, i.assign, i.lists, i.codes)
    BY <2>1 DEF Whole, LoadRabitq
  <2>3. Right(i) => i = RabitqIndex(i.x, i.centroids, i.lists)
    BY <1>2 DEF Right
  <2>4. Right(i) => i.assign = HomesOf(i.x, i.centroids)
                    /\ i.codes = Residuals(i.x, HomesOf(i.x, i.centroids), i.centroids)
    <3>1. PICK x, C, lists : x = i.x /\ C = i.centroids /\ lists = i.lists
      OBVIOUS
    <3>2. Right(i) => i = RabitqIndex(x, C, lists)
      BY <2>3, <3>1
    <3>3. Right(i) => i.assign = HomesOf(x, C) /\ i.codes = Residuals(x, HomesOf(x, C), C)
      BY <3>2 DEF RabitqIndex, Index
    <3> QED
      BY <3>1, <3>3
  <2>5. Right(i) => Whole(f) = i
    BY <2>2, <2>3, <2>4 DEF RabitqIndex
  <2> QED
    BY <1>2, <2>1, <2>5
<1>3. CASE i.kind = "pq"
  <2>1. /\ f.kind = "pq" /\ f.x = i.x /\ f.centroids = i.centroids /\ f.lists = i.lists
        /\ f.codes = i.codes /\ f.assign = i.assign /\ f.codebook = i.codebook
    BY <1>3 DEF PqFile
  <2>2. Whole(f) = Index("pq", i.x, i.centroids, i.codebook, i.assign, i.lists, i.codes)
    BY <2>1 DEF Whole
  <2>3. Right(i) => i = PqIndex("pq", i.x, i.centroids, i.codebook, i.lists)
    BY <1>3 DEF Right
  <2>4. Right(i) => i.assign = HomesOf(i.x, i.centroids)
                    /\ i.codes = Codes(i.x, HomesOf(i.x, i.centroids), i.centroids, i.codebook)
    <3>1. PICK x, C, lists, B : x = i.x /\ C = i.centroids /\ lists = i.lists /\ B = i.codebook
      OBVIOUS
    <3>2. Right(i) => i = PqIndex("pq", x, C, B, lists)
      BY <2>3, <3>1
    <3>3. Right(i) => i.assign = HomesOf(x, C) /\ i.codes = Codes(x, HomesOf(x, C), C, B)
      BY <3>2 DEF PqIndex, Index
    <3> QED
      BY <3>1, <3>3
  <2>5. Right(i) => Whole(f) = i
    BY <2>2, <2>3, <2>4 DEF PqIndex
  <2> QED
    BY <1>3, <2>1, <2>5
<1> QED
  BY <1>1, <1>2, <1>3

\* A load makes nothing, or the index the file holds.
LEMMA LoadIsRight ==
  ASSUME RightInv, Deserialize
  PROVE  RightIndex'
<1>0. PICK loaded : loaded = CASE file = Cut -> NoIndex
                               [] file.kind = "flat" -> LoadFlat(file)
                               [] file.kind = "rabitq" -> LoadRabitq(file)
                               [] file.kind = "pq" -> LoadPq(file)
  OBVIOUS
<1>1. /\ loaded = CASE file = Cut -> NoIndex
                     [] file.kind = "flat" -> LoadFlat(file)
                     [] file.kind = "rabitq" -> LoadRabitq(file)
                     [] file.kind = "pq" -> LoadPq(file)
      /\ ix' = IF loaded = NoIndex THEN ix ELSE loaded
  BY <1>0 DEF Deserialize
<1>2. file # NoFile
  BY DEF Deserialize
<1>3. CASE ix' = ix
  BY <1>3 DEF RightInv, RightIndex
<1>4. CASE ix' # ix
  <2>1. ix' = loaded /\ loaded # NoIndex
    BY <1>1, <1>4
  <2>2. CASE file = Cut
    <3>1. file.kind = "cut"
      BY <2>2 DEF Cut
    <3>2. loaded = NoIndex
      BY <1>1, <2>2, <3>1
    <3> QED
      BY <2>1, <3>2
  <2>3. CASE file # Cut
    <3>1. file.kind \in {"flat", "rabitq", "pq"} /\ (Trusted(file.kind) => Right(Whole(file)))
      BY <1>2, <2>3 DEF RightInv, RightFile
    <3>2. CASE file.kind = "flat"
      <4>1. loaded = LoadFlat(file)
        BY <1>1, <2>3, <3>2
      <4> QED
        BY <2>1, <3>1, <3>2, <4>1 DEF Whole, LoadFlat, Index, RightIndex
    <3>3. CASE file.kind = "rabitq"
      <4>1. loaded = LoadRabitq(file)
        BY <1>1, <2>3, <3>3
      <4> QED
        BY <2>1, <3>1, <3>3, <4>1 DEF Whole, LoadRabitq, Index, RightIndex
    <3>4. CASE file.kind = "pq"
      <4>1. loaded = LoadPq(file)
        BY <1>1, <2>3, <3>4
      <4>2. loaded = Index("pq", file.x, file.centroids, file.codebook, file.assign, file.lists, file.codes)
        BY <2>1, <4>1 DEF LoadPq
      <4>3. loaded = Whole(file)
        BY <3>4, <4>2 DEF Whole
      <4>4. loaded.kind = "pq"
        BY <4>2 DEF Index
      <4> QED
        BY <2>1, <3>1, <3>4, <4>3, <4>4 DEF RightIndex
    <3> QED
      BY <3>1, <3>2, <3>3, <3>4
  <2> QED
    BY <2>2, <2>3
<1> QED
  BY <1>3, <1>4

\* Every index and file of a kind that drops no status is right, in every
\* state: after any build, extension, save and load, failed or not.
THEOREM IndexesAreRight == IvfSpec => []RightInv
<1>1. IvfInit => RightInv
  BY DEF IvfInit, RightInv, RightIndex, RightFile
<1>2. ASSUME RightInv, [IvfNext]_ivfVars PROVE RightInv'
  <2>1. CASE Build
    <3>1. file' = file
      BY <2>1 DEF Build
    <3>2. RightIndex'
      BY <2>1, BuildIsRight DEF RightIndex
    <3> QED
      BY <1>2, <3>1, <3>2 DEF RightInv, RightFile
  <2>2. CASE Extend
    <3>1. file' = file
      BY <2>2 DEF Extend
    <3>2. RightIndex'
      BY <1>2, <2>2, ExtendIsRight DEF RightIndex
    <3> QED
      BY <1>2, <3>1, <3>2 DEF RightInv, RightFile
  <2>3. CASE Serialize
    <3>1. ix' = ix /\ ix.kind \in {"flat", "rabitq", "pq"}
      BY <2>3 DEF Serialize
    <3>2. RightIndex'
      BY <1>2, <3>1 DEF RightInv, RightIndex
    <3>3. PICK f : f = CASE ix.kind = "flat" -> FlatFile(ix)
                         [] ix.kind = "rabitq" -> RabitqFile(ix)
                         [] ix.kind = "pq" -> PqFile(ix)
      OBVIOUS
    <3>4. file' = Cut \/ file' = f
      BY <2>3, <3>3 DEF Serialize
    <3>5. f.kind = ix.kind /\ (Right(ix) => Right(Whole(f)))
      BY <3>1, <3>3, FilesAreRight
    <3>6. ix # NoIndex
      BY <3>1 DEF NoIndex
    <3>7. Trusted(ix.kind) => Right(ix)
      BY <1>2, <3>6 DEF RightInv, RightIndex
    <3>8. RightFile'
      BY <3>1, <3>4, <3>5, <3>7 DEF RightFile
    <3> QED
      BY <3>2, <3>8 DEF RightInv
  <2>4. CASE Deserialize
    <3>1. file' = file
      BY <2>4 DEF Deserialize
    <3>2. RightIndex'
      BY <1>2, <2>4, LoadIsRight
    <3> QED
      BY <1>2, <3>1, <3>2 DEF RightInv, RightFile
  <2>5. CASE IvfSearch \/ Return \/ UNCHANGED ivfVars
    <3>1. ix' = ix /\ file' = file
      BY <2>5 DEF IvfSearch, Return, ivfVars
    <3> QED
      BY <1>2, <3>1 DEF RightInv, RightIndex, RightFile
  <2> QED
    BY <1>2, <2>1, <2>2, <2>3, <2>4, <2>5 DEF IvfNext
<1> QED
  BY <1>1, <1>2, PTL DEF IvfSpec

\* make_ivf_pq_packed: list c lies at its offset.
LEMMA PackedFacts ==
  ASSUME NEW n, NEW lists \in Seq(Seq(1 .. n)), NEW codes, NEW c \in 1 .. Len(lists)
  PROVE  /\ Packed(lists, codes).offsets[c] \in Nat
         /\ Packed(lists, codes).offsets[c + 1] - Packed(lists, codes).offsets[c] = Len(lists[c])
         /\ \A t \in 1 .. Len(lists[c]) :
              /\ Packed(lists, codes).ids[Packed(lists, codes).offsets[c] + t] = lists[c][t]
              /\ Packed(lists, codes).codes[Packed(lists, codes).offsets[c] + t] = codes[lists[c][t]]
<1>1. PICK p, ids, L : p = Packed(lists, codes) /\ ids = Cat(lists) /\ L = Len(lists)
  OBVIOUS
<1>2. L \in Nat /\ c \in 1 .. L + 1 /\ c + 1 \in 1 .. L + 1
  BY <1>1
<1>3. p.ids = ids /\ p.codes = [q \in DOMAIN ids |-> codes[ids[q]]]
      /\ p.offsets = [d \in 1 .. L + 1 |-> Off(lists, d)]
  BY <1>1 DEF Packed, Off
<1>4. /\ ids \in Seq(1 .. n) /\ Off(lists, c) \in Nat
      /\ Off(lists, c + 1) = Off(lists, c) + Len(lists[c])
  BY <1>1, <1>2, CatFacts
<1>5. Len(lists[c]) \in Nat
  OBVIOUS
<1>6. ASSUME NEW t \in 1 .. Len(lists[c])
      PROVE  Off(lists, c) + t \in DOMAIN ids /\ ids[Off(lists, c) + t] = lists[c][t]
  <2>1. Off(lists, c) + t \in 1 .. Len(ids) /\ ids[Off(lists, c) + t] = lists[c][t]
    BY <1>1, CatAt
  <2> QED
    BY <1>4, <2>1, SeqFacts
<1>7. p.offsets[c] = Off(lists, c) /\ p.offsets[c + 1] = Off(lists, c + 1)
  BY <1>2, <1>3
<1>8. p.offsets[c] \in Nat /\ p.offsets[c + 1] - p.offsets[c] = Len(lists[c])
  BY <1>4, <1>5, <1>7
<1>9. ASSUME NEW t \in 1 .. Len(lists[c])
      PROVE  p.ids[p.offsets[c] + t] = lists[c][t] /\ p.codes[p.offsets[c] + t] = codes[lists[c][t]]
  BY <1>3, <1>6, <1>7
<1> QED
  BY <1>1, <1>8, <1>9

\* What RowsLieInTheirLists asks of an index.
RowsLie(i) ==
  /\ \A r \in 1 .. Rows(i) : \A c \in 1 .. Lists(i) :
       Cardinality({t \in DOMAIN i.lists[c] : i.lists[c][t] = r}) =
         IF c = TopK([d \in DOMAIN i.centroids |->
                        Dist(i.x[r], i.centroids[d])], 1)[1] THEN 1 ELSE 0
  /\ i.kind \in {"pq", "scann"} =>
       \A c \in 1 .. Lists(i) : \A t \in 1 .. ListRows(i, c) :
         LET p == i.packed.offsets[c] + t
             r == i.lists[c][t] IN
         /\ i.packed.ids[p] = r
         /\ i.packed.codes[p] =
              pq_encode(i.x[r] - i.centroids[c], i.codebook)
  /\ i.kind = "rabitq" =>
       \A c \in 1 .. Lists(i) : \A t \in DOMAIN i.lists[c] :
         LET r == i.lists[c][t] IN i.codes[r] = i.x[r] - i.centroids[c]

\* A right index has its rows in their lists.
LEMMA RightRowsLie ==
  ASSUME NEW i, Right(i), i.kind # "brute"
  PROVE  RowsLie(i)
<1>1. PICK x, C, lists, B, home, n, L :
        /\ x = i.x /\ C = i.centroids /\ lists = i.lists /\ B = i.codebook
        /\ home = HomesOf(x, C) /\ n = Len(x) /\ L = Len(C)
  OBVIOUS
<1>2. Clustered(x, C, lists)
  BY <1>1 DEF Right
<1>3. x \in Seq(Values) /\ C \in Seq(Values) /\ L > 0 /\ Sorted(lists, home, n, L)
  BY <1>1, <1>2 DEF Clustered
<1>4. home \in [1 .. n -> 1 .. L] /\ n \in Nat /\ L \in Nat
  BY <1>1, <1>3, HomesFacts
<1>5. DOMAIN x = 1 .. n /\ \A r \in 1 .. n : home[r] = Home(C, x[r])
  BY <1>1, <1>3, SeqFacts DEF HomesOf
<1>6. \A c \in 1 .. L : Holds(lists[c], home, n, c)
  BY <1>3 DEF Sorted
<1>7. \A c \in 1 .. L : /\ lists[c] \in Seq(1 .. n) /\ DOMAIN lists[c] = 1 .. Len(lists[c])
                        /\ \A t \in 1 .. Len(lists[c]) : lists[c][t] \in 1 .. n
  BY <1>6, SeqFacts DEF Holds
<1>8. ASSUME NEW r \in 1 .. n, NEW c \in 1 .. L
      PROVE  Cardinality({t \in DOMAIN lists[c] : lists[c][t] = r}) =
               IF c = TopK([d \in DOMAIN C |-> Dist(x[r], C[d])], 1)[1] THEN 1 ELSE 0
  <2>1. PICK z, S : z = lists[c] /\ S = {t \in DOMAIN z : z[t] = r}
    OBVIOUS
  <2>2. Holds(z, home, n, c) /\ DOMAIN z = 1 .. Len(z)
    BY <1>6, <1>7, <2>1
  <2>3. home[r] = TopK([d \in DOMAIN C |-> Dist(x[r], C[d])], 1)[1]
    BY <1>5 DEF Home
  <2>4. CASE home[r] = c
    <3>1. PICK t \in 1 .. Len(z) : z[t] = r
      BY <2>2, <2>4 DEF Holds
    <3>2. \A u \in 1 .. Len(z) : z[u] = r => u = t
      BY <2>2, <3>1 DEF Holds
    <3>3. S = {t}
      BY <2>1, <2>2, <3>1, <3>2
    <3>4. Cardinality(S) = 1
      BY <3>3, FS_Singleton
    <3> QED
      BY <2>1, <2>3, <2>4, <3>4
  <2>5. CASE home[r] # c
    <3>1. S = {}
      BY <2>1, <2>2, <2>5 DEF Holds
    <3>2. Cardinality(S) = 0
      BY <3>1, FS_EmptySet
    <3> QED
      BY <2>1, <2>3, <2>5, <3>2
  <2> QED
    BY <2>4, <2>5
<1>9. ASSUME i.kind \in {"pq", "scann"}, NEW c \in 1 .. L, NEW t \in 1 .. ListRows(i, c)
      PROVE  /\ i.packed.ids[i.packed.offsets[c] + t] = lists[c][t]
             /\ i.packed.codes[i.packed.offsets[c] + t] = pq_encode(x[lists[c][t]] - C[c], B)
  <2>1. i = PqIndex(i.kind, x, C, B, lists)
    BY <1>1, <1>9 DEF Right
  <2>2. PICK codes : codes = Codes(x, home, C, B)
    OBVIOUS
  <2>3. i.packed = Packed(lists, codes)
    BY <1>1, <1>9, <2>1, <2>2 DEF PqIndex, Index
  <2>4. lists \in Seq(Seq(1 .. n)) /\ Len(lists) = L
    BY <1>3, <1>4 DEF Sorted
  <2>5. t \in 1 .. Len(lists[c])
    <3>1. c \in 1 .. Len(lists)
      BY <2>4
    <3>2. Packed(lists, codes).offsets[c + 1] - Packed(lists, codes).offsets[c] = Len(lists[c])
      BY <2>4, <3>1, PackedFacts, SMTT(30)
    <3>3. ListRows(i, c) = Len(lists[c])
      BY <2>3, <3>2 DEF ListRows
    <3> QED
      BY <3>3
  <2>6. /\ i.packed.ids[i.packed.offsets[c] + t] = lists[c][t]
        /\ i.packed.codes[i.packed.offsets[c] + t] = codes[lists[c][t]]
    <3>1. PICK P : P = Packed(lists, codes)
      OBVIOUS
    <3>2. \A v \in 1 .. Len(lists[c]) :
            P.ids[P.offsets[c] + v] = lists[c][v] /\ P.codes[P.offsets[c] + v] = codes[lists[c][v]]
      BY <2>4, <3>1, PackedFacts, SMTT(30)
    <3>3. P.ids[P.offsets[c] + t] = lists[c][t] /\ P.codes[P.offsets[c] + t] = codes[lists[c][t]]
      BY <2>5, <3>2
    <3>4. i.packed = P
      BY <2>3, <3>1
    <3> QED
      BY <3>3, <3>4
  <2>7. PICK r : r = lists[c][t]
    OBVIOUS
  <2>8. r \in 1 .. n /\ home[r] = c
    BY <1>6, <1>7, <2>5, <2>7 DEF Holds
  <2>9. codes[r] = pq_encode(x[r] - C[home[r]], B)
    BY <1>5, <2>2, <2>8 DEF Codes
  <2> QED
    BY <2>6, <2>7, <2>8, <2>9
<1>10. ASSUME i.kind = "rabitq", NEW c \in 1 .. L, NEW t \in DOMAIN lists[c]
       PROVE  i.codes[lists[c][t]] = x[lists[c][t]] - C[c]
  <2>1. i = RabitqIndex(x, C, lists)
    BY <1>1, <1>10 DEF Right
  <2>2. i.codes = Residuals(x, home, C)
    BY <1>1, <2>1 DEF RabitqIndex, Index
  <2>3. PICK r : r = lists[c][t]
    OBVIOUS
  <2>4. r \in 1 .. n /\ home[r] = c
    BY <1>6, <1>7, <1>10, <2>3 DEF Holds
  <2>5. i.codes[r] = x[r] - C[home[r]]
    BY <1>5, <2>2, <2>4 DEF Residuals
  <2> QED
    BY <2>3, <2>4, <2>5
<1> QED
  BY <1>1, <1>8, <1>9, <1>10, SMTT(30) DEF RowsLie, Rows, Lists

\* Where no caller runs primitives that fail on a kind that drops their status,
\* every row lies in one list, that of its nearest centroid, and the packed
\* lists and codes of a PQ index are those of the rows.
THEOREM EveryRowInItsList ==
  "ignored" \notin Habits => (IvfSpec => []RowsLieInTheirLists)
<1>1. SUFFICES ASSUME "ignored" \notin Habits PROVE IvfSpec => []RowsLieInTheirLists
  OBVIOUS
<1>2. RightInv => RowsLieInTheirLists
  <2>1. SUFFICES ASSUME RightInv, ix.kind \in {"flat", "rabitq", "pq", "scann"}
                 PROVE  RowsLie(ix)
    BY DEF RowsLieInTheirLists, RowsLie
  <2>2. ix # NoIndex
    BY <2>1 DEF NoIndex
  <2>3. Right(ix)
    BY <1>1, <2>1, <2>2 DEF RightInv, RightIndex, Trusted
  <2> QED
    BY <2>1, <2>3, RightRowsLie
<1> QED
  BY <1>2, IndexesAreRight, PTL

-----------------------------------------------------------------------------
(* Enumerations and parts.                                                 *)

\* g counts the members of S upwards, from 1 to n.
Counts(g, n, S) ==
  /\ g \in [1 .. n -> S]
  /\ \A t, u \in 1 .. n : t < u => g[t] < g[u]
  /\ \A i \in S : \E t \in 1 .. n : g[t] = i

\* Two such countings are the same as far as both go.
LEMMA CountsAgree ==
  ASSUME NEW S, S \subseteq Int, NEW n \in Nat, NEW g, NEW h, Counts(g, n, S), Counts(h, n, S)
  PROVE  g = h
<1>1. PICK T : T = {t \in 1 .. n : g[t] # h[t]}
  OBVIOUS
<1>2. ASSUME T # {} PROVE FALSE
  <2>1. T \subseteq Nat
    BY <1>1
  <2>2. PICK t \in T : \A u \in T : t <= u
    BY <1>2, <2>1, LeastPlace
  <2>3. t \in 1 .. n /\ g[t] # h[t] /\ t \in Int
    BY <1>1, <2>2
  <2>4. \A u \in 1 .. n : u < t => g[u] = h[u]
    <3>1. ASSUME NEW u \in 1 .. n, u < t PROVE u \notin T
      BY <2>2, <2>3, <3>1
    <3> QED
      BY <1>1, <3>1
  <2>5. g[t] \in S /\ h[t] \in S /\ g[t] \in Int /\ h[t] \in Int
    BY <2>3 DEF Counts
  <2>6. ASSUME NEW a, NEW b, Counts(a, n, S), Counts(b, n, S), a[t] < b[t],
               \A u \in 1 .. n : u < t => a[u] = b[u]
        PROVE  FALSE
    <3>1. a[t] \in S /\ b[t] \in S /\ a[t] \in Int /\ b[t] \in Int
      BY <2>3, <2>6 DEF Counts
    <3>2. PICK v \in 1 .. n : b[v] = a[t]
      BY <2>6, <3>1 DEF Counts
    <3>3. v \in Int
      OBVIOUS
    <3>4. ~(t < v)
      <4>1. ASSUME t < v PROVE FALSE
        <5>1. b[t] < b[v]
          BY <2>3, <2>6, <4>1 DEF Counts
        <5> QED
          BY <2>6, <3>1, <3>2, <5>1
      <4> QED
        BY <4>1
    <3>5. t # v
      BY <2>6, <3>1, <3>2
    <3>6. v < t
      BY <2>3, <3>3, <3>4, <3>5
    <3>7. a[v] = b[v] /\ a[v] < a[t]
      BY <2>3, <2>6, <3>6 DEF Counts
    <3> QED
      BY <3>1, <3>2, <3>7
  <2>7. CASE g[t] < h[t]
    BY <2>4, <2>6, <2>7
  <2>8. CASE h[t] < g[t]
    BY <2>4, <2>6, <2>8
  <2> QED
    BY <2>3, <2>5, <2>7, <2>8
<1>3. \A t \in 1 .. n : g[t] = h[t]
  BY <1>1, <1>2
<1>4. g = [t \in 1 .. n |-> g[t]] /\ h = [t \in 1 .. n |-> h[t]]
  BY DEF Counts
<1> QED
  BY <1>3, <1>4

\* A set that is counted is finite, and Ascending is the counting.
LEMMA AscendingIs ==
  ASSUME NEW S, S \subseteq Int, NEW n \in Nat, NEW g, Counts(g, n, S)
  PROVE  IsFiniteSet(S) /\ Cardinality(S) = n /\ Ascending(S) = g
<1>1. ASSUME NEW t \in 1 .. n, NEW u \in 1 .. n, g[t] = g[u] PROVE t = u
  <2>1. t \in Int /\ u \in Int /\ g[t] \in Int /\ g[u] \in Int
    <3>1. g[t] \in S /\ g[u] \in S
      BY DEF Counts
    <3>2. t \in Int /\ u \in Int
      OBVIOUS
    <3>3. \A i \in S : i \in Int
      OBVIOUS
    <3> QED
      BY <3>1, <3>2, <3>3
  <2>2. ~(t < u) /\ ~(u < t)
    BY <1>1, <2>1 DEF Counts
  <2> QED
    BY <2>1, <2>2
<1>2. g \in Bijection(1 .. n, S)
  <2>1. g \in [1 .. n -> S] /\ \A i \in S : \E t \in 1 .. n : g[t] = i
    BY DEF Counts
  <2>2. g \in Injection(1 .. n, S)
    BY <1>1, <2>1 DEF Injection, IsInjective
  <2>3. g \in Surjection(1 .. n, S)
    BY <2>1 DEF Surjection
  <2> QED
    BY <2>2, <2>3 DEF Bijection
<1>3. ExistsBijection(1 .. n, S)
  BY <1>2 DEF ExistsBijection
<1>4. IsFiniteSet(1 .. n) /\ Cardinality(1 .. n) = n
  BY FS_Interval
<1>5. IsFiniteSet(S) /\ Cardinality(S) = n
  BY <1>3, <1>4, FS_Bijection
<1>6. Counts(Ascending(S), n, S)
  BY <1>5, AscendingFacts DEF Counts
<1>7. Ascending(S) = g
  BY <1>6, CountsAgree
<1> QED
  BY <1>5, <1>7

\* And Ascending counts every finite set.
LEMMA AscendingCounts ==
  ASSUME NEW S, S \subseteq Int, IsFiniteSet(S)
  PROVE  Cardinality(S) \in Nat /\ Counts(Ascending(S), Cardinality(S), S)
BY AscendingFacts DEF Counts

\* The numbers after b, up to b + n.
LEMMA AscendingInterval ==
  ASSUME NEW b \in Int, NEW n \in Nat
  PROVE  /\ Cardinality(b + 1 .. b + n) = n
         /\ Ascending(b + 1 .. b + n) = [t \in 1 .. n |-> b + t]
<1>1. PICK S, g : S = b + 1 .. b + n /\ g = [t \in 1 .. n |-> b + t]
  OBVIOUS
<1>2. g \in [1 .. n -> S] /\ \A t, u \in 1 .. n : t < u => g[t] < g[u]
  BY <1>1
<1>3. ASSUME NEW i \in S PROVE \E t \in 1 .. n : g[t] = i
  <2>1. PICK t : t = i - b
    OBVIOUS
  <2>2. t \in 1 .. n /\ b + t = i
    BY <1>1, <2>1
  <2> QED
    BY <1>1, <2>2
<1>4. Counts(g, n, S) /\ S \subseteq Int
  BY <1>1, <1>2, <1>3 DEF Counts
<1>5. Cardinality(S) = n /\ Ascending(S) = g
  BY <1>4, AscendingIs
<1> QED
  BY <1>1, <1>5

\* part holds the parts of ss after lo, up to hi.
Between(part, A, ss, lo, hi) ==
  /\ part \in Seq(Seq(A)) /\ Len(part) = hi - lo
  /\ \A t \in 1 .. hi - lo : part[t] = ss[lo + t]

LEMMA BetweenSubSeq ==
  ASSUME NEW A, NEW ss \in Seq(Seq(A)), NEW lo \in 0 .. Len(ss), NEW hi \in lo .. Len(ss)
  PROVE  Between(SubSeq(ss, lo + 1, hi), A, ss, lo, hi)
<1>1. Len(ss) \in Nat /\ lo \in Nat /\ hi \in Nat
  OBVIOUS
<1> QED
  BY <1>1, SMTT(30) DEF Between

\* Where neighbouring parts of Cat(ss) lie.
Placement(part, ss, lo, hi) ==
  /\ \A t \in 1 .. hi - lo + 1 : Off(ss, lo + t) = Off(ss, lo + 1) + Off(part, t)
  /\ Off(ss, hi + 1) = Off(ss, lo + 1) + Len(Cat(part))
  /\ \A v \in 1 .. Len(Cat(part)) : Cat(ss)[Off(ss, lo + 1) + v] = Cat(part)[v]

\* Neighbouring parts of Cat(ss) are what they are on their own.
LEMMA CatPart ==
  ASSUME NEW A, NEW ss \in Seq(Seq(A)), NEW lo \in 0 .. Len(ss), NEW hi \in lo .. Len(ss),
         NEW part, Between(part, A, ss, lo, hi)
  PROVE  Placement(part, ss, lo, hi)
<1>1. Len(ss) \in Nat /\ lo \in Nat /\ hi \in Nat
  OBVIOUS
<1>2. part \in Seq(Seq(A)) /\ Len(part) = hi - lo /\ \A t \in 1 .. hi - lo : part[t] = ss[lo + t]
  BY DEF Between
<1>3. PICK L, n : L = Len(ss) /\ n = hi - lo
  OBVIOUS
<1>4. L \in Nat /\ n \in Nat /\ lo + n = hi /\ hi \in 0 .. L
  BY <1>1, <1>3
<1>20. PICK os, op : os = [t \in 1 .. L + 1 |-> Off(ss, t)] /\ op = [t \in 1 .. n + 1 |-> Off(part, t)]
  OBVIOUS
<1>21. /\ \A t \in 1 .. L + 1 : os[t] \in Nat
       /\ \A t \in 1 .. L : os[t + 1] = os[t] + Len(ss[t])
  <2>1. \A t \in 1 .. L : t \in 1 .. L + 1 /\ t + 1 \in 1 .. L + 1
    BY <1>4
  <2> QED
    BY <1>3, <1>20, <2>1, CatFacts
<1>22. /\ \A t \in 1 .. n + 1 : op[t] \in Nat
       /\ \A t \in 1 .. n : op[t + 1] = op[t] + Len(part[t])
       /\ op[1] = 0 /\ op[n + 1] = Len(Cat(part))
  <2>1. \A t \in 1 .. n : t \in 1 .. n + 1 /\ t + 1 \in 1 .. n + 1
    BY <1>4
  <2>2. 1 \in 1 .. n + 1 /\ n + 1 \in 1 .. n + 1 /\ Len(part) = n
    BY <1>2, <1>3, <1>4
  <2> QED
    BY <1>2, <1>20, <2>1, <2>2, CatFacts
<1>23. \A t \in 1 .. n : ss[lo + t] = part[t] /\ Len(part[t]) \in Nat
  BY SMTT(30), <1>2, <1>3
<1>24. \A t \in 1 .. n : t \in 1 .. n + 1 /\ lo + t \in 1 .. L /\ lo + 1 \in 1 .. L + 1 /\ lo + t \in 1 .. L + 1
  BY <1>1, <1>4
<1>5. PICK T : T = {t \in 1 .. n + 1 : os[lo + t] = os[lo + 1] + op[t]}
  OBVIOUS
<1>6. 1 \in T
  <2>1. op[1] = 0 /\ os[lo + 1] \in Nat
    BY <1>1, <1>4, <1>21, <1>22
  <2> QED
    BY <1>4, <1>5, <2>1
<1>7. ASSUME NEW t \in 1 + 1 .. n + 1, t - 1 \in T PROVE t \in T
  <2>1. PICK u : u = t - 1
    OBVIOUS
  <2>2. /\ u \in 1 .. n /\ u + 1 = t /\ t \in 1 .. n + 1 /\ lo + u \in 1 .. L
        /\ (lo + u) + 1 = lo + t /\ lo + u \in 1 .. L + 1 /\ u \in 1 .. n + 1 /\ lo + 1 \in 1 .. L + 1
    BY <1>1, <1>4, <2>1
  <2>3. op[t] = op[u] + Len(part[u]) /\ op[u] \in Nat
    BY <1>22, <2>2
  <2>4. os[lo + t] = os[lo + u] + Len(ss[lo + u]) /\ os[lo + 1] \in Nat
    BY <1>21, <2>2
  <2>5. Len(ss[lo + u]) = Len(part[u]) /\ Len(part[u]) \in Nat
    BY <1>23, <2>2
  <2>6. os[lo + u] = os[lo + 1] + op[u]
    BY <1>5, <1>7, <2>1
  <2>7. os[lo + t] = os[lo + 1] + op[t]
    BY SMTT(30), <2>3, <2>4, <2>5, <2>6
  <2> QED
    BY <1>5, <2>2, <2>7
<1>8. \A t \in 1 .. n + 1 : t \in T
  <2>1. 1 \in Int /\ n + 1 \in Int
    BY <1>4
  <2> QED
    BY <2>1, <1>6, <1>7, Climb
<1>9. \A t \in 1 .. n + 1 : Off(ss, lo + t) = Off(ss, lo + 1) + Off(part, t)
  <2>1. \A t \in 1 .. n + 1 : lo + t \in 1 .. L + 1
    BY <1>1, <1>4
  <2>2. 1 \in 1 .. n + 1
    BY <1>4
  <2> QED
    BY <1>5, <1>8, <1>20, <2>1, <2>2
<1>10. Off(ss, hi + 1) = Off(ss, lo + 1) + Len(Cat(part))
  <2>1. n + 1 \in 1 .. n + 1 /\ lo + (n + 1) = hi + 1
    BY <1>1, <1>4
  <2>2. Off(part, n + 1) = Len(Cat(part))
    BY <1>20, <1>22, <2>1
  <2> QED
    BY <1>9, <2>1, <2>2
<1>11. ASSUME NEW v \in 1 .. Len(Cat(part)) PROVE Cat(ss)[Off(ss, lo + 1) + v] = Cat(part)[v]
  <2>1. PICK t \in 1 .. Len(part) : \E j \in 1 .. Len(part[t]) : v = Off(part, t) + j
    <3>1. Lies(part, v)
      BY <1>2, CatLies
    <3> QED
      BY <3>1 DEF Lies
  <2>2. PICK j \in 1 .. Len(part[t]) : v = Off(part, t) + j
    BY <2>1
  <2>10. Len(part) = n
    BY <1>2, <1>3
  <2>3. t \in 1 .. n /\ t \in 1 .. n + 1 /\ lo + t \in 1 .. L /\ lo + 1 \in 1 .. L + 1 /\ lo + t \in 1 .. L + 1
    BY <1>24, <2>10
  <2>4. Cat(part)[Off(part, t) + j] = part[t][j]
    BY ZenonT(40), <1>2, CatAt
  <2>5. part[t] = ss[lo + t]
    BY <1>23, <2>3
  <2>6. Cat(ss)[Off(ss, lo + t) + j] = ss[lo + t][j]
    <3>1. j \in 1 .. Len(ss[lo + t]) /\ lo + t \in 1 .. Len(ss)
      BY <1>3, <2>3, <2>5
    <3> QED
      BY <1>3, <3>1, CatAt
  <2>7. Off(part, t) \in Nat /\ Off(ss, lo + 1) \in Nat
    BY <1>20, <1>21, <1>22, <2>3
  <2>8. j \in Int
    BY <2>7
  <2>9. Off(ss, lo + 1) + v = Off(ss, lo + t) + j
    BY SMTT(30), <1>9, <2>2, <2>3, <2>7, <2>8
  <2> QED
    BY <2>2, <2>4, <2>5, <2>6, <2>9
<1> QED
  BY <1>3, <1>9, <1>10, <1>11 DEF Placement

-----------------------------------------------------------------------------
(* The plans of a block.                                                   *)

\* Plans one after another, before and after they are given offsets.
Adjoining(plans, kept) ==
  /\ Len(plans) = Len(kept) /\ DOMAIN plans = 1 .. Len(kept)
  /\ \A t \in 1 .. Len(kept) :
       /\ plans[t].query = kept[t].query /\ plans[t].cluster = kept[t].cluster
       /\ plans[t].rows = kept[t].rows /\ plans[t].offset \in Nat
  /\ 1 \in 1 .. Len(kept) => plans[1].offset = 0
  /\ \A t \in 1 .. Len(kept) - 1 : plans[t + 1].offset = plans[t].offset + plans[t].rows

LEMMA PlacedFacts ==
  ASSUME NEW P, \A p \in P : p.rows \in Nat, NEW kept \in Seq(P)
  PROVE  Adjoining(Placed(kept), kept)
<1>1. PICK n : n = Len(kept)
  OBVIOUS
<1>2. n \in Nat /\ DOMAIN kept = 1 .. n /\ \A t \in 1 .. n : kept[t] \in P /\ kept[t].rows \in Nat
  BY <1>1, SeqFacts
<1>3. PICK V, J : V = Nat /\ J = 1 + 1 .. n + 1
  OBVIOUS
<1>4. PICK G : G = [t \in J |-> [z \in V |-> z + kept[t - 1].rows]]
  OBVIOUS
<1>5. Steps(1, n + 1, V, 0, J, G)
  <2>1. G \in [J -> [V -> V]]
    <3>1. \A t \in J : t - 1 \in 1 .. n
      BY <1>2, <1>3
    <3>2. \A t \in J : kept[t - 1].rows \in Nat
      BY <1>2, <3>1
    <3>3. \A t \in J : \A z \in V : z + kept[t - 1].rows \in V
      BY <1>3, <3>2
    <3> QED
      BY <1>4, <3>3
  <2>2. 1 \in Int /\ n + 1 \in Int /\ 1 <= n + 1 /\ 0 \in V
    BY <1>2, <1>3
  <2>3. J = 1 + 1 .. n + 1
    BY <1>3
  <2> QED
    BY <2>1, <2>2, <2>3, Recursion
<1>6. PICK g \in [1 .. n + 1 -> V] : g[1] = 0 /\ \A t \in J : g[t] = G[t][g[t - 1]]
  BY <1>5 DEF Steps
<1>7. ASSUME NEW t \in 1 .. n + 1, t # 1 PROVE g[t] = g[t - 1] + kept[t - 1].rows
  <2>1. t \in J /\ t - 1 \in 1 .. n + 1
    BY <1>2, <1>3, <1>7
  <2>2. g[t] = G[t][g[t - 1]] /\ g[t - 1] \in V
    BY <1>6, <2>1
  <2> QED
    BY <1>4, <2>1, <2>2
<1> DEFINE Def(fun) == fun = [t \in 1 .. n + 1 |-> IF t = 1 THEN 0 ELSE fun[t - 1] + kept[t - 1].rows]
<1>8. Def(g)
  <2>1. \A t \in 1 .. n + 1 : g[t] = IF t = 1 THEN 0 ELSE g[t - 1] + kept[t - 1].rows
    BY <1>6, <1>7
  <2> QED
    BY <1>6, <2>1
<1>9. PICK f : f = CHOOSE fun : Def(fun)
  OBVIOUS
<1>10. Def(f)
  BY <1>8, <1>9
<1>11. Placed(kept) = [t \in 1 .. n |-> [query |-> kept[t].query, cluster |-> kept[t].cluster,
                                          rows |-> kept[t].rows, offset |-> f[t]]]
  BY <1>1, <1>2, <1>9 DEF Placed
<1>12. f[1] = 0 /\ \A t \in 1 .. n : f[t + 1] = f[t] + kept[t].rows
  <2>1. \A t \in 1 .. n + 1 : f[t] = IF t = 1 THEN 0 ELSE f[t - 1] + kept[t - 1].rows
    BY <1>10
  <2> HIDE DEF Def
  <2>2. 1 \in 1 .. n + 1
    BY <1>2
  <2>3. \A t \in 1 .. n : t + 1 \in 1 .. n + 1 /\ t + 1 # 1 /\ (t + 1) - 1 = t
    BY <1>2
  <2> QED
    BY <2>1, <2>2, <2>3
<1> HIDE DEF Def
<1>13. PICK T : T = {t \in 1 .. n + 1 : f[t] \in Nat}
  OBVIOUS
<1>14. \A t \in 1 .. n + 1 : t \in T
  <2>1. 1 \in T
    BY <1>2, <1>12, <1>13
  <2>2. ASSUME NEW t \in 1 + 1 .. n + 1, t - 1 \in T PROVE t \in T
    <3>1. PICK u : u = t - 1
      OBVIOUS
    <3>2. u \in 1 .. n /\ u + 1 = t /\ t \in 1 .. n + 1
      BY <1>2, <3>1
    <3>3. f[u] \in Nat
      BY <1>13, <2>2, <3>1
    <3>4. f[t] = f[u] + kept[u].rows /\ kept[u].rows \in Nat
      BY <1>2, <1>12, <3>2
    <3> QED
      BY <1>13, <3>2, <3>3, <3>4
  <2>3. 1 \in Int /\ n + 1 \in Int
    BY <1>2
  <2> QED
    BY <2>1, <2>2, <2>3, Climb
<1>15. PICK plans : plans = Placed(kept)
  OBVIOUS
<1>16. /\ DOMAIN plans = 1 .. n /\ Len(plans) = n
       /\ \A t \in 1 .. n : plans[t] = [query |-> kept[t].query, cluster |-> kept[t].cluster,
                                        rows |-> kept[t].rows, offset |-> f[t]]
  BY <1>2, <1>11, <1>15
<1>17. \A t \in 1 .. n : t \in 1 .. n + 1 /\ f[t] \in Nat
  BY <1>2, <1>13, <1>14
<1>18. \A t \in 1 .. n - 1 : t \in 1 .. n /\ t + 1 \in 1 .. n
  BY <1>2
<1>19. ASSUME NEW t \in 1 .. n - 1
       PROVE  plans[t + 1].offset = plans[t].offset + plans[t].rows
  <2>1. t \in 1 .. n /\ t + 1 \in 1 .. n
    BY <1>18
  <2>2. PICK u : u = t + 1
    OBVIOUS
  <2>3. plans[u].offset = f[u] /\ plans[t].offset = f[t] /\ plans[t].rows = kept[t].rows
    BY <1>16, <2>1, <2>2
  <2>4. f[u] = f[t] + kept[t].rows
    BY <1>12, <2>1, <2>2
  <2> QED
    BY <2>2, <2>3, <2>4
<1> QED
  BY <1>1, <1>12, <1>15, <1>16, <1>17, <1>19 DEF Adjoining

\* What a sequence holds at some places.
LEMMA AtFacts ==
  ASSUME NEW A, NEW s \in Seq(A), NEW S \in SUBSET DOMAIN s
  PROVE  /\ IsFiniteSet(S) /\ S \subseteq Int /\ Cardinality(S) \in Nat
         /\ Counts(Ascending(S), Cardinality(S), S)
         /\ At(s, S) \in Seq(A) /\ Len(At(s, S)) = Cardinality(S)
         /\ DOMAIN At(s, S) = 1 .. Cardinality(S)
         /\ \A t \in 1 .. Cardinality(S) : At(s, S)[t] = s[Ascending(S)[t]]
<1>1. Len(s) \in Nat /\ DOMAIN s = 1 .. Len(s) /\ \A t \in 1 .. Len(s) : s[t] \in A
  BY SeqFacts
<1>2. IsFiniteSet(1 .. Len(s)) /\ 1 .. Len(s) \subseteq Int
  BY <1>1, FS_Interval
<1>3. IsFiniteSet(S) /\ S \subseteq Int
  BY <1>1, <1>2, FS_Subset
<1>4. PICK k, a : k = Cardinality(S) /\ a = Ascending(S)
  OBVIOUS
<1>5. k \in Nat /\ Counts(a, k, S)
  BY <1>3, <1>4, AscendingCounts
<1>6. a \in [1 .. k -> S]
  BY <1>5 DEF Counts
<1>7. At(s, S) = [t \in 1 .. k |-> s[a[t]]]
  BY <1>4, <1>6 DEF At
<1>8. \A t \in 1 .. k : s[a[t]] \in A
  BY <1>1, <1>6
<1>9. At(s, S) \in Seq(A) /\ Len(At(s, S)) = k /\ DOMAIN At(s, S) = 1 .. k
  BY <1>5, <1>7, <1>8
<1> QED
  BY <1>3, <1>4, <1>5, <1>7, <1>9

\* The lists a query probes that have candidates for it.
KeptOf(i, s, probes) == At(probes, {t \in DOMAIN probes : Accepted(i, s, probes[t]) > 0})

\* The plans of query q lie one behind the other, in the order of its probes.
PlansOfQuery(plans, q, K) ==
  LET T == {t \in DOMAIN plans : plans[t].query = q} IN
  /\ Cardinality(T) = Len(K)
  /\ \A j \in 1 .. Len(K) : plans[Ascending(T)[j]].cluster = K[j]

\* The plans of the queries b to e of a batch, and where they begin.
Laid(plans, i, s, cl, b, e, L) ==
  /\ Len(plans) \in Nat /\ DOMAIN plans = 1 .. Len(plans)
  /\ \A t \in 1 .. Len(plans) :
       /\ plans[t].query \in b .. e /\ plans[t].cluster \in 1 .. L
       /\ plans[t].rows = Accepted(i, s, plans[t].cluster)
       /\ plans[t].rows \in Nat /\ plans[t].rows > 0 /\ plans[t].offset \in Nat
  /\ \A t, u \in 1 .. Len(plans) : t < u => plans[t].query <= plans[u].query
  /\ 1 \in 1 .. Len(plans) => plans[1].offset = 0
  /\ \A t \in 1 .. Len(plans) - 1 : plans[t + 1].offset = plans[t].offset + plans[t].rows
  /\ \A q \in b .. e : PlansOfQuery(plans, q, KeptOf(i, s, cl[q]))

\* All plans of a block, empty ones too, query after query.
AllPlans(i, s, cl, b, e) ==
  [u \in 1 .. e - b + 1 |->
    [t \in DOMAIN cl[b + u - 1] |-> Plan(i, s, b + u - 1, cl[b + u - 1][t])]]

\* What they are.
AllLaid(pp, P, i, s, cl, b, e, L) ==
  /\ P = [query : b .. e, cluster : 1 .. L, rows : Nat]
  /\ pp \in Seq(Seq(P)) /\ Len(pp) = e - b + 1
  /\ \A u \in 1 .. e - b + 1 :
       /\ cl[b + u - 1] \in Seq(1 .. L)
       /\ Len(pp[u]) = Len(cl[b + u - 1]) /\ DOMAIN cl[b + u - 1] = 1 .. Len(pp[u])
       /\ \A t \in 1 .. Len(pp[u]) :
            /\ cl[b + u - 1][t] \in 1 .. L
            /\ pp[u][t].query = b + u - 1 /\ pp[u][t].cluster = cl[b + u - 1][t]
            /\ pp[u][t].rows = Accepted(i, s, cl[b + u - 1][t])

LEMMA AllPlansFacts ==
  ASSUME NEW i, NEW s, NEW L \in Nat, NEW N \in Nat, NEW cl \in [1 .. N -> Seq(1 .. L)],
         NEW b \in 1 .. N, NEW e \in b .. N,
         \A c \in 1 .. L : Accepted(i, s, c) \in Nat
  PROVE  AllLaid(AllPlans(i, s, cl, b, e), [query : b .. e, cluster : 1 .. L, rows : Nat],
                 i, s, cl, b, e, L)
<1>1. PICK P, pp, m : /\ P = [query : b .. e, cluster : 1 .. L, rows : Nat]
                      /\ pp = AllPlans(i, s, cl, b, e) /\ m = e - b + 1
  OBVIOUS
<1>2. m \in Nat /\ \A u \in 1 .. m : b + u - 1 \in b .. e /\ b + u - 1 \in 1 .. N
  BY <1>1
<1>3. pp = [u \in 1 .. m |->
             [t \in DOMAIN cl[b + u - 1] |-> Plan(i, s, b + u - 1, cl[b + u - 1][t])]]
  BY <1>1 DEF AllPlans
<1>4. ASSUME NEW u \in 1 .. m
      PROVE  /\ pp[u] \in Seq(P) /\ cl[b + u - 1] \in Seq(1 .. L)
             /\ Len(pp[u]) = Len(cl[b + u - 1]) /\ DOMAIN cl[b + u - 1] = 1 .. Len(pp[u])
             /\ \A t \in 1 .. Len(pp[u]) :
                  /\ cl[b + u - 1][t] \in 1 .. L
                  /\ pp[u][t].query = b + u - 1 /\ pp[u][t].cluster = cl[b + u - 1][t]
                  /\ pp[u][t].rows = Accepted(i, s, cl[b + u - 1][t])
  <2>1. PICK q, c1, z : q = b + u - 1 /\ c1 = cl[q] /\ z = pp[u]
    OBVIOUS
  <2>2. q \in b .. e /\ c1 \in Seq(1 .. L)
    BY <1>2, <2>1
  <2>3. Len(c1) \in Nat /\ DOMAIN c1 = 1 .. Len(c1) /\ \A t \in 1 .. Len(c1) : c1[t] \in 1 .. L
    BY <2>2, SeqFacts
  <2>4. z = [t \in 1 .. Len(c1) |-> [query |-> q, cluster |-> c1[t], rows |-> Accepted(i, s, c1[t])]]
    BY <1>3, <2>1, <2>3 DEF Plan
  <2>5. \A t \in 1 .. Len(c1) : z[t] \in P
    BY <1>1, <2>2, <2>3, <2>4
  <2>6. z \in Seq(P) /\ Len(z) = Len(c1)
    BY <2>3, <2>4, <2>5
  <2> QED
    BY SMTT(30), <2>1, <2>2, <2>3, <2>4, <2>6
<1>5. pp \in Seq(Seq(P)) /\ Len(pp) = m
  <2>1. PICK W : W = Seq(P)
    OBVIOUS
  <2>2. pp = [u \in 1 .. m |-> pp[u]]
    BY <1>3
  <2>3. \A u \in 1 .. m : pp[u] \in W
    BY <1>4, <2>1
  <2>4. pp \in [1 .. m -> W]
    BY <2>2, <2>3
  <2>5. pp \in Seq(W)
    BY <1>2, <2>4, SeqDef
  <2>6. Len(pp) = m
    BY <1>2, <2>4, <2>5, LenProperties
  <2> QED
    BY <2>1, <2>5, <2>6
<1> QED
  BY <1>1, <1>4, <1>5 DEF AllLaid

\* Queries come in order among all plans.
LEMMA QueriesInOrder ==
  ASSUME NEW pp, NEW P, NEW i, NEW s, NEW cl, NEW b \in Int, NEW e \in Int, NEW L,
         AllLaid(pp, P, i, s, cl, b, e, L),
         NEW x \in 1 .. Len(Cat(pp)), NEW y \in 1 .. Len(Cat(pp)), x < y
  PROVE  Cat(pp)[x].query <= Cat(pp)[y].query
<1>1. pp \in Seq(Seq(P)) /\ Len(pp) = e - b + 1
  BY DEF AllLaid
<1>20. PICK u \in 1 .. Len(pp) : \E j \in 1 .. Len(pp[u]) : x = Off(pp, u) + j
  <2>1. Lies(pp, x)
    BY <1>1, CatLies
  <2> QED
    BY <2>1 DEF Lies
<1>2. PICK j \in 1 .. Len(pp[u]) : x = Off(pp, u) + j
  BY <1>20
<1>30. PICK v \in 1 .. Len(pp) : \E k \in 1 .. Len(pp[v]) : y = Off(pp, v) + k
  <2>1. Lies(pp, y)
    BY <1>1, CatLies
  <2> QED
    BY <2>1 DEF Lies
<1>3. PICK k \in 1 .. Len(pp[v]) : y = Off(pp, v) + k
  BY <1>30
<1>4. Cat(pp)[x] = pp[u][j] /\ Cat(pp)[y] = pp[v][k]
  BY <1>1, <1>2, <1>3, CatAt
<1>5. pp[u][j].query = b + u - 1 /\ pp[v][k].query = b + v - 1
  BY <1>1 DEF AllLaid
<1>6. u \in Int /\ v \in Int /\ j \in Nat /\ k \in Int
  OBVIOUS
<1>7. ~(v < u)
  <2>1. SUFFICES ASSUME v < u PROVE FALSE
    OBVIOUS
  <2>2. v + 1 \in 1 .. Len(pp) + 1 /\ u \in 1 .. Len(pp) + 1 /\ v + 1 <= u /\ v \in 1 .. Len(pp) + 1
    BY <1>1, <2>1
  <2>3. Off(pp, v + 1) <= Off(pp, u)
    BY <1>1, <2>2, OffGrows
  <2>4. Off(pp, v + 1) = Off(pp, v) + Len(pp[v]) /\ Off(pp, v) \in Nat /\ Off(pp, u) \in Nat
    BY <1>1, <2>2, CatFacts
  <2>5. Len(pp[v]) \in Nat
    BY <1>1
  <2>6. j > 0 /\ k <= Len(pp[v])
    BY <2>5
  <2> QED
    BY <1>2, <1>3, <1>6, <2>3, <2>4, <2>5, <2>6, SMTT(30)
<1> QED
  BY <1>4, <1>5, <1>6, <1>7

\* S is the places of all with rows, and plans takes the n places A of all.
RowPlaces(S, all) == S \in SUBSET DOMAIN all /\ \A x \in DOMAIN all : x \in S <=> all[x].rows > 0
Takes(plans, all, A, n) ==
  /\ DOMAIN plans = 1 .. n
  /\ \A t \in 1 .. n : plans[t].query = all[A[t]].query /\ plans[t].cluster = all[A[t]].cluster

\* The plans of one query among those that are kept.
LEMMA QueryLaid ==
  ASSUME NEW pp, NEW P, NEW i, NEW s, NEW cl, NEW b \in Int, NEW e \in Int, NEW L,
         AllLaid(pp, P, i, s, cl, b, e, L), NEW q \in b .. e,
         NEW S, RowPlaces(S, Cat(pp)),
         NEW n \in Nat, NEW A, Counts(A, n, S), NEW plans, Takes(plans, Cat(pp), A, n)
  PROVE  PlansOfQuery(plans, q, KeptOf(i, s, cl[q]))
<1>1. PICK all, u, c1, off : all = Cat(pp) /\ u = q - b + 1 /\ c1 = cl[q] /\ off = Off(pp, u)
  OBVIOUS
<1>2. pp \in Seq(Seq(P)) /\ Len(pp) = e - b + 1 /\ u \in 1 .. Len(pp) /\ b + u - 1 = q
  BY <1>1 DEF AllLaid
<1>3. /\ c1 \in Seq(1 .. L) /\ DOMAIN c1 = 1 .. Len(pp[u]) /\ Len(pp[u]) = Len(c1)
      /\ \A t \in 1 .. Len(c1) :
           pp[u][t].query = q /\ pp[u][t].cluster = c1[t] /\ pp[u][t].rows = Accepted(i, s, c1[t])
  <2>1. u \in 1 .. e - b + 1 /\ cl[b + u - 1] = c1
    BY <1>1, <1>2
  <2> QED
    BY <1>2, <2>1 DEF AllLaid
<1>4. all \in Seq(P) /\ DOMAIN all = 1 .. Len(all) /\ Len(all) \in Nat
  BY <1>1, <1>2, CatFacts, SeqFacts
<1>5. S \subseteq Int /\ S = {x \in 1 .. Len(all) : all[x].rows > 0}
  BY <1>1, <1>4 DEF RowPlaces
<1>50. /\ DOMAIN plans = 1 .. n
       /\ \A t \in 1 .. n : plans[t].query = all[A[t]].query /\ plans[t].cluster = all[A[t]].cluster
  BY <1>1 DEF Takes
<1>6. PICK Sq, a, k : /\ Sq = {t \in DOMAIN c1 : Accepted(i, s, c1[t]) > 0}
                      /\ a = Ascending(Sq) /\ k = Cardinality(Sq)
  OBVIOUS
<1>7. k \in Nat /\ Counts(a, k, Sq) /\ Sq \subseteq Int
  BY <1>3, <1>6, AtFacts
<1>8. /\ Len(KeptOf(i, s, c1)) = k
      /\ \A j \in 1 .. k : KeptOf(i, s, c1)[j] = c1[a[j]]
  <2>1. c1 \in Seq(1 .. L) /\ Sq \in SUBSET DOMAIN c1
    BY <1>3, <1>6
  <2>2. KeptOf(i, s, c1) = At(c1, Sq)
    BY <1>6 DEF KeptOf
  <2>3. Len(At(c1, Sq)) = Cardinality(Sq)
    BY <2>1, AtFacts
  <2>4. \A j \in 1 .. Cardinality(Sq) : At(c1, Sq)[j] = c1[Ascending(Sq)[j]]
    BY <2>1, AtFacts
  <2> QED
    BY <1>6, <2>2, <2>3, <2>4
<1>9. PICK T, tau, m : T = {t \in 1 .. n : plans[t].query = q} /\ tau = Ascending(T) /\ m = Cardinality(T)
  OBVIOUS
<1>10. m \in Nat /\ Counts(tau, m, T) /\ T \subseteq 1 .. n
  <2>1. T \in SUBSET (1 .. n)
    BY <1>9
  <2>3. IsFiniteSet(1 .. n)
    BY FS_Interval
  <2>4. IsFiniteSet(T)
    BY <2>1, <2>3, FS_Subset
  <2>2. IsFiniteSet(T) /\ T \subseteq Int
    BY <2>1, <2>4
  <2> QED
    BY <1>9, <2>1, <2>2, AscendingCounts
<1>11. PICK R, h, g : /\ R = {x \in S : all[x].query = q}
                      /\ h = [j \in 1 .. m |-> A[tau[j]]] /\ g = [j \in 1 .. k |-> off + a[j]]
  OBVIOUS
<1>12. A \in [1 .. n -> S] /\ (\A t, wd \in 1 .. n : t < wd => A[t] < A[wd])
       /\ (\A x \in S : \E t \in 1 .. n : A[t] = x)
  BY DEF Counts
<1>13. tau \in [1 .. m -> T] /\ (\A t, wd \in 1 .. m : t < wd => tau[t] < tau[wd])
       /\ (\A x \in T : \E t \in 1 .. m : tau[t] = x)
  BY <1>10 DEF Counts
<1>14. a \in [1 .. k -> Sq] /\ (\A t, wd \in 1 .. k : t < wd => a[t] < a[wd])
       /\ (\A x \in Sq : \E t \in 1 .. k : a[t] = x)
  BY <1>7 DEF Counts
<1>15. Counts(h, m, R)
  <2>1. ASSUME NEW j \in 1 .. m PROVE h[j] \in R
    <3>1. tau[j] \in 1 .. n /\ plans[tau[j]].query = q
      BY <1>9, <1>13
    <3>2. A[tau[j]] \in S /\ all[A[tau[j]]].query = q
      BY <1>1, <1>12, <1>50, <3>1
    <3> QED
      BY <1>11, <3>2
  <2>2. ASSUME NEW t \in 1 .. m, NEW wd \in 1 .. m, t < wd PROVE h[t] < h[wd]
    <3>1. tau[t] \in 1 .. n /\ tau[wd] \in 1 .. n /\ tau[t] < tau[wd]
      BY <1>10, <1>13, <2>2
    <3> QED
      BY <1>11, <1>12, <3>1
  <2>3. ASSUME NEW x \in R PROVE \E t \in 1 .. m : h[t] = x
    <3>1. x \in S /\ all[x].query = q
      BY <1>11
    <3>2. PICK t \in 1 .. n : A[t] = x
      BY <1>12, <3>1
    <3>3. t \in T
      BY <1>1, <1>9, <1>50, <3>1, <3>2
    <3>4. PICK j \in 1 .. m : tau[j] = t
      BY <1>13, <3>3
    <3> QED
      BY <1>11, <3>2, <3>4
  <2>4. h \in [1 .. m -> R]
    BY <1>11, <2>1
  <2> QED
    BY <2>2, <2>3, <2>4 DEF Counts
<1>16. \A t \in 1 .. Len(c1) : off + t \in 1 .. Len(all) /\ all[off + t] = pp[u][t]
  <2>1. ASSUME NEW t \in 1 .. Len(c1)
        PROVE  off + t \in 1 .. Len(all) /\ all[off + t] = pp[u][t]
    <3>1. t \in 1 .. Len(pp[u])
      BY <1>3
    <3>2. Off(pp, u) + t \in 1 .. Len(Cat(pp)) /\ Cat(pp)[Off(pp, u) + t] = pp[u][t]
      BY <1>2, <3>1, CatAt
    <3> QED
      BY <1>1, <3>2
  <2> QED
    BY <2>1
<1>17. off \in Int
  BY <1>1, <1>2, CatFacts
<1>18. Counts(g, k, R)
  <2>1. ASSUME NEW j \in 1 .. k PROVE g[j] \in R
    <3>1. a[j] \in 1 .. Len(c1) /\ Accepted(i, s, c1[a[j]]) > 0
      BY <1>3, <1>6, <1>14
    <3>2. off + a[j] \in S /\ all[off + a[j]].query = q
      BY <1>3, <1>5, <1>16, <3>1
    <3> QED
      BY <1>11, <3>2
  <2>2. ASSUME NEW t \in 1 .. k, NEW wd \in 1 .. k, t < wd PROVE g[t] < g[wd]
    <3>1. a[t] < a[wd] /\ a[t] \in Int /\ a[wd] \in Int
      BY <1>7, <1>14, <2>2
    <3> QED
      BY <1>11, <1>17, <3>1
  <2>3. ASSUME NEW x \in R PROVE \E t \in 1 .. k : g[t] = x
    <3>1. x \in 1 .. Len(all) /\ all[x].query = q /\ all[x].rows > 0
      BY <1>5, <1>11
    <3>20. PICK v \in 1 .. Len(pp) : \E t \in 1 .. Len(pp[v]) : x = Off(pp, v) + t
      <4>1. Lies(pp, x)
        BY <1>1, <1>2, <3>1, CatLies
      <4> QED
        BY <4>1 DEF Lies
    <3>2. PICK t \in 1 .. Len(pp[v]) : x = Off(pp, v) + t
      BY <3>20
    <3>3. all[x] = pp[v][t]
      BY SMTT(30), <1>1, <1>2, <3>2, CatAt
    <3>4. pp[v][t].query = b + v - 1
      BY <1>2 DEF AllLaid
    <3>5. v = u
      <4>1. b + v - 1 = q /\ b + u - 1 = q /\ v \in Int /\ u \in Int
        BY <1>2, <3>1, <3>3, <3>4, SMTT(30)
      <4> QED
        BY <4>1
    <3>6. t \in 1 .. Len(c1) /\ Accepted(i, s, c1[t]) > 0
      BY <1>3, <3>1, <3>3, <3>5
    <3>7. t \in Sq
      BY <1>3, <1>6, <3>6
    <3>8. PICK j \in 1 .. k : a[j] = t
      BY <1>14, <3>7
    <3> QED
      BY <1>1, <1>11, <3>2, <3>5, <3>8
  <2>4. g \in [1 .. k -> R]
    BY <1>11, <2>1
  <2> QED
    BY <2>2, <2>3, <2>4 DEF Counts
<1>19. R \subseteq Int
  BY <1>5, <1>11
<1>20. m = k /\ h = g
  <2>1. Cardinality(R) = m /\ Ascending(R) = h
    BY <1>10, <1>15, <1>19, AscendingIs
  <2>2. Cardinality(R) = k /\ Ascending(R) = g
    BY <1>7, <1>18, <1>19, AscendingIs
  <2> QED
    BY <2>1, <2>2
<1>21. ASSUME NEW j \in 1 .. k PROVE plans[tau[j]].cluster = c1[a[j]]
  <2>1. tau[j] \in 1 .. n
    BY <1>10, <1>13, <1>20
  <2>2. plans[tau[j]].cluster = all[A[tau[j]]].cluster
    BY <1>1, <1>50, <2>1
  <2>3. A[tau[j]] = off + a[j]
    BY <1>11, <1>20
  <2>4. a[j] \in 1 .. Len(c1)
    BY <1>3, <1>6, <1>14
  <2>5. all[off + a[j]].cluster = c1[a[j]]
    BY <1>3, <1>16, <2>4
  <2> QED
    BY <2>2, <2>3, <2>5
<1> QED
  BY ZenonT(40), <1>1, <1>8, <1>9, <1>20, <1>21, <1>50 DEF PlansOfQuery

\* The plans of a block lie as the queries and their probes come.
LEMMA LaidFacts ==
  ASSUME NEW i, NEW s, NEW L \in Nat, NEW N \in Nat, NEW cl \in [1 .. N -> Seq(1 .. L)],
         NEW b \in 1 .. N, BlockEnd(i, cl, b) \in b .. N,
         \A c \in 1 .. L : Accepted(i, s, c) \in Nat
  PROVE  Laid(Plans(i, s, cl, b), i, s, cl, b, BlockEnd(i, cl, b), L)
<1>1. PICK e, P, pp : /\ e = BlockEnd(i, cl, b) /\ P = [query : b .. e, cluster : 1 .. L, rows : Nat]
                      /\ pp = AllPlans(i, s, cl, b, e)
  OBVIOUS
<1>2. e \in b .. N /\ e \in Int /\ b \in Int
  BY <1>1
<1>3. AllLaid(pp, P, i, s, cl, b, e, L)
  BY <1>1, <1>2, AllPlansFacts
<1>4. pp \in Seq(Seq(P))
  BY <1>3 DEF AllLaid
<1>5. PICK all, S : all = Cat(pp) /\ S = {t \in DOMAIN all : all[t].rows > 0}
  OBVIOUS
<1>6. all \in Seq(P)
  BY <1>4, <1>5, CatFacts
<1>7. PICK n, A, kept : n = Cardinality(S) /\ A = Ascending(S) /\ kept = At(all, S)
  OBVIOUS
<1>8. S \in SUBSET DOMAIN all
  BY <1>5
<1>9. /\ n \in Nat /\ Counts(A, n, S) /\ kept \in Seq(P) /\ Len(kept) = n
      /\ \A t \in 1 .. n : kept[t] = all[A[t]]
  <2>1. Cardinality(S) \in Nat /\ Counts(Ascending(S), Cardinality(S), S)
    BY <1>6, <1>8, AtFacts
  <2>2. At(all, S) \in Seq(P) /\ Len(At(all, S)) = Cardinality(S)
    BY <1>6, <1>8, AtFacts
  <2>3. \A t \in 1 .. Cardinality(S) : At(all, S)[t] = all[Ascending(S)[t]]
    BY <1>6, <1>8, AtFacts
  <2> QED
    BY <1>7, <2>1, <2>2, <2>3
<1>10. A \in [1 .. n -> S] /\ \A t, u \in 1 .. n : t < u => A[t] < A[u]
  BY <1>9 DEF Counts
<1>11. \A t \in 1 .. n : kept[t] \in P /\ kept[t].rows \in Nat
  <2>1. \A t \in 1 .. n : kept[t] \in P
    BY <1>9
  <2> QED
    BY <1>1, <2>1
<1>12. PICK plans : plans = Placed(kept)
  OBVIOUS
<1>13. Adjoining(plans, kept)
  <2>1. \A p \in P : p.rows \in Nat
    BY <1>1
  <2> QED
    BY <1>9, <1>12, <2>1, PlacedFacts
<1>14. Plans(i, s, cl, b) = plans
  BY <1>1, <1>5, <1>7, <1>12 DEF Plans, AllPlans
<1>15. Len(plans) = n /\ DOMAIN plans = 1 .. n
  BY <1>9, <1>13 DEF Adjoining
<1>16. \A x \in DOMAIN all : x \in S <=> all[x].rows > 0
  BY <1>5
<1>17. \A x \in 1 .. Len(all) :
         all[x].query \in b .. e /\ all[x].cluster \in 1 .. L /\ all[x].rows = Accepted(i, s, all[x].cluster)
  <2>1. SUFFICES ASSUME NEW x \in 1 .. Len(all)
                 PROVE  /\ all[x].query \in b .. e /\ all[x].cluster \in 1 .. L
                        /\ all[x].rows = Accepted(i, s, all[x].cluster)
    OBVIOUS
  <2>2. PICK u \in 1 .. Len(pp) : \E j \in 1 .. Len(pp[u]) : x = Off(pp, u) + j
    BY <1>4, <1>5, CatPlace
  <2>3. PICK j \in 1 .. Len(pp[u]) : x = Off(pp, u) + j
    BY <2>2
  <2>4. all[x] = pp[u][j]
    BY <1>4, <1>5, <2>3, CatAt
  <2>5. all[x] \in P
    BY <1>6
  <2>6. u \in 1 .. e - b + 1
    BY <1>3 DEF AllLaid
  <2>7. pp[u][j].cluster = cl[b + u - 1][j] /\ pp[u][j].rows = Accepted(i, s, cl[b + u - 1][j])
    BY <1>3, <2>6 DEF AllLaid
  <2> QED
    BY <1>1, <2>4, <2>5, <2>7
<1>18. \A t \in 1 .. n : A[t] \in 1 .. Len(all) /\ A[t] \in DOMAIN all /\ all[A[t]].rows > 0
  <2>1. DOMAIN all = 1 .. Len(all)
    BY <1>6, SeqFacts
  <2> QED
    BY <1>5, <1>10, <2>1
<1>19. \A t \in 1 .. n :
         /\ plans[t].query = all[A[t]].query /\ plans[t].cluster = all[A[t]].cluster
         /\ plans[t].rows = all[A[t]].rows /\ plans[t].offset \in Nat
  BY <1>9, <1>13 DEF Adjoining
<1>20. \A t \in 1 .. n :
         /\ plans[t].query \in b .. e /\ plans[t].cluster \in 1 .. L
         /\ plans[t].rows = Accepted(i, s, plans[t].cluster)
         /\ plans[t].rows \in Nat /\ plans[t].rows > 0 /\ plans[t].offset \in Nat
  <2>1. SUFFICES ASSUME NEW t \in 1 .. n
                 PROVE  /\ plans[t].query \in b .. e /\ plans[t].cluster \in 1 .. L
                        /\ plans[t].rows = Accepted(i, s, plans[t].cluster)
                        /\ plans[t].rows \in Nat /\ plans[t].rows > 0 /\ plans[t].offset \in Nat
    OBVIOUS
  <2>2. PICK x : x = A[t]
    OBVIOUS
  <2>3. x \in 1 .. Len(all) /\ all[x].rows > 0
    BY <1>18, <2>2
  <2>4. all[x].query \in b .. e /\ all[x].cluster \in 1 .. L /\ all[x].rows = Accepted(i, s, all[x].cluster)
    BY <1>17, <2>3
  <2>5. /\ plans[t].query = all[x].query /\ plans[t].cluster = all[x].cluster
        /\ plans[t].rows = all[x].rows /\ plans[t].offset \in Nat
    BY <1>19, <2>2
  <2>6. all[x].rows \in Nat
    BY <2>4
  <2> QED
    BY <2>3, <2>4, <2>5, <2>6
<1>21. ASSUME NEW t \in 1 .. n, NEW u \in 1 .. n, t < u PROVE plans[t].query <= plans[u].query
  <2>0. A[t] < A[u]
    BY <1>10, <1>21
  <2>1. A[t] < A[u] /\ A[t] \in 1 .. Len(Cat(pp)) /\ A[u] \in 1 .. Len(Cat(pp))
    BY <1>5, <1>18, <2>0
  <2>2. Cat(pp)[A[t]].query <= Cat(pp)[A[u]].query
    BY <1>2, <1>3, <2>1, QueriesInOrder
  <2> QED
    BY <1>5, <1>19, <2>2
<1>22. ASSUME NEW q \in b .. e PROVE PlansOfQuery(plans, q, KeptOf(i, s, cl[q]))
  <2>1. RowPlaces(S, Cat(pp))
    BY <1>5, <1>8, <1>16 DEF RowPlaces
  <2>2. Takes(plans, Cat(pp), A, n)
    BY <1>5, <1>15, <1>19 DEF Takes
  <2> QED
    BY <1>2, <1>3, <1>9, <1>15, <2>1, <2>2, QueryLaid
<1>23. /\ 1 \in 1 .. Len(plans) => plans[1].offset = 0
       /\ \A t \in 1 .. Len(plans) - 1 : plans[t + 1].offset = plans[t].offset + plans[t].rows
  BY <1>9, <1>13, <1>15 DEF Adjoining
<1> QED
  BY <1>1, <1>9, <1>14, <1>15, <1>20, <1>21, <1>22, <1>23 DEF Laid

\* Every non-empty set of numbers between two others has a greatest member.
LEMMA GreatestPlace ==
  ASSUME NEW a \in Int, NEW b \in Int, NEW T, T \subseteq a .. b, T # {}
  PROVE  \E x \in T : \A y \in T : y <= x
<1>1. PICK D : D = {z \in Nat : \E x \in T : z = b - x}
  OBVIOUS
<1>2. \A x \in T : x \in Int /\ x <= b
  OBVIOUS
<1>3. D \subseteq Nat /\ D # {}
  <2>1. PICK x \in T : TRUE
    OBVIOUS
  <2>2. b - x \in Nat
    BY <1>2
  <2> QED
    BY <1>1, <2>2
<1>4. PICK z \in D : \A y \in D : z <= y
  BY <1>3, LeastPlace
<1>5. PICK x \in T : z = b - x
  BY <1>1
<1>6. ASSUME NEW y \in T PROVE y <= x
  <2>1. b - y \in D
    BY <1>1, <1>2
  <2>2. z <= b - y
    BY <1>4, <2>1
  <2> QED
    BY <1>2, <1>5, <2>2
<1> QED
  BY <1>6

\* A block ends at one of the queries from b on.
LEMMA BlockEndFacts ==
  ASSUME NEW i, NEW N \in Nat, NEW cl, Len(cl) = N, NEW b \in 1 .. N
  PROVE  BlockEnd(i, cl, b) \in b .. N
<1>1. PICK total : total = CHOOSE tot : tot = [e \in b - 1 .. N |->
                     IF e < b THEN 0 ELSE tot[e - 1] + RawRows(i, cl, e)]
  OBVIOUS
<1>2. PICK F : F = {e \in b .. N : /\ e - b < MaxBlock
                                   /\ \A f \in b + 1 .. e : /\ total[f] <= Rows(i)
                                                            /\ total[f - 1] < Rows(i)}
  OBVIOUS
<1>3. BlockEnd(i, cl, b) = CHOOSE e \in b .. N : e \in F /\ \A f \in b .. N : f \in F => f <= e
  BY <1>1, <1>2 DEF BlockEnd
<1>4. b \in F
  <2>1. b - b < MaxBlock /\ b \in b .. N
    BY IvfAssumption
  <2>2. b + 1 .. b = {}
    OBVIOUS
  <2> QED
    BY <1>2, <2>1, <2>2
<1>5. F \subseteq b .. N
  BY <1>2
<1>6. PICK e \in F : \A f \in F : f <= e
  <2>1. b \in Int /\ N \in Int /\ F # {}
    BY <1>4
  <2> QED
    BY <1>5, <2>1, GreatestPlace
<1>7. \E e1 \in b .. N : e1 \in F /\ \A f \in b .. N : f \in F => f <= e1
  BY <1>5, <1>6
<1> QED
  BY <1>3, <1>7

\* The block of query q starts no later than q and ends no earlier.
LEMMA BlockStartFacts ==
  ASSUME NEW i, NEW N \in Nat, NEW cl, Len(cl) = N, NEW q \in 1 .. N
  PROVE  BlockStart(i, cl)[q] \in 1 .. q /\ q <= BlockEnd(i, cl, BlockStart(i, cl)[q])
<1>1. PICK V, J, E : V = 1 .. N /\ J = 1 + 1 .. N /\ E = [b \in 1 .. N |-> BlockEnd(i, cl, b)]
  OBVIOUS
<1>2. \A b \in 1 .. N : E[b] \in b .. N
  BY <1>1, BlockEndFacts
<1>3. PICK G : G = [r \in J |-> [z \in V |-> IF E[z] >= r THEN z ELSE r]]
  OBVIOUS
<1>4. Steps(1, N, V, 1, J, G)
  <2>1. G \in [J -> [V -> V]]
    <3>1. \A r \in J : r \in V
      BY <1>1
    <3> QED
      BY <1>3, <3>1
  <2>2. 1 \in Int /\ N \in Int /\ 1 <= N /\ 1 \in V
    BY <1>1
  <2>3. J = 1 + 1 .. N
    BY <1>1
  <2> QED
    BY <2>1, <2>2, <2>3, Recursion
<1>5. PICK g \in [1 .. N -> V] : g[1] = 1 /\ \A r \in J : g[r] = G[r][g[r - 1]]
  BY <1>4 DEF Steps
<1>6. \A r \in 1 .. N : r # 1 =>
        g[r - 1] \in 1 .. N /\ g[r] = IF E[g[r - 1]] >= r THEN g[r - 1] ELSE r
  <2>1. SUFFICES ASSUME NEW r \in 1 .. N, r # 1
                 PROVE  g[r - 1] \in 1 .. N /\ g[r] = IF E[g[r - 1]] >= r THEN g[r - 1] ELSE r
    OBVIOUS
  <2>2. r \in J /\ r - 1 \in 1 .. N
    BY <1>1, <2>1
  <2>3. g[r - 1] \in V
    BY <1>5, <2>2
  <2> QED
    BY <1>1, <1>3, <1>5, <2>2, <2>3
<1> DEFINE Def(fun) == fun = [r \in 1 .. N |->
      IF r = 1 THEN 1 ELSE IF BlockEnd(i, cl, fun[r - 1]) >= r THEN fun[r - 1] ELSE r]
<1>7. Def(g)
  <2>1. \A r \in 1 .. N :
          g[r] = IF r = 1 THEN 1 ELSE IF BlockEnd(i, cl, g[r - 1]) >= r THEN g[r - 1] ELSE r
    BY <1>1, <1>5, <1>6
  <2> QED
    BY <1>5, <2>1
<1>8. PICK f : f = CHOOSE fun : Def(fun)
  OBVIOUS
<1>9. Def(f)
  BY <1>7, <1>8
<1>10. BlockStart(i, cl) = f
  BY <1>8 DEF BlockStart
<1>11. f[1] = 1 /\ \A r \in 1 .. N : r # 1 =>
         f[r] = IF BlockEnd(i, cl, f[r - 1]) >= r THEN f[r - 1] ELSE r
  <2>1. \A r \in 1 .. N :
          f[r] = IF r = 1 THEN 1 ELSE IF BlockEnd(i, cl, f[r - 1]) >= r THEN f[r - 1] ELSE r
    BY <1>9
  <2> HIDE DEF Def
  <2>2. 1 \in 1 .. N
    OBVIOUS
  <2> QED
    BY <2>1, <2>2
<1> HIDE DEF Def
<1>12. PICK T : T = {r \in 1 .. N : f[r] \in 1 .. r /\ r <= BlockEnd(i, cl, f[r])}
  OBVIOUS
<1>13. 1 \in T
  <2>1. 1 \in 1 .. N
    OBVIOUS
  <2>2. BlockEnd(i, cl, 1) \in 1 .. N
    BY <2>1, BlockEndFacts
  <2> QED
    BY <1>11, <1>12, <2>1, <2>2
<1>14. ASSUME NEW r \in 1 + 1 .. N, r - 1 \in T PROVE r \in T
  <2>1. PICK z : z = f[r - 1]
    OBVIOUS
  <2>2. r \in 1 .. N /\ r # 1 /\ z \in 1 .. r - 1
    BY <1>12, <1>14, <2>1
  <2>3. z \in 1 .. N
    BY <2>2
  <2>4. BlockEnd(i, cl, z) \in z .. N /\ BlockEnd(i, cl, r) \in r .. N
    BY <2>2, <2>3, BlockEndFacts
  <2>5. f[r] = IF BlockEnd(i, cl, z) >= r THEN z ELSE r
    BY <1>11, <2>1, <2>2
  <2>6. f[r] \in 1 .. r /\ r <= BlockEnd(i, cl, f[r])
    <3>1. CASE BlockEnd(i, cl, z) >= r
      BY <2>2, <2>4, <2>5, <3>1
    <3>2. CASE ~(BlockEnd(i, cl, z) >= r)
      BY <2>2, <2>4, <2>5, <3>2
    <3> QED
      BY <3>1, <3>2
  <2> QED
    BY <1>12, <2>2, <2>6
<1>15. \A r \in 1 .. N : r \in T
  <2>1. 1 \in Int /\ N \in Int
    OBVIOUS
  <2> QED
    BY <2>1, <1>13, <1>14, Climb
<1> QED
  BY <1>10, <1>12, <1>15

-----------------------------------------------------------------------------
(* Where the candidates of a query lie in its block.                       *)

\* The parts ss of a block's candidates are as long as its plans say.
Lines(plans, ss, n) ==
  /\ Len(ss) = n /\ Len(plans) = n /\ DOMAIN plans = 1 .. n
  /\ \A t \in 1 .. n : /\ plans[t].offset \in Nat /\ plans[t].rows \in Nat /\ plans[t].rows > 0
                       /\ Len(ss[t]) = plans[t].rows
  /\ 1 \in 1 .. n => plans[1].offset = 0
  /\ \A t \in 1 .. n - 1 : plans[t + 1].offset = plans[t].offset + plans[t].rows

\* Then the offset of a plan is where its part begins.
LEMMA OffsetsAre ==
  ASSUME NEW A, NEW ss \in Seq(Seq(A)), NEW n \in Nat, NEW plans, Lines(plans, ss, n),
         NEW t \in 1 .. n
  PROVE  plans[t].offset = Off(ss, t) /\ plans[t].offset + plans[t].rows = Off(ss, t + 1)
<1>1. /\ Len(ss) = n /\ (1 \in 1 .. n => plans[1].offset = 0)
      /\ \A u \in 1 .. n : /\ plans[u].offset \in Nat /\ plans[u].rows \in Nat
                           /\ Len(ss[u]) = plans[u].rows
      /\ \A u \in 1 .. n - 1 : plans[u + 1].offset = plans[u].offset + plans[u].rows
  BY DEF Lines
<1>2. PICK T : T = {u \in 1 .. n : plans[u].offset = Off(ss, u)}
  OBVIOUS
<1>3. Off(ss, 1) = 0 /\ \A u \in 1 .. n : Off(ss, u) \in Nat /\ Off(ss, u + 1) = Off(ss, u) + Len(ss[u])
  <2>1. \A u \in 1 .. n : u \in 1 .. Len(ss) /\ u \in 1 .. Len(ss) + 1
    BY <1>1
  <2> QED
    BY <2>1, CatFacts
<1>4. 1 \in T
  BY <1>1, <1>2, <1>3
<1>5. ASSUME NEW u \in 1 + 1 .. n, u - 1 \in T PROVE u \in T
  <2>1. PICK v : v = u - 1
    OBVIOUS
  <2>2. v \in 1 .. n - 1 /\ v \in 1 .. n /\ v + 1 = u /\ u \in 1 .. n
    BY <2>1
  <2>3. plans[v].offset = Off(ss, v)
    BY <1>2, <1>5, <2>1
  <2>4. plans[u].offset = plans[v].offset + plans[v].rows
    BY <1>1, <2>2
  <2>5. Off(ss, u) = Off(ss, v) + Len(ss[v]) /\ Len(ss[v]) = plans[v].rows
    BY <1>1, <1>3, <2>2
  <2> QED
    BY <1>2, <2>2, <2>3, <2>4, <2>5
<1>6. \A u \in 1 .. n : u \in T
  <2>1. 1 \in Int /\ n \in Int
    OBVIOUS
  <2> QED
    BY <2>1, <1>4, <1>5, Climb
<1>7. plans[t].offset = Off(ss, t)
  BY <1>2, <1>6
<1>8. Off(ss, t + 1) = Off(ss, t) + plans[t].rows
  BY <1>1, <1>3
<1> QED
  BY <1>7, <1>8

\* The plans come in the order of their queries.
Ordered(plans, n) ==
  /\ DOMAIN plans = 1 .. n
  /\ \A t \in 1 .. n : plans[t].query \in Int
  /\ \A t, u \in 1 .. n : t < u => plans[t].query <= plans[u].query

\* Then those of the queries before q are the first ones.
LEMMA FirstPlans ==
  ASSUME NEW n \in Nat, NEW plans, Ordered(plans, n), NEW q \in Int
  PROVE  \E m \in 0 .. n : {t \in DOMAIN plans : plans[t].query < q} = 1 .. m
<1>1. PICK B : B = {t \in DOMAIN plans : plans[t].query < q}
  OBVIOUS
<1>2. /\ B = {t \in 1 .. n : plans[t].query < q}
      /\ \A t \in 1 .. n : plans[t].query \in Int
      /\ \A t, u \in 1 .. n : t < u => plans[t].query <= plans[u].query
  BY <1>1 DEF Ordered
<1>3. CASE B = {}
  <2>1. 0 \in 0 .. n /\ 1 .. 0 = {}
    OBVIOUS
  <2> QED
    BY <1>1, <1>3, <2>1
<1>4. CASE B # {}
  <2>1. B \subseteq 1 .. n
    BY <1>2
  <2>2. PICK m \in B : \A t \in B : t <= m
    <3>1. 1 \in Int /\ n \in Int
      OBVIOUS
    <3> QED
      BY <1>4, <2>1, <3>1, GreatestPlace
  <2>3. m \in 1 .. n /\ plans[m].query < q
    BY <1>2, <2>2
  <2>4. ASSUME NEW t \in 1 .. m PROVE t \in B
    <3>1. t \in 1 .. n /\ (t = m \/ t < m)
      BY <2>3
    <3>2. plans[t].query <= plans[m].query
      BY <1>2, <2>3, <3>1
    <3>3. plans[t].query \in Int /\ plans[m].query \in Int
      BY <1>2, <2>3, <3>1
    <3> QED
      BY <1>2, <2>3, <3>1, <3>2, <3>3
  <2>5. B = 1 .. m
    <3>1. \A t \in B : t \in 1 .. m
      BY <2>1, <2>2
    <3> QED
      BY <2>4, <3>1
  <2>6. m \in 0 .. n
    BY <2>3
  <2> QED
    BY <1>1, <2>5, <2>6
<1> QED
  BY <1>3, <1>4

\* The plans of the queries before q are the first m.
FirstOnes(plans, q, m) == {t \in DOMAIN plans : plans[t].query < q} = 1 .. m

\* The candidates of a query begin after those of the queries before it.
LEMMA BeginIs ==
  ASSUME NEW A, NEW ss \in Seq(Seq(A)), NEW n \in Nat, NEW plans, Lines(plans, ss, n),
         NEW q \in Int, NEW m \in 0 .. n, FirstOnes(plans, q, m)
  PROVE  QueryBegin(plans, q) = Off(ss, m + 1)
<1>1. PICK before : before = {t \in DOMAIN plans : plans[t].query < q}
  OBVIOUS
<1>2. before = 1 .. m
  BY <1>1 DEF FirstOnes
<1>3. QueryBegin(plans, q) =
        IF before = {} THEN 0
        ELSE LET t == CHOOSE t \in before : \A u \in before : u <= t
             IN plans[t].offset + plans[t].rows
  BY <1>1 DEF QueryBegin
<1>4. CASE m = 0
  <2>1. before = {}
    BY <1>2, <1>4
  <2>2. Off(ss, 1) = 0
    BY CatFacts
  <2> QED
    BY <1>3, <1>4, <2>1, <2>2
<1>5. CASE m # 0
  <2>1. m \in 1 .. n /\ m \in before /\ before # {}
    <3>1. m \in 1 .. n /\ m \in 1 .. m
      BY <1>5
    <3> QED
      BY <1>2, <3>1
  <2>2. PICK t : t = CHOOSE t1 \in before : \A u \in before : u <= t1
    OBVIOUS
  <2>3. t \in before /\ \A u \in before : u <= t
    <3>1. \E t1 \in before : \A u \in before : u <= t1
      <4>1. \A u \in before : u <= m
        BY <1>2
      <4> QED
        BY <2>1, <4>1
    <3> QED
      BY <2>2, <3>1
  <2>4. t = m
    <3>1. m <= t /\ t \in 1 .. m
      BY <1>2, <2>1, <2>3
    <3> QED
      BY <3>1
  <2>5. QueryBegin(plans, q) = plans[m].offset + plans[m].rows
    BY <1>3, <2>1, <2>2, <2>4
  <2> QED
    BY <2>1, <2>5, OffsetsAre
<1> QED
  BY <1>4, <1>5

\* The unfiltered candidate at a dense offset is found in its list: positions
\* are the whole lists.
WholeLists(i, plans, ss, n) ==
  \A t \in 1 .. n :
    /\ i.packed.offsets[plans[t].cluster] \in Int
    /\ \A j \in 1 .. Len(ss[t]) : ss[t][j] = i.packed.ids[i.packed.offsets[plans[t].cluster] + j]

LEMMA ResolveIs ==
  ASSUME NEW A, NEW ss \in Seq(Seq(A)), NEW n \in Nat, NEW plans, Lines(plans, ss, n), NEW i,
         WholeLists(i, plans, ss, n),
         NEW x \in 1 .. Len(Cat(ss))
  PROVE  ResolveId(i, plans, x - 1) = Cat(ss)[x]
<1>1. Len(ss) = n /\ DOMAIN plans = 1 .. n /\ Len(plans) = n
      /\ \A t \in 1 .. n : plans[t].offset \in Nat /\ plans[t].rows \in Nat /\ Len(ss[t]) = plans[t].rows
  BY DEF Lines
<1>2. PICK u \in 1 .. n : \E j \in 1 .. Len(ss[u]) : x = Off(ss, u) + j
  BY <1>1, CatPlace
<1>3. PICK j \in 1 .. Len(ss[u]) : x = Off(ss, u) + j
  BY <1>2
<1>4. \A t \in 1 .. n : plans[t].offset = Off(ss, t) /\ plans[t].offset + plans[t].rows = Off(ss, t + 1)
  BY OffsetsAre
<1>5. \A t \in u + 1 .. n : plans[t].offset >= plans[u].offset + plans[u].rows
  <2>1. SUFFICES ASSUME NEW t \in u + 1 .. n
                 PROVE  plans[t].offset >= plans[u].offset + plans[u].rows
    OBVIOUS
  <2>2. t \in 1 .. n /\ u + 1 <= t /\ t \in 1 .. Len(ss) + 1 /\ u + 1 \in 1 .. Len(ss) + 1
    BY <1>1
  <2>3. Off(ss, u + 1) <= Off(ss, t)
    BY <2>2, OffGrows
  <2>4. plans[t].offset = Off(ss, t) /\ plans[u].offset + plans[u].rows = Off(ss, u + 1)
    BY <1>4, <2>2
  <2>5. Off(ss, u + 1) \in Nat /\ Off(ss, t) \in Nat
    BY <2>2, CatFacts
  <2> QED
    BY <2>3, <2>4, <2>5
<1>6. PICK dense, off : dense = x - 1 /\ off = plans[u].offset
  OBVIOUS
<1>7. off \in Nat /\ dense = off + j - 1 /\ j >= 1 /\ j <= plans[u].rows /\ j \in Int
  BY <1>1, <1>3, <1>4, <1>6, SMTT(30)
<1>8. off <= dense /\ \A t \in u + 1 .. n : plans[t].offset > dense
  <2>1. \A t \in u + 1 .. n : t \in 1 .. n
    BY <1>1
  <2> QED
    <3>1. off <= dense /\ off + plans[u].rows > dense
      BY <1>1, <1>7
    <3>2. \A t \in u + 1 .. n : plans[t].offset >= off + plans[u].rows /\ plans[t].offset \in Nat
      BY <1>1, <1>5, <1>6, <2>1
    <3>3. dense \in Int /\ off + plans[u].rows \in Int
      BY <1>1, <1>7
    <3>4. \A t \in u + 1 .. n : plans[t].offset > dense
      <4>1. SUFFICES ASSUME NEW t \in u + 1 .. n PROVE plans[t].offset > dense
        OBVIOUS
      <4>2. PICK a, b : a = plans[t].offset /\ b = off + plans[u].rows
        OBVIOUS
      <4>3. a \in Nat /\ b \in Int /\ a >= b /\ b > dense
        BY <3>1, <3>2, <3>3, <4>2
      <4> QED
        BY <3>3, <4>2, <4>3
    <3> QED
      BY <3>1, <3>4
<1>9. PICK t : t = CHOOSE t1 \in DOMAIN plans : /\ plans[t1].offset <= dense
                                               /\ \A wd \in t1 + 1 .. Len(plans) : plans[wd].offset > dense
  OBVIOUS
<1>10. t \in 1 .. n /\ plans[t].offset <= dense /\ \A wd \in t + 1 .. n : plans[wd].offset > dense
  <2>1. u \in DOMAIN plans /\ plans[u].offset <= dense
        /\ \A wd \in u + 1 .. Len(plans) : plans[wd].offset > dense
    BY <1>1, <1>6, <1>8
  <2>2. t \in DOMAIN plans /\ plans[t].offset <= dense /\ \A wd \in t + 1 .. Len(plans) : plans[wd].offset > dense
    BY <1>9, <2>1
  <2> QED
    BY <1>1, <2>2
<1>11. t = u
  <2>1. t \in Int /\ u \in Int /\ plans[t].offset \in Nat /\ plans[u].offset \in Nat /\ dense \in Int
    BY <1>1, <1>7, <1>10
  <2>2. ~(t < u)
    <3>1. ASSUME t < u PROVE FALSE
      <4>1. u \in t + 1 .. n
        BY <2>1, <3>1
      <4>2. plans[u].offset > dense
        BY <1>10, <4>1
      <4> QED
        BY <1>6, <1>8, <2>1, <4>2
    <3> QED
      BY <3>1
  <2>3. ~(u < t)
    <3>1. ASSUME u < t PROVE FALSE
      <4>1. t \in u + 1 .. n
        BY <1>10, <2>1, <3>1
      <4>2. plans[t].offset > dense
        BY <1>8, <4>1
      <4> QED
        BY <1>10, <2>1, <4>2
    <3> QED
      BY <3>1
  <2> QED
    BY <2>1, <2>2, <2>3
<1>12. PICK from : from = i.packed.offsets[plans[u].cluster]
  OBVIOUS
<1>13. from \in Int /\ ss[u][j] = i.packed.ids[from + j]
  BY Zenon, <1>12 DEF WholeLists
<1>14. ResolveId(i, plans, dense) = i.packed.ids[from + dense - off + 1]
  BY Zenon, <1>6, <1>9, <1>11, <1>12 DEF ResolveId
<1>15. from + dense - off + 1 = from + j
  BY <1>7, <1>13
<1>16. Cat(ss)[x] = ss[u][j]
  <2>1. u \in 1 .. Len(ss)
    BY <1>1
  <2>2. Cat(ss)[Off(ss, u) + j] = ss[u][j]
    BY <2>1, CatAt
  <2> QED
    BY <1>3, <2>2
<1> QED
  BY <1>6, <1>13, <1>14, <1>15, <1>16

\* The plans of a query are neighbours.
Neighbours(plans, n, q, K, lo, hi) ==
  /\ lo \in 0 .. n /\ hi \in lo .. n /\ hi - lo = Len(K)
  /\ {t \in DOMAIN plans : plans[t].query < q} = 1 .. lo
  /\ {t \in DOMAIN plans : plans[t].query < q + 1} = 1 .. hi
  /\ \A j \in 1 .. hi - lo : plans[lo + j].query = q /\ plans[lo + j].cluster = K[j]

LEMMA PlansAreNeighbours ==
  ASSUME NEW n \in Nat, NEW plans, Ordered(plans, n), NEW q \in Int, NEW K, PlansOfQuery(plans, q, K)
  PROVE  \E lo, hi : Neighbours(plans, n, q, K, lo, hi)
<1>1. PICK lo \in 0 .. n : {t \in DOMAIN plans : plans[t].query < q} = 1 .. lo
  BY FirstPlans
<1>2. PICK hi \in 0 .. n : {t \in DOMAIN plans : plans[t].query < q + 1} = 1 .. hi
  <2>1. q + 1 \in Int
    OBVIOUS
  <2> QED
    BY <2>1, FirstPlans
<1>3. DOMAIN plans = 1 .. n /\ \A t \in 1 .. n : plans[t].query \in Int
  BY DEF Ordered
<1>4. \A t \in 1 .. n : (t \in 1 .. lo <=> plans[t].query < q) /\ (t \in 1 .. hi <=> plans[t].query < q + 1)
  BY <1>1, <1>2, <1>3
<1>5. lo <= hi
  <2>1. ASSUME hi < lo PROVE FALSE
    <3>1. lo \in 1 .. n /\ lo \in 1 .. lo /\ lo \notin 1 .. hi
      BY <2>1
    <3>2. plans[lo].query < q /\ ~(plans[lo].query < q + 1) /\ plans[lo].query \in Int
      BY <1>3, <1>4, <3>1
    <3> QED
      BY <3>2
  <2> QED
    BY <2>1
<1>6. PICK T, k : T = {t \in DOMAIN plans : plans[t].query = q} /\ k = hi - lo
  OBVIOUS
<1>7. k \in Nat /\ lo + k = hi /\ hi \in lo .. n
  BY <1>5, <1>6
<1>8. T = lo + 1 .. lo + k
  <2>1. ASSUME NEW t \in T PROVE t \in lo + 1 .. lo + k
    <3>1. t \in 1 .. n /\ plans[t].query = q
      BY <1>3, <1>6
    <3>2. t \notin 1 .. lo /\ t \in 1 .. hi
      BY <1>4, <3>1
    <3> QED
      BY <1>7, <3>1, <3>2
  <2>2. ASSUME NEW t \in lo + 1 .. lo + k PROVE t \in T
    <3>1. t \in 1 .. n /\ t \notin 1 .. lo /\ t \in 1 .. hi
      BY <1>7
    <3>2. plans[t].query \in Int /\ ~(plans[t].query < q) /\ plans[t].query < q + 1
      BY <1>3, <1>4, <3>1
    <3> QED
      BY <1>3, <1>6, <3>1, <3>2
  <2> QED
    BY <2>1, <2>2
<1>9. Cardinality(T) = k /\ Ascending(T) = [j \in 1 .. k |-> lo + j]
  <2>1. lo \in Int
    OBVIOUS
  <2>2. /\ Cardinality(lo + 1 .. lo + k) = k
        /\ Ascending(lo + 1 .. lo + k) = [j \in 1 .. k |-> lo + j]
    BY <1>7, <2>1, AscendingInterval
  <2> QED
    BY <1>8, <2>2
<1>10. Len(K) = k /\ \A j \in 1 .. k : plans[Ascending(T)[j]].cluster = K[j]
  BY <1>6, <1>9 DEF PlansOfQuery
<1>11. ASSUME NEW j \in 1 .. k PROVE plans[lo + j].query = q /\ plans[lo + j].cluster = K[j]
  <2>1. lo + j \in T
    BY <1>7, <1>8
  <2>2. Ascending(T)[j] = lo + j
    BY <1>9
  <2> QED
    BY <1>6, <1>10, <2>1, <2>2
<1> QED
  <2>1. lo \in 0 .. n /\ hi \in lo .. n /\ hi - lo = Len(K)
    BY <1>6, <1>7, <1>10
  <2>2. \A j \in 1 .. hi - lo : plans[lo + j].query = q /\ plans[lo + j].cluster = K[j]
    BY <1>6, <1>11
  <2>3. Neighbours(plans, n, q, K, lo, hi)
    BY <1>1, <1>2, <2>1, <2>2 DEF Neighbours
  <2> QED
    BY <2>3

\* What a query reads of a list: the positions, the scores, the rows.
PosOf(i, filter, c) ==
  LET from == i.packed.offsets[c] IN
  Ascending({p \in from + 1 .. from + ListRows(i, c) : Allowed(filter, i.packed.ids[p])})
ScoresOf(i, filter, p, c) ==
  LET ps == PosOf(i, filter, c) IN
  [j \in DOMAIN ps |-> Dist(p - i.centroids[c], i.codebook[i.packed.codes[ps[j]]])]
IdsOf(i, filter, c) ==
  LET ps == PosOf(i, filter, c) IN [j \in DOMAIN ps |-> i.packed.ids[ps[j]]]
ScoreParts(i, filter, p, K) == [j \in DOMAIN K |-> ScoresOf(i, filter, p, K[j])]
IdParts(i, filter, K) == [j \in DOMAIN K |-> IdsOf(i, filter, K[j])]

\* The rows that a query with these probes chooses by itself.
ChosenOf(i, filter, p, K, kref) ==
  LET ids == Cat(IdParts(i, filter, K))
      best == TopK(Cat(ScoreParts(i, filter, p, K)), kref)
  IN [t \in DOMAIN best |-> ids[best[t]]]
Chosen(i, s, p, probes) == ChosenOf(i, s.filter, p, KeptOf(i, s, probes), Krefine(s))

\* A list that can be scored.
Scored(i, s, c) ==
  /\ i.packed.offsets[c] \in Int /\ Accepted(i, s, c) \in Nat
  /\ IdsOf(i, s.filter, c) \in Seq(Int)
  /\ \A p \in Int : /\ ScoresOf(i, s.filter, p, c) \in Seq(Int)
                    /\ Len(ScoresOf(i, s.filter, p, c)) = Len(IdsOf(i, s.filter, c))
  /\ ~Fused(s) => Len(IdsOf(i, s.filter, c)) = Accepted(i, s, c)
  /\ s.filter = All => \A j \in 1 .. Len(IdsOf(i, s.filter, c)) :
                         IdsOf(i, s.filter, c)[j] = i.packed.ids[i.packed.offsets[c] + j]

\* The scores and rows of a block, plan after plan.
PlanScores(i, s, plans) ==
  [t \in DOMAIN plans |-> ScoresOf(i, s.filter, s.q[plans[t].query], plans[t].cluster)]
PlanIds(i, s, plans) == [t \in DOMAIN plans |-> IdsOf(i, s.filter, plans[t].cluster)]

LEMMA BlockReads ==
  ASSUME NEW i, NEW s, NEW plans
  PROVE  /\ Adc(i, s, plans) = Cat(PlanScores(i, s, plans))
         /\ CandidateIds(i, s, plans) = Cat(PlanIds(i, s, plans))
<1>1. \A t \in DOMAIN plans : Positions(i, s, plans[t]) = PosOf(i, s.filter, plans[t].cluster)
  BY DEF Positions, PosOf
<1>2. PICK a : a = [t \in DOMAIN plans |->
                     LET ps == Positions(i, s, plans[t]) IN
                     [p \in DOMAIN ps |-> Score(i, s, plans[t], i.packed.codes[ps[p]])]]
  OBVIOUS
<1>3. a = PlanScores(i, s, plans)
  <2>1. ASSUME NEW t \in DOMAIN plans
        PROVE  a[t] = ScoresOf(i, s.filter, s.q[plans[t].query], plans[t].cluster)
    <3>1. PICK ps : ps = PosOf(i, s.filter, plans[t].cluster)
      OBVIOUS
    <3>2. a[t] = [p \in DOMAIN ps |-> Score(i, s, plans[t], i.packed.codes[ps[p]])]
      BY <1>1, <1>2, <3>1
    <3>3. \A p : Score(i, s, plans[t], i.packed.codes[ps[p]]) =
             Dist(s.q[plans[t].query] - i.centroids[plans[t].cluster], i.codebook[i.packed.codes[ps[p]]])
      BY DEF Score
    <3> QED
      BY <3>1, <3>2, <3>3 DEF ScoresOf
  <2> QED
    BY <1>2, <2>1 DEF PlanScores
<1>4. PICK d : d = [t \in DOMAIN plans |->
                     LET ps == Positions(i, s, plans[t]) IN [p \in DOMAIN ps |-> i.packed.ids[ps[p]]]]
  OBVIOUS
<1>5. d = PlanIds(i, s, plans)
  <2>1. ASSUME NEW t \in DOMAIN plans PROVE d[t] = IdsOf(i, s.filter, plans[t].cluster)
    BY <1>1, <1>4 DEF IdsOf
  <2> QED
    BY <1>4, <2>1 DEF PlanIds
<1>6. Adc(i, s, plans) = Cat(a)
  BY <1>2 DEF Adc
<1>7. CandidateIds(i, s, plans) = Cat(d)
  BY <1>4 DEF CandidateIds
<1> QED
  BY <1>3, <1>5, <1>6, <1>7

\* Parts of the same lengths begin at the same offsets.
SameLengths(a, b) == Len(a) = Len(b) /\ \A t \in 1 .. Len(a) : Len(a[t]) = Len(b[t])

LEMMA SameOffsets ==
  ASSUME NEW A, NEW B, NEW a \in Seq(Seq(A)), NEW b \in Seq(Seq(B)), SameLengths(a, b)
  PROVE  /\ \A t \in 1 .. Len(a) + 1 : Off(a, t) = Off(b, t)
         /\ Len(Cat(a)) = Len(Cat(b))
<1>1. PICK n : n = Len(a)
  OBVIOUS
<1>2. n \in Nat /\ Len(b) = n /\ \A t \in 1 .. n : Len(a[t]) = Len(b[t])
  BY <1>1 DEF SameLengths
<1>3. PICK T : T = {t \in 1 .. n + 1 : Off(a, t) = Off(b, t)}
  OBVIOUS
<1>4. Off(a, 1) = 0 /\ \A t \in 1 .. n : Off(a, t + 1) = Off(a, t) + Len(a[t])
  BY <1>1, CatFacts
<1>5. Off(b, 1) = 0 /\ \A t \in 1 .. n : Off(b, t + 1) = Off(b, t) + Len(b[t])
  BY <1>2, CatFacts
<1>6. 1 \in T
  BY <1>2, <1>3, <1>4, <1>5
<1>7. ASSUME NEW t \in 1 + 1 .. n + 1, t - 1 \in T PROVE t \in T
  <2>1. PICK u : u = t - 1
    OBVIOUS
  <2>2. u \in 1 .. n /\ u + 1 = t /\ t \in 1 .. n + 1
    BY <1>2, <2>1
  <2>3. Off(a, u) = Off(b, u)
    BY <1>3, <1>7, <2>1
  <2>4. Off(a, t) = Off(a, u) + Len(a[u]) /\ Off(b, t) = Off(b, u) + Len(b[u])
    BY <1>4, <1>5, <2>2
  <2>5. Len(a[u]) = Len(b[u])
    BY <1>2, <2>2
  <2> QED
    BY <1>3, <2>2, <2>3, <2>4, <2>5
<1>8. \A t \in 1 .. n + 1 : t \in T
  <2>1. 1 \in Int /\ n + 1 \in Int
    BY <1>2
  <2> QED
    BY <2>1, <1>6, <1>7, Climb
<1>9. \A t \in 1 .. n + 1 : Off(a, t) = Off(b, t)
  BY <1>3, <1>8
<1>10. Off(a, n + 1) = Len(Cat(a))
  BY <1>1, CatFacts
<1>11. Off(b, n + 1) = Len(Cat(b))
  BY <1>2, CatFacts
<1>12. n + 1 \in 1 .. n + 1
  BY <1>2
<1> QED
  BY <1>1, <1>9, <1>10, <1>11, <1>12

ReadAll(i, s, L) == \A c \in 1 .. L : Scored(i, s, c)

\* The lists a query keeps, and its parts.
LEMMA KeptFacts ==
  ASSUME NEW i, NEW s, NEW L \in Nat, NEW probes \in Seq(1 .. L)
  PROVE  KeptOf(i, s, probes) \in Seq(1 .. L)
<1>1. PICK S : S = {t \in DOMAIN probes : Accepted(i, s, probes[t]) > 0}
  OBVIOUS
<1>2. S \in SUBSET DOMAIN probes
  BY <1>1
<1>3. At(probes, S) \in Seq(1 .. L)
  BY <1>2, AtFacts
<1> QED
  BY <1>1, <1>3 DEF KeptOf

\* a and b hold the scores and the rows of n lists, K, for n values, ps.
PartsAre(a, b, i, filter, ps, K, n) ==
  /\ a = [j \in 1 .. n |-> ScoresOf(i, filter, ps[j], K[j])]
  /\ b = [j \in 1 .. n |-> IdsOf(i, filter, K[j])]

LEMMA PartsOf ==
  ASSUME NEW i, NEW s, NEW L \in Nat, ReadAll(i, s, L), NEW n \in Nat, NEW K, NEW ps,
         \A j \in 1 .. n : K[j] \in 1 .. L /\ ps[j] \in Int,
         NEW a, NEW b, PartsAre(a, b, i, s.filter, ps, K, n)
  PROVE  a \in Seq(Seq(Int)) /\ b \in Seq(Seq(Int)) /\ SameLengths(a, b)
<1>1. /\ a = [j \in 1 .. n |-> ScoresOf(i, s.filter, ps[j], K[j])]
      /\ b = [j \in 1 .. n |-> IdsOf(i, s.filter, K[j])]
  BY DEF PartsAre
<1>0. PICK W : W = Seq(Int)
  OBVIOUS
<1>2. ASSUME NEW j \in 1 .. n PROVE a[j] \in W /\ b[j] \in W /\ Len(a[j]) = Len(b[j])
  <2>1. PICK c, p : c = K[j] /\ p = ps[j]
    OBVIOUS
  <2>2. c \in 1 .. L /\ p \in Int
    BY <2>1
  <2>3. Scored(i, s, c)
    BY <2>2 DEF ReadAll
  <2>4. /\ IdsOf(i, s.filter, c) \in Seq(Int) /\ ScoresOf(i, s.filter, p, c) \in Seq(Int)
        /\ Len(ScoresOf(i, s.filter, p, c)) = Len(IdsOf(i, s.filter, c))
    BY <2>2, <2>3 DEF Scored
  <2>5. a[j] = ScoresOf(i, s.filter, p, c) /\ b[j] = IdsOf(i, s.filter, c)
    BY <1>1, <2>1
  <2> QED
    BY <1>0, <2>4, <2>5
<1>3. a \in [1 .. n -> W] /\ b \in [1 .. n -> W]
  <2>1. a = [j \in 1 .. n |-> a[j]] /\ b = [j \in 1 .. n |-> b[j]]
    BY <1>1
  <2> QED
    BY <1>2, <2>1
<1>4. a \in Seq(W) /\ b \in Seq(W)
  BY <1>3, SeqDef
<1>5. Len(a) = n /\ Len(b) = n
  BY <1>3, <1>4, LenProperties
<1>6. SameLengths(a, b)
  BY <1>2, <1>5 DEF SameLengths
<1> QED
  BY <1>0, <1>4, <1>6

\* A part of a sequence.
LEMMA CutOut ==
  ASSUME NEW A, NEW s \in Seq(A), NEW z \in Seq(A), NEW o \in Nat, o + Len(z) <= Len(s),
         \A v \in 1 .. Len(z) : s[o + v] = z[v]
  PROVE  SubSeq(s, o + 1, o + Len(z)) = z
<1>1. PICK m : m = Len(z)
  OBVIOUS
<1>2. m \in Nat /\ Len(s) \in Nat
  BY <1>1
<1>3. SubSeq(s, o + 1, o + m) = [v \in 1 .. m |-> s[o + v]]
  <2>1. PICK wd, x, y : wd = SubSeq(s, x, y) /\ x = o + 1 /\ y = o + m
    OBVIOUS
  <2>2. x \in 1 .. Len(s) + 1 /\ y \in x - 1 .. Len(s)
    BY <1>1, <1>2, <2>1
  <2>8. x \in Int /\ y \in Int /\ y - x + 1 = m /\ y - x + 1 \in Nat
    BY <1>2, <2>1
  <2>9. \A v \in x .. y : s[v] \in A
    BY <1>2, <2>2, <2>8, SeqFacts
  <2>10. wd \in Seq(A)
    BY <2>1, <2>8, <2>9, SubSeqProperties
  <2>11. Len(wd) = IF x <= y THEN y - x + 1 ELSE 0
    BY <2>1, <2>8, <2>9, SubSeqProperties
  <2>12. \A v \in 1 .. y - x + 1 : wd[v] = s[x + v - 1]
    BY <2>1, <2>8, <2>9, SubSeqProperties
  <2>3. wd \in Seq(A) /\ Len(wd) = y - x + 1 /\ \A v \in 1 .. y - x + 1 : wd[v] = s[x + v - 1]
    <3>1. Len(wd) = y - x + 1
      BY <2>8, <2>11
    <3> QED
      BY <2>10, <2>12, <3>1
  <2>4. y - x + 1 = m /\ \A v \in 1 .. m : x + v - 1 = o + v
    BY <1>2, <2>1
  <2>5. wd = [v \in 1 .. m |-> wd[v]]
    BY <2>3, <2>4, SeqFacts
  <2>6. \A v \in 1 .. m : wd[v] = s[o + v]
    BY <2>3, <2>4
  <2>7. wd = [v \in 1 .. m |-> s[o + v]]
    BY <2>5, <2>6
  <2> QED
    BY <2>1, <2>7
<1>4. z = [v \in 1 .. m |-> z[v]]
  BY <1>1, SeqFacts
<1>5. \A v \in 1 .. m : s[o + v] = z[v]
  BY <1>1
<1> QED
  BY <1>1, <1>3, <1>4, <1>5

\* What a query chooses in a block by adc and top-k is what it chooses alone.
\* The numbers b to e of a batch, and a query that chooses by adc and top-k.
Numbers(z, b, e) == \A r \in b .. e : z[r] \in Int

Shortlisted(i, s, L, cl, b, e, plans, q) ==
  /\ L \in Nat /\ ReadAll(i, s, L) /\ ~Fused(s) /\ Krefine(s) \in Nat
  /\ b \in Int /\ e \in Int /\ Laid(plans, i, s, cl, b, e, L)
  /\ Numbers(s.q, b, e) /\ q \in b .. e /\ cl[q] \in Seq(1 .. L)

LEMMA ShortlistIs ==
  ASSUME NEW i, NEW s, NEW L, NEW cl, NEW b, NEW e, NEW plans, NEW q,
         Shortlisted(i, s, L, cl, b, e, plans, q)
  PROVE  Shortlist(i, s, plans, q) = Chosen(i, s, s.q[q], cl[q])
<1> /\ L \in Nat /\ ReadAll(i, s, L) /\ ~Fused(s) /\ Krefine(s) \in Nat
    /\ b \in Int /\ e \in Int /\ Laid(plans, i, s, cl, b, e, L)
    /\ Numbers(s.q, b, e) /\ q \in b .. e /\ cl[q] \in Seq(1 .. L)
  BY DEF Shortlisted
<1>1. PICK n, K, p, f, kref : /\ n = Len(plans) /\ K = KeptOf(i, s, cl[q]) /\ p = s.q[q]
                              /\ f = s.filter /\ kref = Krefine(s)
  OBVIOUS
<1>2. /\ n \in Nat /\ DOMAIN plans = 1 .. n /\ p \in Int /\ q \in Int /\ kref \in Nat
      /\ \A t \in 1 .. n : plans[t].query \in b .. e /\ plans[t].cluster \in 1 .. L
  BY <1>1 DEF Laid, Numbers
<1>3. K \in Seq(1 .. L)
  BY <1>1, KeptFacts
<1>4. Ordered(plans, n)
  BY <1>1, <1>2 DEF Laid, Ordered
<1>5. PlansOfQuery(plans, q, K)
  BY <1>1 DEF Laid
<1>6. PICK lo, hi : Neighbours(plans, n, q, K, lo, hi)
  BY <1>2, <1>4, <1>5, PlansAreNeighbours
<1>7. PICK ss, si : ss = PlanScores(i, s, plans) /\ si = PlanIds(i, s, plans)
  OBVIOUS
<1>8. Adc(i, s, plans) = Cat(ss) /\ CandidateIds(i, s, plans) = Cat(si)
  BY <1>7, BlockReads
<1>9. /\ ss = [t \in 1 .. n |-> ScoresOf(i, f, s.q[plans[t].query], plans[t].cluster)]
      /\ si = [t \in 1 .. n |-> IdsOf(i, f, plans[t].cluster)]
  BY <1>1, <1>2, <1>7 DEF PlanScores, PlanIds
<1>10. ss \in Seq(Seq(Int)) /\ si \in Seq(Seq(Int)) /\ SameLengths(ss, si)
  <2>1. PICK C, ps : C = [t \in 1 .. n |-> plans[t].cluster] /\ ps = [t \in 1 .. n |-> s.q[plans[t].query]]
    OBVIOUS
  <2>2. \A t \in 1 .. n : C[t] \in 1 .. L /\ ps[t] \in Int
    BY <1>2, <2>1 DEF Numbers
  <2>3. PartsAre(ss, si, i, s.filter, ps, C, n)
    BY <1>1, <1>9, <2>1 DEF PartsAre
  <2> QED
    BY <1>2, <2>2, <2>3, PartsOf
<1>11. Len(ss) = n /\ Len(si) = n
  BY <1>2, <1>9
<1>12. \A t \in 1 .. n : Len(ss[t]) = Len(si[t]) /\ Len(si[t]) = plans[t].rows
  <2>1. ASSUME NEW t \in 1 .. n PROVE Len(ss[t]) = Len(si[t]) /\ Len(si[t]) = plans[t].rows
    <3>1. Scored(i, s, plans[t].cluster)
      BY <1>2 DEF ReadAll
    <3>2. plans[t].rows = Accepted(i, s, plans[t].cluster)
      BY <1>1 DEF Laid
    <3>3. Len(IdsOf(i, s.filter, plans[t].cluster)) = Accepted(i, s, plans[t].cluster)
      BY <3>1 DEF Scored
    <3>4. Len(ss[t]) = Len(si[t])
      BY <1>10, <1>11 DEF SameLengths
    <3>5. si[t] = IdsOf(i, s.filter, plans[t].cluster)
      BY <1>1, <1>9
    <3> QED
      BY <3>2, <3>3, <3>4, <3>5
  <2> QED
    BY <2>1
<1>13. Lines(plans, ss, n) /\ Lines(plans, si, n)
  <2>1. /\ \A t \in 1 .. n : /\ plans[t].offset \in Nat /\ plans[t].rows \in Nat /\ plans[t].rows > 0
                             /\ Len(ss[t]) = plans[t].rows /\ Len(si[t]) = plans[t].rows
        /\ 1 \in 1 .. n => plans[1].offset = 0
        /\ \A t \in 1 .. n - 1 : plans[t + 1].offset = plans[t].offset + plans[t].rows
    BY <1>1, <1>12 DEF Laid
  <2> QED
    BY <1>1, <1>2, <1>11, <2>1 DEF Lines
<1>14. /\ lo \in 0 .. n /\ hi \in lo .. n /\ hi - lo = Len(K)
       /\ {t \in DOMAIN plans : plans[t].query < q} = 1 .. lo
       /\ {t \in DOMAIN plans : plans[t].query < q + 1} = 1 .. hi
       /\ \A j \in 1 .. hi - lo : plans[lo + j].query = q /\ plans[lo + j].cluster = K[j]
  BY <1>6 DEF Neighbours
<1>15. lo \in Nat /\ hi \in 0 .. n /\ hi \in Nat /\ q + 1 \in Int
  BY <1>2, <1>14
<1>160. FirstOnes(plans, q, lo) /\ FirstOnes(plans, q + 1, hi)
  BY <1>14 DEF FirstOnes
<1>16. QueryBegin(plans, q) = Off(ss, lo + 1)
  BY SMTT(30), <1>2, <1>10, <1>13, <1>14, <1>160, BeginIs
<1>17. QueryBegin(plans, q + 1) = Off(ss, hi + 1)
  BY <1>2, <1>10, <1>13, <1>15, <1>160, BeginIs
<1>18. PICK a, d : a = ScoreParts(i, f, p, K) /\ d = IdParts(i, f, K)
  OBVIOUS
<1>19. /\ a = [j \in 1 .. Len(K) |-> ScoresOf(i, f, p, K[j])]
       /\ d = [j \in 1 .. Len(K) |-> IdsOf(i, f, K[j])]
       /\ Len(K) \in Nat /\ DOMAIN K = 1 .. Len(K) /\ \A j \in 1 .. Len(K) : K[j] \in 1 .. L
  BY <1>3, <1>18, SeqFacts DEF ScoreParts, IdParts
<1>20. a \in Seq(Seq(Int)) /\ d \in Seq(Seq(Int)) /\ SameLengths(a, d) /\ Len(a) = Len(K) /\ Len(d) = Len(K)
  <2>1. PICK m, ps : m = Len(K) /\ ps = [j \in 1 .. m |-> p]
    OBVIOUS
  <2>2. m \in Nat /\ \A j \in 1 .. m : K[j] \in 1 .. L /\ ps[j] \in Int
    BY <1>2, <1>19, <2>1
  <2>3. PartsAre(a, d, i, s.filter, ps, K, m)
    BY <1>1, <1>19, <2>1 DEF PartsAre
  <2>4. a \in Seq(Seq(Int)) /\ d \in Seq(Seq(Int)) /\ SameLengths(a, d)
    BY <2>2, <2>3, PartsOf
  <2> QED
    BY <1>19, <2>4
<1>21. Between(a, Int, ss, lo, hi) /\ Between(d, Int, si, lo, hi)
  <2>1. ASSUME NEW j \in 1 .. hi - lo PROVE a[j] = ss[lo + j] /\ d[j] = si[lo + j]
    <3>1. lo + j \in 1 .. n /\ j \in 1 .. Len(K)
      <4>1. PICK k : k = hi - lo
        OBVIOUS
      <4>2. k = Len(K) /\ lo + k = hi /\ k \in Int /\ lo \in Nat /\ hi <= n
        BY <1>14, <1>15, <4>1
      <4>3. j \in 1 .. k /\ lo + j <= lo + k
        BY <4>1, <4>2
      <4> QED
        BY SMTT(30), <1>2, <4>2, <4>3
    <3>2. plans[lo + j].query = q /\ plans[lo + j].cluster = K[j]
      BY <1>14
    <3> QED
      BY <1>1, <1>9, <1>19, <3>1, <3>2
  <2> QED
    BY <1>14, <1>20, <2>1 DEF Between
<1>22. Placement(a, ss, lo, hi) /\ Placement(d, si, lo, hi)
  <2>1. lo \in 0 .. Len(ss) /\ hi \in lo .. Len(ss) /\ lo \in 0 .. Len(si) /\ hi \in lo .. Len(si)
    BY <1>11, <1>14
  <2>2. Placement(a, ss, lo, hi)
    BY <1>10, <1>21, <2>1, CatPart
  <2>3. Placement(d, si, lo, hi)
    BY <1>10, <1>21, <2>1, CatPart
  <2> QED
    BY <2>2, <2>3
<1>23. PICK o, A, D, B, C : /\ o = Off(ss, lo + 1) /\ A = Cat(a) /\ D = Cat(d) /\ B = Cat(ss) /\ C = Cat(si)
  OBVIOUS
<1>24. A \in Seq(Int) /\ D \in Seq(Int) /\ B \in Seq(Int) /\ C \in Seq(Int)
  BY <1>10, <1>20, <1>23, CatFacts
<1>25. Len(A) = Len(D) /\ Len(B) = Len(C)
  BY <1>10, <1>20, <1>23, SameOffsets
<1>26. o = Off(si, lo + 1) /\ o \in Nat
  <2>1. lo + 1 \in 1 .. Len(ss) + 1
    BY <1>11, <1>14
  <2> QED
    BY <1>10, <1>23, <2>1, SameOffsets, CatFacts
<1>27. Off(ss, hi + 1) = o + Len(A) /\ o + Len(A) <= Len(B)
  <2>1. Off(ss, hi + 1) = o + Len(A)
    BY <1>22, <1>23 DEF Placement
  <2>2. hi + 1 \in 1 .. Len(ss) + 1 /\ Len(ss) + 1 \in 1 .. Len(ss) + 1 /\ hi + 1 <= Len(ss) + 1
    BY <1>2, <1>11, <1>14
  <2>3. Off(ss, hi + 1) <= Off(ss, Len(ss) + 1)
    BY <1>10, <2>2, OffGrows
  <2>4. Off(ss, Len(ss) + 1) = Len(B)
    BY <1>10, <1>23, CatFacts
  <2> QED
    BY <2>1, <2>3, <2>4
<1>28. \A v \in 1 .. Len(A) : B[o + v] = A[v]
  BY <1>22, <1>23 DEF Placement
<1>29. \A v \in 1 .. Len(A) : C[o + v] = D[v]
  BY <1>22, <1>23, <1>25, <1>26 DEF Placement
<1>30. SubSeq(B, QueryBegin(plans, q) + 1, QueryBegin(plans, q + 1)) = A
  <2>1. SubSeq(B, o + 1, o + Len(A)) = A
    BY <1>24, <1>26, <1>27, <1>28, CutOut
  <2> QED
    BY <1>16, <1>17, <1>23, <1>27, <2>1
<1>31. PICK best : best = TopK(A, kref)
  OBVIOUS
<1>32. \A t \in DOMAIN best : best[t] \in 1 .. Len(A)
  <2>1. best \in [1 .. Least(kref, Len(A)) -> DOMAIN A]
    BY <1>2, <1>24, <1>31, TopKFacts
  <2>2. DOMAIN A = 1 .. Len(A)
    BY <1>24, SeqFacts
  <2> QED
    BY <2>1, <2>2
<1>33. Chosen(i, s, s.q[q], cl[q]) = [t \in DOMAIN best |-> D[best[t]]]
  BY <1>1, <1>18, <1>23, <1>31 DEF Chosen, ChosenOf
<1>34. ASSUME NEW t \in DOMAIN best
       PROVE  (IF s.filter # All THEN C[DenseOffset(plans, q, best[t]) + 1]
               ELSE ResolveId(i, plans, DenseOffset(plans, q, best[t]))) = D[best[t]]
  <2>1. PICK v, dense : v = best[t] /\ dense = DenseOffset(plans, q, best[t])
    OBVIOUS
  <2>2. v \in 1 .. Len(A) /\ Len(A) \in Nat /\ Len(B) \in Nat
    BY SMTT(30), <1>24, <1>32, <2>1
  <2>3. dense = o + v - 1
    BY <1>16, <1>23, <2>1 DEF DenseOffset
  <2>4. dense + 1 = o + v /\ o + v \in 1 .. Len(C) /\ (o + v) - 1 = dense
    BY <1>25, <1>26, <1>27, <2>2, <2>3, SMTT(30)
  <2>5. C[dense + 1] = D[v]
    BY <1>29, <2>2, <2>4
  <2>6. ASSUME s.filter = All PROVE ResolveId(i, plans, dense) = C[o + v]
    <3>1. ASSUME NEW u \in 1 .. n
          PROVE  /\ i.packed.offsets[plans[u].cluster] \in Int
                 /\ \A j \in 1 .. Len(si[u]) :
                      si[u][j] = i.packed.ids[i.packed.offsets[plans[u].cluster] + j]
      <4>1. Scored(i, s, plans[u].cluster)
        BY <1>2 DEF ReadAll
      <4>2. si[u] = IdsOf(i, s.filter, plans[u].cluster)
        BY <1>1, <1>9
      <4> QED
        BY <2>6, <4>1, <4>2 DEF Scored
    <3>2. o + v \in 1 .. Len(Cat(si))
      BY <1>23, <2>4
    <3>4. WholeLists(i, plans, si, n)
      BY <3>1 DEF WholeLists
    <3>3. ResolveId(i, plans, (o + v) - 1) = Cat(si)[o + v]
      BY <1>2, <1>10, <1>13, <3>2, <3>4, ResolveIs
    <3> QED
      BY <1>23, <2>4, <3>3
  <2> QED
    BY <2>1, <2>4, <2>5, <2>6
<1>35. Shortlist(i, s, plans, q) =
         [t \in DOMAIN best |->
            IF s.filter # All THEN C[DenseOffset(plans, q, best[t]) + 1]
            ELSE ResolveId(i, plans, DenseOffset(plans, q, best[t]))]
  BY <1>1, <1>8, <1>23, <1>30, <1>31 DEF Shortlist
<1> QED
  BY <1>33, <1>34, <1>35

\* What a query chooses in a block by the fused scan is what it chooses alone.
LEMMA FusedIs ==
  ASSUME NEW i, NEW s, NEW L \in Nat, NEW cl, NEW b \in Int, NEW e \in Int,
         NEW plans, Laid(plans, i, s, cl, b, e, L), NEW q \in b .. e, cl[q] \in Seq(1 .. L)
  PROVE  FusedShortlist(i, s, At(plans, {t \in DOMAIN plans : plans[t].query = q})) =
           Chosen(i, s, s.q[q], cl[q])
<1>1. PICK n, K, p, f, kref, T : /\ n = Len(plans) /\ K = KeptOf(i, s, cl[q]) /\ p = s.q[q]
                                 /\ f = s.filter /\ kref = Krefine(s)
                                 /\ T = {t \in DOMAIN plans : plans[t].query = q}
  OBVIOUS
<1>2. n \in Nat /\ DOMAIN plans = 1 .. n
  BY <1>1 DEF Laid
<1>3. K \in Seq(1 .. L)
  BY <1>1, KeptFacts
<1>4. Len(K) \in Nat /\ DOMAIN K = 1 .. Len(K)
  BY <1>3, SeqFacts
<1>5. Cardinality(T) = Len(K) /\ \A j \in 1 .. Len(K) : plans[Ascending(T)[j]].cluster = K[j]
  BY <1>1 DEF Laid, PlansOfQuery
<1>6. Counts(Ascending(T), Cardinality(T), T)
  <2>1. T \in SUBSET (1 .. n)
    BY <1>1, <1>2
  <2>2. IsFiniteSet(1 .. n)
    BY <1>2, FS_Interval
  <2>3. IsFiniteSet(T)
    BY <2>1, <2>2, FS_Subset
  <2>4. T \subseteq Int
    BY <2>1
  <2> QED
    BY <2>3, <2>4, AscendingCounts
<1>7. Ascending(T) \in [1 .. Len(K) -> T]
  BY <1>5, <1>6 DEF Counts
<1>8. PICK z : z = At(plans, T)
  OBVIOUS
<1>9. z = [j \in 1 .. Len(K) |-> plans[Ascending(T)[j]]]
  BY <1>7, <1>8 DEF At
<1>10. DOMAIN z = DOMAIN K /\ \A j \in DOMAIN z : z[j].query = q /\ z[j].cluster = K[j]
  <2>1. ASSUME NEW j \in 1 .. Len(K) PROVE z[j].query = q /\ z[j].cluster = K[j]
    <3>1. Ascending(T)[j] \in T
      BY <1>7
    <3>2. plans[Ascending(T)[j]].query = q
      BY <1>1, <3>1
    <3> QED
      BY <1>5, <1>9, <3>2
  <2> QED
    BY <1>4, <1>9, <2>1
<1>11. PlanScores(i, s, z) = ScoreParts(i, f, p, K) /\ PlanIds(i, s, z) = IdParts(i, f, K)
  BY <1>1, <1>10 DEF PlanScores, PlanIds, ScoreParts, IdParts
<1>12. PICK A, D, best : /\ A = Cat(ScoreParts(i, f, p, K)) /\ D = Cat(IdParts(i, f, K))
                         /\ best = TopK(A, kref)
  OBVIOUS
<1>13. Adc(i, s, z) = A /\ CandidateIds(i, s, z) = D
  BY <1>11, <1>12, BlockReads
<1>14. FusedShortlist(i, s, z) = [t \in DOMAIN best |-> D[best[t]]]
  BY <1>1, <1>12, <1>13 DEF FusedShortlist
<1>15. Chosen(i, s, s.q[q], cl[q]) = [t \in DOMAIN best |-> D[best[t]]]
  BY <1>1, <1>12 DEF Chosen, ChosenOf
<1> QED
  BY <1>1, <1>8, <1>14, <1>15

\* A residual has a code.
LEMMA CodeFacts ==
  ASSUME NEW v \in Int, NEW B \in Seq(Int) \ {<<>>}
  PROVE  pq_encode(v, B) \in DOMAIN B
<1>1. Len(B) \in Nat /\ DOMAIN B = 1 .. Len(B) /\ Len(B) > 0 /\ \A c \in 1 .. Len(B) : B[c] \in Int
  <2>1. B \in Seq(Int) /\ B # <<>>
    OBVIOUS
  <2>2. Len(B) # 0
    BY <2>1, EmptySeq
  <2> QED
    BY <2>1, <2>2, SeqFacts
<1>2. PICK g : g = [c \in 1 .. Len(B) |-> Dist(v, B[c])]
  OBVIOUS
<1>3. \A c \in 1 .. Len(B) : g[c] \in Nat
  <2>1. \A z \in Int : z * z \in Nat
    OBVIOUS
  <2>2. \A c \in 1 .. Len(B) : v - B[c] \in Int
    BY <1>1
  <2> QED
    BY <1>2, <2>1, <2>2 DEF Dist
<1>4. PICK V : V = {m \in Nat : \E c \in 1 .. Len(B) : g[c] = m}
  OBVIOUS
<1>5. V \subseteq Nat /\ V # {}
  <2>1. 1 \in 1 .. Len(B)
    BY <1>1
  <2>2. g[1] \in V
    BY <1>3, <1>4, <2>1
  <2> QED
    BY <1>4, <2>2
<1>6. PICK m \in V : \A y \in V : m <= y
  BY <1>5, LeastPlace
<1>7. PICK T : T = {c \in 1 .. Len(B) : g[c] = m}
  OBVIOUS
<1>8. T \subseteq Nat /\ T # {}
  BY <1>1, <1>4, <1>6, <1>7
<1>9. PICK c \in T : \A y \in T : c <= y
  BY <1>8, LeastPlace
<1>10. c \in 1 .. Len(B) /\ g[c] = m /\ m \in Nat
  BY <1>4, <1>6, <1>7, <1>9
<1>11. \A d \in 1 .. Len(B) : g[c] <= g[d]
  BY <1>3, <1>4, <1>6, <1>10
<1>12. ASSUME NEW d \in 1 .. c - 1 PROVE g[d] > g[c]
  <2>1. d \in 1 .. Len(B) /\ ~(c <= d)
    BY <1>1, <1>10
  <2>2. d \notin T
    BY <1>9, <2>1
  <2>3. g[d] # m /\ g[d] \in Nat /\ m <= g[d]
    BY <1>3, <1>7, <1>10, <1>11, <2>1, <2>2
  <2> QED
    BY <1>10, <2>3
<1>13. \E e \in DOMAIN B : /\ \A d \in DOMAIN B : Dist(v, B[e]) <= Dist(v, B[d])
                           /\ \A d \in 1 .. e - 1 : Dist(v, B[d]) > Dist(v, B[e])
  <2>1. \A d \in 1 .. c - 1 : d \in 1 .. Len(B)
    BY <1>1, <1>10
  <2> QED
    BY <1>1, <1>2, <1>10, <1>11, <1>12, <2>1
<1> QED
  BY <1>13 DEF pq_encode

\* The lists of a right index can be scored.
LEMMA RightScored ==
  ASSUME NEW i, Right(i), i.kind \in {"pq", "scann"}, NEW s
  PROVE  ReadAll(i, s, Lists(i)) /\ Lists(i) \in Nat
<1>1. PICK x, C, lists, B, home, n, L, codes :
        /\ x = i.x /\ C = i.centroids /\ lists = i.lists /\ B = i.codebook
        /\ home = HomesOf(x, C) /\ n = Len(x) /\ L = Len(C) /\ codes = Codes(x, home, C, B)
  OBVIOUS
<1>2. Clustered(x, C, lists)
  BY <1>1 DEF Right
<1>3. x \in Seq(Values) /\ C \in Seq(Values) /\ L > 0 /\ Sorted(lists, home, n, L)
      /\ B \in Seq(Int) \ {<<>>}
  BY <1>1, <1>2 DEF Clustered, Right
<1>4. home \in [1 .. n -> 1 .. L] /\ n \in Nat /\ L \in Nat
  BY <1>1, <1>3, HomesFacts
<1>5. /\ DOMAIN x = 1 .. n /\ (\A r \in 1 .. n : x[r] \in Int) /\ (\A c \in 1 .. L : C[c] \in Int)
      /\ \A c \in DOMAIN B : B[c] \in Int
  <2>1. Values \subseteq Int
    BY IvfAssumption
  <2> QED
    BY <1>1, <1>3, <2>1, SeqFacts
<1>6. lists \in Seq(Seq(1 .. n)) /\ Len(lists) = L /\ \A c \in 1 .. L : lists[c] \in Seq(1 .. n)
  BY <1>3, <1>4 DEF Sorted
<1>7. i = PqIndex(i.kind, x, C, B, lists)
  BY <1>1 DEF Right
<1>8. PICK P : P = Packed(lists, codes)
  OBVIOUS
<1>9. i.packed = P
  BY <1>1, <1>7, <1>8 DEF PqIndex, Index
<1>10. \A r \in 1 .. n : codes[r] \in DOMAIN B
  <2>1. ASSUME NEW r \in 1 .. n PROVE codes[r] \in DOMAIN B
    <3>1. codes[r] = pq_encode(x[r] - C[home[r]], B)
      BY <1>1, <1>5 DEF Codes
    <3>2. x[r] - C[home[r]] \in Int
      BY <1>4, <1>5
    <3> QED
      BY <1>3, <3>1, <3>2, CodeFacts
  <2> QED
    BY <2>1
<1>11. ASSUME NEW c \in 1 .. L PROVE Scored(i, s, c)
  <2>1. PICK from, raw, f : from = P.offsets[c] /\ raw = ListRows(i, c) /\ f = s.filter
    OBVIOUS
  <2>2. from \in Nat /\ raw = Len(lists[c]) /\ raw \in Nat
    <3>1. c \in 1 .. Len(lists)
      BY <1>6
    <3>2. P.offsets[c] \in Nat /\ P.offsets[c + 1] - P.offsets[c] = Len(lists[c])
      BY <1>6, <1>8, <3>1, PackedFacts
    <3>3. Len(lists[c]) \in Nat
      BY <1>6
    <3> QED
      BY <1>9, <2>1, <3>2, <3>3 DEF ListRows
  <2>3. \A t \in 1 .. raw : P.ids[from + t] = lists[c][t] /\ P.codes[from + t] = codes[lists[c][t]]
    <3>1. c \in 1 .. Len(lists)
      BY <1>6
    <3>2. \A t \in 1 .. Len(lists[c]) :
            /\ P.ids[P.offsets[c] + t] = lists[c][t]
            /\ P.codes[P.offsets[c] + t] = codes[lists[c][t]]
      <4>1. lists \in Seq(Seq(1 .. n))
        BY <1>6
      <4> QED
        BY <1>8, <3>1, <4>1, PackedFacts
    <3> QED
      BY <2>1, <2>2, <3>2
  <2>4. \A t \in 1 .. raw : P.ids[from + t] \in 1 .. n /\ P.codes[from + t] \in DOMAIN B
    <3>1. \A t \in 1 .. raw : lists[c][t] \in 1 .. n
      BY <1>6, <2>2, SeqFacts
    <3> QED
      BY <1>10, <2>3, <3>1
  <2>5. PICK F : F = {p \in from + 1 .. from + raw : Allowed(f, P.ids[p])}
    OBVIOUS
  <2>6. \A p \in from + 1 .. from + raw : P.ids[p] \in 1 .. n /\ P.codes[p] \in DOMAIN B
    <3>1. ASSUME NEW p \in from + 1 .. from + raw PROVE P.ids[p] \in 1 .. n /\ P.codes[p] \in DOMAIN B
      <4>1. PICK t : t = p - from
        OBVIOUS
      <4>2. t \in 1 .. raw /\ from + t = p
        BY <2>2, <4>1
      <4> QED
        BY <2>4, <4>2
    <3> QED
      BY <3>1
  <2>7. IsFiniteSet(F) /\ F \subseteq Int
    <3>1. F \in SUBSET (from + 1 .. from + raw)
      BY <2>5
    <3>2. IsFiniteSet(from + 1 .. from + raw)
      BY <2>2, FS_Interval
    <3>3. IsFiniteSet(F)
      BY <3>1, <3>2, FS_Subset
    <3> QED
      BY <3>1, <3>3
  <2>8. PICK k, ps : k = Cardinality(F) /\ ps = Ascending(F)
    OBVIOUS
  <2>9. k \in Nat /\ ps \in [1 .. k -> F]
    BY <2>7, <2>8, AscendingCounts DEF Counts
  <2>10. PosOf(i, f, c) = ps
    BY <1>9, <2>1, <2>5, <2>8 DEF PosOf
  <2>11. \A j \in 1 .. k : P.ids[ps[j]] \in Int /\ P.codes[ps[j]] \in DOMAIN B
    <3>1. \A j \in 1 .. k : ps[j] \in from + 1 .. from + raw
      BY <2>5, <2>9
    <3> QED
      BY <2>6, <3>1
  <2>12. PICK a : a = IdsOf(i, f, c)
    OBVIOUS
  <2>13. a = [j \in 1 .. k |-> P.ids[ps[j]]]
    BY <1>9, <2>9, <2>10, <2>12 DEF IdsOf
  <2>14. a \in Seq(Int) /\ Len(a) = k
    BY <2>9, <2>11, <2>13
  <2>15. ASSUME NEW p \in Int
         PROVE  ScoresOf(i, f, p, c) \in Seq(Int) /\ Len(ScoresOf(i, f, p, c)) = k
    <3>1. PICK z : z = ScoresOf(i, f, p, c)
      OBVIOUS
    <3>2. z = [j \in 1 .. k |-> Dist(p - C[c], B[P.codes[ps[j]]])]
      BY <1>1, <1>9, <2>9, <2>10, <3>1 DEF ScoresOf
    <3>3. ASSUME NEW j \in 1 .. k PROVE Dist(p - C[c], B[P.codes[ps[j]]]) \in Int
      <4>1. PICK u, wd : u = p - C[c] /\ wd = B[P.codes[ps[j]]]
        OBVIOUS
      <4>2. u \in Int /\ wd \in Int
        BY <1>5, <2>11, <4>1
      <4>3. (u - wd) * (u - wd) \in Int
        BY <4>2
      <4> QED
        BY <4>1, <4>3 DEF Dist
    <3>4. z \in [1 .. k -> Int]
      BY <3>2, <3>3
    <3>5. z \in Seq(Int) /\ Len(z) = k
      BY <2>9, <3>4
    <3> QED
      BY <3>1, <3>5
  <2>16. Accepted(i, s, c) = IF f = All \/ Fused(s) THEN raw ELSE k
    BY <1>9, <2>1, <2>5, <2>8 DEF Accepted
  <2>17. ASSUME f = All PROVE k = raw /\ \A j \in 1 .. k : ps[j] = from + j
    <3>1. F = from + 1 .. from + raw
      BY <2>5, <2>17 DEF Allowed
    <3>2. /\ Cardinality(from + 1 .. from + raw) = raw
          /\ Ascending(from + 1 .. from + raw) = [t \in 1 .. raw |-> from + t]
      <4>1. from \in Int
        BY <2>2
      <4> QED
        BY <2>2, <4>1, AscendingInterval
    <3> QED
      BY <2>8, <3>1, <3>2
  <2>18. i.packed.offsets[c] \in Int /\ Accepted(i, s, c) \in Nat
    BY <1>9, <2>1, <2>2, <2>9, <2>16
  <2>19. ~Fused(s) => Len(a) = Accepted(i, s, c)
    BY <2>14, <2>16, <2>17
  <2>20. s.filter = All => \A j \in 1 .. Len(a) : a[j] = i.packed.ids[i.packed.offsets[c] + j]
    BY <1>9, <2>1, <2>13, <2>14, <2>17
  <2> QED
    BY <2>1, <2>12, <2>14, <2>15, <2>18, <2>19, <2>20 DEF Scored
<1> QED
  BY <1>1, <1>4, <1>11 DEF ReadAll, Lists

-----------------------------------------------------------------------------
(* A query and the others of its batch.                                    *)

\* What a search is given besides its queries.
Rest(s) == [k |-> s.k, nprobe |-> s.nprobe, krefine |-> s.krefine, filter |-> s.filter, dev |-> s.dev]

LEMMA OnlyTheRest ==
  ASSUME NEW i, NEW s, NEW p
  PROVE  /\ Krefine(s) = Krefine(Rest(s)) /\ Fused(s) = Fused(Rest(s))
         /\ Coarse(i, s, p) = Coarse(i, Rest(s), p)
         /\ \A ids : Rescored(i, s, p, ids) = Rescored(i, Rest(s), p, ids)
         /\ \A c : Accepted(i, s, c) = Accepted(i, Rest(s), c)
<1>1. Krefine(s) = Krefine(Rest(s)) /\ Fused(s) = Fused(Rest(s))
  BY DEF Krefine, Fused, Rest
<1>2. Coarse(i, s, p) = Coarse(i, Rest(s), p)
  BY DEF Coarse, Nprobe, Rest
<1>3. \A ids : Rescored(i, s, p, ids) = Rescored(i, Rest(s), p, ids)
  BY DEF Rescored, Rest
<1>4. \A c : Accepted(i, s, c) = Accepted(i, Rest(s), c)
  BY <1>1 DEF Accepted, Rest
<1> QED
  BY <1>1, <1>2, <1>3, <1>4

\* The answers of IVF-Flat and RaBitQ, from the lists they read.
FlatOf(i, cl, dev, filter, k, p) ==
  LET ids == Cat([t \in DOMAIN cl |-> i.lists[cl[t]]])
      sc0 == Pairwise(dev, p, Gathered(dev, i.x, ids))
      sc == [t \in DOMAIN ids |-> IF Allowed(filter, ids[t]) THEN sc0[t] ELSE Inf]
      best == Best(dev, sc, k)
  IN Filled([t \in DOMAIN best |->
              IF best[t] = 0 THEN Stray ELSE <<ids[best[t]], Value(dev, sc[best[t]])>>], k)
RabitqOf(i, cl, dev, filter, kref, p) ==
  LET all == Cat([t \in DOMAIN cl |-> i.lists[cl[t]]])
      ids == At(all, {t \in DOMAIN all : Allowed(filter, all[t])})
      adc == [t \in DOMAIN ids |-> Dist(p - i.centroids[i.assign[ids[t]]], i.codes[ids[t]])]
      best == Best(dev, adc, kref)
  IN [t \in DOMAIN best |-> ids[best[t]]]

LEMMA AnswersOfTheRest ==
  ASSUME NEW i, NEW s, NEW p
  PROVE  /\ FlatAnswer(i, s, p) = FlatAnswer(i, Rest(s), p)
         /\ RabitqAnswer(i, s, p) = RabitqAnswer(i, Rest(s), p)
         /\ \A probes : Chosen(i, s, p, probes) = Chosen(i, Rest(s), p, probes)
<1>1. FlatAnswer(i, s, p) = FlatAnswer(i, Rest(s), p)
  <2>1. \A z : FlatAnswer(i, z, p) = FlatOf(i, Coarse(i, z, p), z.dev, z.filter, z.k, p)
    BY DEF FlatAnswer, FlatOf
  <2>2. Coarse(i, s, p) = Coarse(i, Rest(s), p)
    BY OnlyTheRest
  <2>3. Rest(s).dev = s.dev /\ Rest(s).filter = s.filter /\ Rest(s).k = s.k
    BY DEF Rest
  <2> QED
    BY <2>1, <2>2, <2>3
<1>2. RabitqAnswer(i, s, p) = RabitqAnswer(i, Rest(s), p)
  <2>1. \A z : RabitqAnswer(i, z, p) =
          Rescored(i, z, p, RabitqOf(i, Coarse(i, z, p), z.dev, z.filter, Krefine(z), p))
    BY DEF RabitqAnswer, RabitqOf
  <2>2. Coarse(i, s, p) = Coarse(i, Rest(s), p) /\ Krefine(s) = Krefine(Rest(s))
    BY OnlyTheRest
  <2>3. Rest(s).dev = s.dev /\ Rest(s).filter = s.filter
    BY DEF Rest
  <2>4. \A ids : Rescored(i, s, p, ids) = Rescored(i, Rest(s), p, ids)
    BY OnlyTheRest
  <2> QED
    BY <2>1, <2>2, <2>3, <2>4
<1>3. ASSUME NEW probes PROVE Chosen(i, s, p, probes) = Chosen(i, Rest(s), p, probes)
  <2>1. KeptOf(i, s, probes) = KeptOf(i, Rest(s), probes)
    BY OnlyTheRest DEF KeptOf
  <2>2. Krefine(s) = Krefine(Rest(s))
    BY OnlyTheRest
  <2>3. Rest(s).filter = s.filter
    BY DEF Rest
  <2> QED
    BY <2>1, <2>2, <2>3 DEF Chosen
<1> QED
  BY <1>1, <1>2, <1>3

\* What Search passes on.
Searchable(s) ==
  s \in [q : Seq(Values), k : Nat \ {0}, nprobe : Int, krefine : Int,
         filter : Filters, dev : Devices]
One(s, q) == [s EXCEPT !.q = <<s.q[q]>>]

LEMMA SearchFacts ==
  ASSUME NEW s, Searchable(s)
  PROVE  /\ s.q \in Seq(Values) /\ s.k \in Nat /\ s.k > 0 /\ s.nprobe \in Int
         /\ Krefine(s) \in Nat /\ Krefine(s) >= s.k /\ s.dev \in Devices
         /\ \A p \in Seq(Values) : Searchable([s EXCEPT !.q = p]) /\ [s EXCEPT !.q = p].q = p
                                   /\ Rest([s EXCEPT !.q = p]) = Rest(s)
<1>1. s.q \in Seq(Values) /\ s.k \in Nat /\ s.k > 0 /\ s.nprobe \in Int /\ s.krefine \in Int
      /\ s.dev \in Devices
  BY DEF Searchable
<1>2. Krefine(s) \in Nat /\ Krefine(s) >= s.k
  BY <1>1 DEF Krefine
<1>3. ASSUME NEW p \in Seq(Values)
      PROVE  Searchable([s EXCEPT !.q = p]) /\ [s EXCEPT !.q = p].q = p
             /\ Rest([s EXCEPT !.q = p]) = Rest(s)
  <2>1. PICK z : z = [s EXCEPT !.q = p]
    OBVIOUS
  <2>2. Searchable(z) /\ z.q = p
    BY <2>1 DEF Searchable
  <2>3. z.k = s.k /\ z.nprobe = s.nprobe /\ z.krefine = s.krefine /\ z.filter = s.filter /\ z.dev = s.dev
    BY <2>1 DEF Searchable
  <2>4. Rest(z) = Rest(s)
    BY <2>3 DEF Rest
  <2> QED
    BY <2>1, <2>2, <2>4
<1> QED
  BY <1>1, <1>2, <1>3

LEMMA OneFacts ==
  ASSUME NEW s, Searchable(s), NEW q \in DOMAIN s.q
  PROVE  /\ Searchable(One(s, q)) /\ Rest(One(s, q)) = Rest(s)
         /\ 1 \in DOMAIN One(s, q).q /\ One(s, q).q[1] = s.q[q]
<1>1. PICK p : p = <<s.q[q]>>
  OBVIOUS
<1>2. s.q \in Seq(Values)
  BY SearchFacts
<1>3. s.q[q] \in Values
  BY <1>2, SeqFacts
<1>4. p \in Seq(Values) /\ 1 \in DOMAIN p /\ p[1] = s.q[q]
  BY <1>1, <1>3
<1>5. One(s, q) = [s EXCEPT !.q = p]
  BY <1>1 DEF One
<1> QED
  BY <1>4, <1>5, SearchFacts

\* The lists a query probes.
LEMMA CoarseFacts ==
  ASSUME NEW i, i.centroids \in Seq(Values), Lists(i) > 0, NEW s, Searchable(s), NEW p \in Values
  PROVE  Coarse(i, s, p) \in Seq(1 .. Lists(i)) /\ Nprobe(i, s) \in 1 .. Lists(i)
<1>1. PICK L, C, sc, np : /\ L = Lists(i) /\ C = i.centroids /\ sc = Pairwise(s.dev, p, C)
                          /\ np = Nprobe(i, s)
  OBVIOUS
<1>2. L \in Nat /\ L > 0 /\ DOMAIN C = 1 .. L /\ \A c \in 1 .. L : C[c] \in Values
  BY <1>1, SeqFacts DEF Lists
<1>3. np \in 1 .. L
  <2>1. s.nprobe \in Int
    BY SearchFacts
  <2> QED
    BY <1>1, <1>2, <2>1 DEF Nprobe, Most, Least
<1>4. sc \in Seq(Int) /\ Len(sc) = L
  <2>1. sc = [c \in 1 .. L |-> IF Ok(s.dev, "pairwise") THEN Dist(p, C[c]) ELSE 0]
    BY <1>1, <1>2 DEF Pairwise
  <2>2. \A c \in 1 .. L : (IF Ok(s.dev, "pairwise") THEN Dist(p, C[c]) ELSE 0) \in Int
    BY <1>2, DistFacts
  <2>3. sc \in [1 .. L -> Int]
    BY <2>1, <2>2
  <2> QED
    BY <1>2, <2>3
<1>5. DOMAIN sc = 1 .. L
  BY <1>4, SeqFacts
<1>6. CASE Ok(s.dev, "topk")
  <2>1. np \in Nat /\ Least(np, Len(sc)) \in Nat
    BY <1>2, <1>3, <1>4 DEF Least
  <2>2. TopK(sc, np) \in [1 .. Least(np, Len(sc)) -> DOMAIN sc]
    BY <1>4, <2>1, TopKFacts
  <2>3. TopK(sc, np) \in Seq(1 .. L)
    <3>1. PICK m, z : m = Least(np, Len(sc)) /\ z = TopK(sc, np)
      OBVIOUS
    <3>2. m \in Nat /\ z \in [1 .. m -> 1 .. L]
      BY <1>5, <2>1, <2>2, <3>1
    <3>3. z \in Seq(1 .. L)
      <4>1. PICK W : W = 1 .. L
        OBVIOUS
      <4>2. z \in [1 .. m -> W]
        BY <3>2, <4>1
      <4>3. z \in Seq(W)
        BY <3>2, <4>2, SeqDef
      <4> QED
        BY <4>1, <4>3
    <3> QED
      BY <3>1, <3>3
  <2>4. Coarse(i, s, p) = TopK(sc, np)
    BY <1>1, <1>6 DEF Coarse
  <2> QED
    BY <1>1, <1>3, <2>3, <2>4
<1>7. CASE ~Ok(s.dev, "topk")
  <2>1. Coarse(i, s, p) = [t \in 1 .. np |-> 1]
    BY <1>1, <1>7 DEF Coarse
  <2>2. [t \in 1 .. np |-> 1] \in Seq(1 .. L)
    BY <1>2, <1>3
  <2> QED
    BY <1>1, <1>3, <2>1, <2>2
<1> QED
  BY <1>6, <1>7

\* The answer of a PQ search to one query, alone.
PqOf(i, s, p) == Rescored(i, s, p, Chosen(i, s, p, Coarse(i, s, p)))

LEMMA PqAnswersAre ==
  ASSUME NEW i, Right(i), i.kind \in {"pq", "scann"}, NEW s, Searchable(s), NEW q \in DOMAIN s.q
  PROVE  PqAnswers(i, s)[q] = PqOf(i, s, s.q[q])
<1>1. PICK N, L, cl : N = Len(s.q) /\ L = Lists(i) /\ cl = [r \in DOMAIN s.q |-> Coarse(i, s, s.q[r])]
  OBVIOUS
<1>2. s.q \in Seq(Values) /\ Krefine(s) \in Nat
  BY SearchFacts
<1>3. N \in Nat /\ DOMAIN s.q = 1 .. N /\ \A r \in 1 .. N : s.q[r] \in Values
  BY <1>1, <1>2, SeqFacts
<1>4. L \in Nat /\ ReadAll(i, s, L)
  BY <1>1, RightScored
<1>5. i.centroids \in Seq(Values) /\ L > 0
  BY <1>1 DEF Right, Clustered, Lists
<1>6. \A r \in 1 .. N : cl[r] \in Seq(1 .. L)
  BY <1>1, <1>3, <1>5, CoarseFacts
<1>7. cl \in [1 .. N -> Seq(1 .. L)] /\ Len(cl) = N
  BY SMTT(30), <1>1, <1>3, <1>6
<1>8. PICK b, e : b = BlockStart(i, cl)[q] /\ e = BlockEnd(i, cl, b)
  OBVIOUS
<1>9. q \in 1 .. N
  BY <1>3
<1>10. b \in 1 .. q /\ q <= e
  BY <1>3, <1>7, <1>8, <1>9, BlockStartFacts
<1>11. b \in 1 .. N /\ b \in Int
  BY <1>3, <1>9, <1>10
<1>12. e \in b .. N /\ e \in Int /\ N \in Int
  <2>1. BlockEnd(i, cl, b) \in b .. N
    BY <1>3, <1>7, <1>11, BlockEndFacts
  <2> QED
    BY <1>3, <1>8, <1>11, <2>1
<1>13. q \in b .. e
  BY <1>9, <1>10, <1>11, <1>12
<1>14. PICK plans : plans = Plans(i, s, cl, b)
  OBVIOUS
<1>15. \A c \in 1 .. L : Accepted(i, s, c) \in Nat
  BY <1>4 DEF ReadAll, Scored
<1>16. Laid(plans, i, s, cl, b, e, L)
  <2>1. BlockEnd(i, cl, b) \in b .. N
    BY <1>8, <1>12
  <2>2. Laid(Plans(i, s, cl, b), i, s, cl, b, BlockEnd(i, cl, b), L)
    BY <1>3, <1>4, <1>7, <1>11, <1>15, <2>1, LaidFacts
  <2> QED
    BY <1>8, <1>14, <2>2
<1>17. Numbers(s.q, b, e)
  <2>1. Values \subseteq Int
    BY IvfAssumption
  <2>2. \A r \in b .. e : r \in 1 .. N
    <3>1. b \in Int /\ e \in Int /\ N \in Int /\ 1 <= b /\ e <= N
      BY <1>11, <1>12
    <3> QED
      BY <3>1
  <2> QED
    BY <1>3, <2>1, <2>2 DEF Numbers
<1>18. cl[q] \in Seq(1 .. L)
  BY <1>6, <1>9
<1>19. Selected(i, s, plans, q) = Chosen(i, s, s.q[q], cl[q])
  <2>1. CASE Fused(s)
    <3>1. FusedShortlist(i, s, At(plans, {t \in DOMAIN plans : plans[t].query = q})) =
            Chosen(i, s, s.q[q], cl[q])
      BY <1>4, <1>11, <1>12, <1>13, <1>16, <1>18, FusedIs
    <3> QED
      BY <2>1, <3>1 DEF Selected
  <2>2. CASE ~Fused(s)
    <3>1. Shortlist(i, s, plans, q) = Chosen(i, s, s.q[q], cl[q])
      <4>1. b \in Int /\ e \in Int /\ Krefine(s) \in Nat
        BY <1>2, <1>11, <1>12
      <4>2. L \in Nat
        BY <1>4
      <4>3. ReadAll(i, s, L)
        BY <1>4
      <4>4. Shortlisted(i, s, L, cl, b, e, plans, q)
        BY <1>13, <1>16, <1>17, <1>18, <2>2, <4>1, <4>2, <4>3 DEF Shortlisted
      <4> QED
        BY <4>4, ShortlistIs
    <3> QED
      BY <2>2, <3>1 DEF Selected
  <2> QED
    BY <2>1, <2>2
<1>20. PqAnswers(i, s) = Probed(i, s, cl)
  BY <1>1 DEF PqAnswers
<1>21. Probed(i, s, cl)[q] = Rescored(i, s, s.q[q], Selected(i, s, Plans(i, s, cl, BlockStart(i, cl)[q]), q))
  BY DEF Probed
<1>22. cl[q] = Coarse(i, s, s.q[q])
  BY <1>1
<1> QED
  BY <1>8, <1>14, <1>19, <1>20, <1>21, <1>22 DEF PqOf

\* It depends on the rest of the search alone.
LEMMA PqOfTheRest ==
  ASSUME NEW i, NEW s, NEW p
  PROVE  PqOf(i, s, p) = PqOf(i, Rest(s), p)
<1>1. Coarse(i, s, p) = Coarse(i, Rest(s), p)
  BY OnlyTheRest
<1>2. PICK probes : probes = Coarse(i, s, p)
  OBVIOUS
<1>3. PICK ids : ids = Chosen(i, s, p, probes)
  OBVIOUS
<1>4. ids = Chosen(i, Rest(s), p, probes)
  BY <1>3, AnswersOfTheRest
<1>5. Rescored(i, s, p, ids) = Rescored(i, Rest(s), p, ids)
  BY OnlyTheRest
<1> QED
  BY <1>1, <1>2, <1>3, <1>4, <1>5 DEF PqOf

\* ScaNN: the inner search has other arguments, and its rows are rescored.
InnerOf(s) == [s EXCEPT !.k = Krefine(s), !.filter = All]
RowsIn(found) ==
  LET kept == At(found, {t \in DOMAIN found : found[t][1] # NoRow})
  IN [t \in DOMAIN kept |-> kept[t][1]]
InnerRest(rest) ==
  [k |-> Krefine(rest), nprobe |-> rest.nprobe, krefine |-> rest.krefine, filter |-> All,
   dev |-> rest.dev]
ScannOf(i, s, p) == Rescored(i, s, p, RowsIn(PqOf(i, InnerOf(s), p)))

LEMMA InnerFacts ==
  ASSUME NEW s, Searchable(s), s.filter = All
  PROVE  Searchable(InnerOf(s)) /\ InnerOf(s).q = s.q /\ Rest(InnerOf(s)) = InnerRest(Rest(s))
<1>1. Krefine(s) \in Nat \ {0} /\ Krefine(s) = Krefine(Rest(s))
  <2>1. Krefine(s) \in Nat /\ Krefine(s) >= s.k /\ s.k > 0 /\ s.k \in Nat
    BY SearchFacts
  <2>2. Krefine(s) = Krefine(Rest(s))
    BY DEF Krefine, Rest
  <2> QED
    BY <2>1, <2>2
<1>2. PICK z, kref : z = InnerOf(s) /\ kref = Krefine(s)
  OBVIOUS
<1>3. z = [s EXCEPT !.k = kref, !.filter = All] /\ kref \in Nat \ {0}
  BY <1>1, <1>2 DEF InnerOf
<1>4. All \in Filters
  BY DEF Searchable
<1>5. Searchable(z) /\ z.q = s.q
  BY <1>3, <1>4 DEF Searchable
<1>6. z.k = kref /\ z.filter = All /\ z.nprobe = s.nprobe /\ z.krefine = s.krefine /\ z.dev = s.dev
  BY <1>3 DEF Searchable
<1>7. Rest(z) = [k |-> kref, nprobe |-> s.nprobe, krefine |-> s.krefine, filter |-> All, dev |-> s.dev]
  BY <1>6 DEF Rest
<1>8. InnerRest(Rest(s)) = [k |-> kref, nprobe |-> s.nprobe, krefine |-> s.krefine, filter |-> All,
                            dev |-> s.dev]
  BY <1>1, <1>2 DEF InnerRest, Rest
<1> QED
  BY <1>2, <1>5, <1>7, <1>8

LEMMA ScannAnswersAre ==
  ASSUME NEW i, Right(i), i.kind = "scann", NEW s, Searchable(s), s.filter = All, NEW q \in DOMAIN s.q
  PROVE  ScannAnswers(i, s)[q] = ScannOf(i, s, s.q[q])
<1>1. PICK inner : inner = PqAnswers(i, InnerOf(s))
  OBVIOUS
<1>2. inner[q] = PqOf(i, InnerOf(s), s.q[q])
  BY <1>1, InnerFacts, PqAnswersAre
<1>3. ScannAnswers(i, s)[q] = Rescored(i, s, s.q[q], RowsIn(inner[q]))
  BY <1>1 DEF ScannAnswers, RowsIn, InnerOf
<1> QED
  BY <1>2, <1>3 DEF ScannOf

LEMMA ScannOfTheRest ==
  ASSUME NEW i, NEW s, Searchable(s), s.filter = All, NEW p
  PROVE  ScannOf(i, s, p) =
           Rescored(i, Rest(s), p, RowsIn(PqOf(i, InnerRest(Rest(s)), p)))
<1>1. PICK z : z = InnerOf(s)
  OBVIOUS
<1>2. PqOf(i, z, p) = PqOf(i, Rest(z), p)
  BY PqOfTheRest
<1>3. Rest(z) = InnerRest(Rest(s))
  BY <1>1, InnerFacts
<1>4. PqOf(i, InnerOf(s), p) = PqOf(i, InnerRest(Rest(s)), p)
  BY <1>1, <1>2, <1>3
<1>5. \A ids : Rescored(i, s, p, ids) = Rescored(i, Rest(s), p, ids)
  BY OnlyTheRest
<1> QED
  BY <1>4, <1>5 DEF ScannOf

\* Cells of k, one row after another.
LEMMA CellPlace ==
  ASSUME NEW k \in Nat, NEW q \in Nat, NEW t \in 1 .. k, q > 0
  PROVE  /\ ((((q - 1) * k + t) - 1) \div k) + 1 = q
         /\ ((((q - 1) * k + t) - 1) % k) + 1 = t
<1>1. PICK u, v : u = q - 1 /\ v = t - 1
  OBVIOUS
<1>2. u \in Nat /\ v \in Nat /\ v < k /\ k > 0 /\ ((q - 1) * k + t) - 1 = u * k + v
  <2>1. u * k \in Int /\ (q - 1) * k = u * k
    BY <1>1
  <2> QED
    BY <1>1, <2>1
<1>3. (u * k + v) \div k = u /\ (u * k + v) % k = v
  BY <1>2
<1> QED
  BY <1>1, <1>2, <1>3

\* The answer of a brute-force search to one query, alone.
BruteScores(i, filter, p) ==
  [r \in 1 .. Rows(i) |-> IF Allowed(filter, r) THEN Dist(p, i.x[r]) ELSE Inf]
BruteOf(i, s, p) ==
  LET sc == BruteScores(i, s.filter, p)
      best == Best(s.dev, sc, s.k) IN
  [t \in 1 .. s.k |-> IF best[t] = 0 THEN Missing ELSE <<best[t], sc[best[t]]>>]

LEMMA BruteAnswersAre ==
  ASSUME NEW i, Rows(i) \in Nat, NEW s, Searchable(s), s.k <= Rows(i), NEW q \in DOMAIN s.q
  PROVE  BruteAnswers(i, s)[q] = BruteOf(i, s, s.q[q])
<1>1. PICK k, N, sc : k = s.k /\ N = Len(s.q) /\ sc = BruteScores(i, s.filter, s.q[q])
  OBVIOUS
<1>2. k \in Nat /\ k > 0 /\ k <= Rows(i)
  BY <1>1, SearchFacts
<1>3. N \in Nat /\ q \in 1 .. N /\ q \in Nat
  <2>1. s.q \in Seq(Values)
    BY SearchFacts
  <2> QED
    BY <1>1, <2>1, SeqFacts
<1>4. Least(k, Rows(i)) = k
  BY <1>2 DEF Least
<1>5. \A t \in 1 .. k : /\ ((((q - 1) * k + t) - 1) \div k) + 1 = q
                        /\ ((((q - 1) * k + t) - 1) % k) + 1 = t
  <2>1. k \in Nat /\ q \in Nat /\ q > 0
    BY <1>2, <1>3
  <2> QED
    BY Zenon, <2>1, CellPlace
<1> DEFINE scores(r) == [y \in 1 .. Rows(i) |->
                          IF Allowed(s.filter, y) THEN Dist(s.q[r], i.x[y]) ELSE Inf]
           kk == Least(s.k, Rows(i))
           cell(at) == LET r == ((at - 1) \div kk) + 1
                           t == ((at - 1) % kk) + 1 IN
                       IF r > Len(s.q) THEN Missing
                       ELSE LET y == Best(s.dev, scores(r), kk)[t] IN
                            IF y = 0 THEN Missing ELSE <<y, scores(r)[y]>>
<1>60. kk = k
  BY <1>1, <1>4
<1>6. BruteAnswers(i, s)[q] = [t \in 1 .. s.k |-> cell((q - 1) * s.k + t)]
  BY Zenon DEF BruteAnswers
<1>7. ASSUME NEW t \in 1 .. k
      PROVE  cell((q - 1) * k + t) =
               IF Best(s.dev, sc, k)[t] = 0 THEN Missing
               ELSE <<Best(s.dev, sc, k)[t], sc[Best(s.dev, sc, k)[t]]>>
  <2>1. scores(q) = sc
    BY <1>1 DEF BruteScores
  <2>2. ~(q > N) /\ N = Len(s.q)
    BY <1>1, <1>3
  <2> HIDE DEF scores, kk
  <2> QED
    BY <1>5, <1>60, <2>1, <2>2
<1> HIDE DEF cell
<1>8. BruteOf(i, s, s.q[q]) =
        [t \in 1 .. k |-> IF Best(s.dev, sc, k)[t] = 0 THEN Missing
                          ELSE <<Best(s.dev, sc, k)[t], sc[Best(s.dev, sc, k)[t]]>>]
  BY <1>1 DEF BruteOf
<1> QED
  BY <1>1, <1>6, <1>7, <1>8

LEMMA BruteOfTheRest ==
  ASSUME NEW i, NEW s, NEW p
  PROVE  BruteOf(i, s, p) = BruteOf(i, Rest(s), p)
BY DEF BruteOf, Rest

\* An index and a search that Search may take it through.
Askable(i, s) ==
  /\ Searchable(s) /\ i.kind \in {"brute", "flat", "rabitq", "pq", "scann"}
  /\ i.kind \in {"brute", "pq", "scann"} => Right(i)
  /\ i.kind = "brute" => s.k <= Rows(i) \/ "k_over_n" \in Habits
  /\ i.kind = "scann" => s.filter = All

\* The answer to one query, of an index of any kind.
AnswerOf(i, s, p) ==
  CASE i.kind = "brute" -> BruteOf(i, s, p)
    [] i.kind = "flat" -> FlatAnswer(i, s, p)
    [] i.kind = "rabitq" -> RabitqAnswer(i, s, p)
    [] i.kind = "pq" -> PqOf(i, s, p)
    [] i.kind = "scann" -> Rescored(i, s, p, RowsIn(PqOf(i, InnerRest(s), p)))

LEMMA EachAlone ==
  ASSUME NEW i, NEW s, Askable(i, s), "k_over_n" \notin Habits, NEW q \in DOMAIN s.q
  PROVE  Answers(i, s)[q] = AnswerOf(i, Rest(s), s.q[q])
<1>1. Searchable(s) /\ i.kind \in {"brute", "flat", "rabitq", "pq", "scann"}
  BY DEF Askable
<1>2. PICK p : p = s.q[q]
  OBVIOUS
<1>3. CASE i.kind = "brute"
  <2>1. Right(i) /\ s.k <= Rows(i)
    BY <1>3 DEF Askable
  <2>2. Rows(i) \in Nat
    <3>1. i.x \in Seq(Values)
      BY <1>3, <2>1 DEF Right
    <3> QED
      BY <3>1, SeqFacts DEF Rows
  <2>3. BruteAnswers(i, s)[q] = BruteOf(i, s, p)
    BY <1>1, <1>2, <2>1, <2>2, BruteAnswersAre
  <2>4. BruteOf(i, s, p) = BruteOf(i, Rest(s), p)
    BY BruteOfTheRest
  <2>5. Answers(i, s) = BruteAnswers(i, s) /\ AnswerOf(i, Rest(s), p) = BruteOf(i, Rest(s), p)
    BY <1>3 DEF Answers, AnswerOf
  <2> QED
    BY <1>2, <2>3, <2>4, <2>5
<1>4. CASE i.kind = "flat"
  <2>1. Answers(i, s) = [r \in DOMAIN s.q |-> FlatAnswer(i, s, s.q[r])]
        /\ AnswerOf(i, Rest(s), p) = FlatAnswer(i, Rest(s), p)
    BY <1>4 DEF Answers, AnswerOf
  <2>2. FlatAnswer(i, s, p) = FlatAnswer(i, Rest(s), p)
    BY AnswersOfTheRest
  <2> QED
    BY <1>2, <2>1, <2>2
<1>5. CASE i.kind = "rabitq"
  <2>1. Answers(i, s) = [r \in DOMAIN s.q |-> RabitqAnswer(i, s, s.q[r])]
        /\ AnswerOf(i, Rest(s), p) = RabitqAnswer(i, Rest(s), p)
    BY <1>5 DEF Answers, AnswerOf
  <2>2. RabitqAnswer(i, s, p) = RabitqAnswer(i, Rest(s), p)
    BY AnswersOfTheRest
  <2> QED
    BY <1>2, <2>1, <2>2
<1>6. CASE i.kind = "pq"
  <2>1. Right(i)
    BY <1>6 DEF Askable
  <2>2. PqAnswers(i, s)[q] = PqOf(i, s, p)
    BY <1>1, <1>2, <1>6, <2>1, PqAnswersAre
  <2>3. PqOf(i, s, p) = PqOf(i, Rest(s), p)
    BY PqOfTheRest
  <2>4. Answers(i, s) = PqAnswers(i, s) /\ AnswerOf(i, Rest(s), p) = PqOf(i, Rest(s), p)
    BY <1>6 DEF Answers, AnswerOf
  <2> QED
    BY <1>2, <2>2, <2>3, <2>4
<1>7. CASE i.kind = "scann"
  <2>1. Right(i) /\ s.filter = All
    BY <1>7 DEF Askable
  <2>2. ScannAnswers(i, s)[q] = ScannOf(i, s, p)
    BY <1>1, <1>2, <1>7, <2>1, ScannAnswersAre
  <2>3. ScannOf(i, s, p) = Rescored(i, Rest(s), p, RowsIn(PqOf(i, InnerRest(Rest(s)), p)))
    BY <1>1, <2>1, ScannOfTheRest
  <2>4. Answers(i, s) = ScannAnswers(i, s)
        /\ AnswerOf(i, Rest(s), p) = Rescored(i, Rest(s), p, RowsIn(PqOf(i, InnerRest(Rest(s)), p)))
    BY <1>7 DEF Answers, AnswerOf
  <2> QED
    BY <1>2, <2>2, <2>3, <2>4
<1> QED
  BY <1>1, <1>3, <1>4, <1>5, <1>6, <1>7

LEMMA OneAskable ==
  ASSUME NEW i, NEW s, Askable(i, s), NEW q \in DOMAIN s.q
  PROVE  Askable(i, One(s, q))
<1>1. PICK z : z = One(s, q)
  OBVIOUS
<1>2. Searchable(z) /\ Rest(z) = Rest(s)
  BY <1>1, OneFacts DEF Askable
<1>3. Rest(z).k = z.k /\ Rest(s).k = s.k /\ Rest(z).filter = z.filter /\ Rest(s).filter = s.filter
  BY DEF Rest
<1>4. z.k = s.k /\ z.filter = s.filter
  BY <1>2, <1>3
<1> QED
  BY <1>1, <1>2, <1>4 DEF Askable

\* What a search that succeeded left.
AskedInv ==
  Searched => /\ ix # NoIndex /\ Askable(ix, did.s) /\ did.answers = Answers(ix, did.s)
              /\ Usable(ix.kind, did.s.dev) /\ Succeeds(ix, did.s)

LEMMA SearchIsAsked ==
  ASSUME RightInv, IvfSearch
  PROVE  AskedInv'
<1>1. PICK q \in Batches, k \in SearchKs, nprobe \in Probes, krefine \in Refines,
           filter \in Filters, dev \in Devices :
        LET s == [q |-> q, k |-> k, nprobe |-> nprobe, krefine |-> krefine,
                  filter |-> filter, dev |-> dev] IN
        /\ Usable(ix.kind, dev)
        /\ ix.kind = "brute" => k <= Rows(ix) \/ "k_over_n" \in Habits
        /\ ix.kind = "scann" => filter = All
        /\ did' = IF Succeeds(ix, s)
                  THEN [op |-> "search", ok |-> TRUE, s |-> s, answers |-> Answers(ix, s)]
                  ELSE [op |-> "search", ok |-> FALSE]
  BY Zenon DEF IvfSearch
<1>0. PICK s : s = [q |-> q, k |-> k, nprobe |-> nprobe, krefine |-> krefine,
                    filter |-> filter, dev |-> dev]
  OBVIOUS
<1>8. did' = IF Succeeds(ix, s)
             THEN [op |-> "search", ok |-> TRUE, s |-> s, answers |-> Answers(ix, s)]
             ELSE [op |-> "search", ok |-> FALSE]
  BY <1>0, <1>1
<1>2. ix' = ix /\ ix # NoIndex
  BY DEF IvfSearch
<1>3. Searchable(s) /\ s.k = k /\ s.filter = filter /\ s.dev = dev
  BY <1>0, <1>1, IvfAssumption DEF Searchable
<1>9. Usable(ix.kind, s.dev)
  BY <1>1, <1>3
<1>4. ix.kind \in {"brute", "flat", "rabitq", "pq", "scann"} /\ (Trusted(ix.kind) => Right(ix))
  BY <1>2 DEF RightInv, RightIndex
<1>5. Askable(ix, s)
  BY <1>1, <1>3, <1>4 DEF Askable, Trusted
<1>6. CASE Succeeds(ix, s)
  <2>1. did'.s = s /\ did'.answers = Answers(ix, s)
    BY <1>6, <1>8
  <2> QED
    BY <1>2, <1>5, <1>6, <1>9, <2>1 DEF AskedInv
<1>7. CASE ~Succeeds(ix, s)
  <2>1. did'.ok = FALSE
    BY <1>7, <1>8
  <2> QED
    BY <2>1 DEF AskedInv, Searched
<1> QED
  BY <1>6, <1>7

\* What a successful search reported is what the index it left gives for its
\* arguments, which are those Search accepts, on devices whose failures it
\* does not drop.
THEOREM SearchesAreAsked == IvfSpec => []AskedInv
<1>1. IvfInit => AskedInv
  BY DEF IvfInit, AskedInv, Searched, Idle
<1>2. ASSUME RightInv, AskedInv, [IvfNext]_ivfVars PROVE AskedInv'
  <2>1. CASE IvfSearch
    BY <1>2, <2>1, SearchIsAsked
  <2>2. CASE UNCHANGED ivfVars
    BY <1>2, <2>2 DEF ivfVars, AskedInv, Searched, Askable, Answers, Usable, Succeeds
  <2>3. CASE Build \/ Extend \/ Serialize \/ Deserialize \/ Return
    <3>1. did'.op # "search"
      <4>1. CASE Build
        <5>1. PICK kind \in Kinds, D \in Datasets, C \in Centroids, B \in Codebooks, dev \in Devices :
                CASE kind = "brute" -> BuildBrute(D)
                  [] kind = "flat" -> BuildFlat(D, C, dev)
                  [] kind = "rabitq" -> BuildRabitq(D, C, dev)
                  [] kind = "pq" -> BuildPq("pq", D, C, B, dev)
                  [] kind = "scann" -> BuildScann(D, C, B, dev)
          BY <4>1, ZenonT(30) DEF Build
        <5>2. kind \in {"brute", "flat", "rabitq", "pq", "scann"}
          BY IvfAssumption
        <5>3. ASSUME NEW k, BuildPq(k, D, C, B, dev) PROVE did'.op = "build"
          BY <5>3 DEF BuildPq, Call
        <5>4. BuildBrute(D) \/ BuildFlat(D, C, dev) \/ BuildRabitq(D, C, dev) => did'.op = "build"
          BY DEF BuildBrute, BuildFlat, BuildRabitq, Call
        <5> QED
          BY <5>1, <5>2, <5>3, <5>4 DEF BuildScann
      <4>2. CASE Extend
        <5>1. PICK E \in Extras, dev \in Devices :
                CASE ix.kind = "pq" -> ExtendPq(E, dev)
                  [] ix.kind = "flat" -> ExtendFlat(E, dev)
                  [] ix.kind = "rabitq" -> ExtendRabitq(E, dev)
          BY <4>2 DEF Extend
        <5>2. ix.kind \in {"flat", "rabitq", "pq"}
          BY <4>2 DEF Extend
        <5>3. ExtendPq(E, dev) => did'.op = "extend"
          BY DEF ExtendPq, Call
        <5>4. ExtendFlat(E, dev) \/ ExtendRabitq(E, dev) => did'.op = "extend"
          BY DEF ExtendFlat, ExtendRabitq, Call
        <5> QED
          BY <5>1, <5>2, <5>3, <5>4
      <4>3. CASE Serialize
        BY <4>3 DEF Serialize, Call
      <4>4. CASE Deserialize
        BY <4>4 DEF Deserialize, Call
      <4>5. CASE Return
        BY <4>5 DEF Return, Idle
      <4> QED
        BY <2>3, <4>1, <4>2, <4>3, <4>4, <4>5
    <3> QED
      BY <3>1 DEF AskedInv, Searched
  <2> QED
    BY <1>2, <2>1, <2>2, <2>3 DEF IvfNext
<1> QED
  BY <1>1, <1>2, IndexesAreRight, PTL DEF IvfSpec

\* A query gets the answer it would get alone, whatever the batch it comes
\* with: for every index, batch, block size and device, when brute force is
\* not asked for more rows than there are (brute_search_impl,
\* ovvsIvfFlatSearch, ovvsIvfRabitqSearch, ovvsIvfPqSearch, ovvsScannSearch).
THEOREM QueriesAreAnsweredAlone ==
  "k_over_n" \notin Habits => (IvfSpec => []BatchesAnswerAlone)
<1>1. SUFFICES ASSUME "k_over_n" \notin Habits PROVE IvfSpec => []BatchesAnswerAlone
  OBVIOUS
<1>2. AskedInv => BatchesAnswerAlone
  <2>0. SUFFICES ASSUME AskedInv PROVE BatchesAnswerAlone
    OBVIOUS
  <2>1. SUFFICES ASSUME Searched, NEW q \in DOMAIN did.s.q
                 PROVE  did.answers[q] = Answers(ix, [did.s EXCEPT !.q = <<did.s.q[q]>>])[1]
    BY DEF BatchesAnswerAlone
  <2>2. PICK s, z : s = did.s /\ z = One(s, q)
    OBVIOUS
  <2>3. Askable(ix, s) /\ did.answers = Answers(ix, s) /\ q \in DOMAIN s.q
    BY <2>0, <2>1, <2>2 DEF AskedInv
  <2>4. Askable(ix, z)
    BY <2>2, <2>3, OneAskable
  <2>5. Rest(z) = Rest(s) /\ 1 \in DOMAIN z.q /\ z.q[1] = s.q[q]
    BY <2>2, <2>3, OneFacts DEF Askable
  <2>6. Answers(ix, s)[q] = AnswerOf(ix, Rest(s), s.q[q])
    BY <1>1, <2>3, EachAlone
  <2>7. Answers(ix, z)[1] = AnswerOf(ix, Rest(z), z.q[1])
    BY <1>1, <2>4, <2>5, EachAlone
  <2>8. z = [did.s EXCEPT !.q = <<did.s.q[q]>>]
    BY <2>2 DEF One
  <2> QED
    BY <2>3, <2>5, <2>6, <2>7, <2>8
<1> QED
  BY <1>2, SearchesAreAsked, PTL

-----------------------------------------------------------------------------
(* Full probes: what is read, and what is chosen of it.                    *)

\* ids holds the members of W, each once.
Enumerates(ids, W) ==
  /\ ids \in Seq(W)
  /\ \A t, u \in 1 .. Len(ids) : ids[t] = ids[u] => t = u
  /\ \A r \in W : \E t \in 1 .. Len(ids) : ids[t] = r

LEMMA EnumCount ==
  ASSUME NEW ids, NEW W, Enumerates(ids, W)
  PROVE  Len(ids) \in Nat /\ DOMAIN ids = 1 .. Len(ids) /\ IsFiniteSet(W) /\ Cardinality(W) = Len(ids)
<1>1. PICK n : n = Len(ids)
  OBVIOUS
<1>2. n \in Nat /\ DOMAIN ids = 1 .. n /\ ids \in Seq(W) /\ \A t \in 1 .. n : ids[t] \in W
  BY <1>1, SeqFacts DEF Enumerates
<1>3. ids \in [1 .. n -> W]
  BY <1>1, <1>2, SeqDef, LenProperties
<1>4. ids \in Bijection(1 .. n, W)
  <2>1. ids \in Injection(1 .. n, W)
    BY <1>1, <1>3 DEF Enumerates, Injection, IsInjective
  <2>2. ids \in Surjection(1 .. n, W)
    BY <1>1, <1>3 DEF Enumerates, Surjection
  <2> QED
    BY <2>1, <2>2 DEF Bijection
<1>5. IsFiniteSet(1 .. n) /\ Cardinality(1 .. n) = n
  BY <1>2, FS_Interval
<1>6. IsFiniteSet(W) /\ Cardinality(W) = n
  BY <1>4, <1>5, FS_Bijection DEF ExistsBijection
<1> QED
  BY <1>1, <1>2, <1>6

\* f names members of X, each place another, all of them.
Names(f, m, X) == \A u \in 1 .. m : f[u] \in X
Apart(f, m) == \A u, v \in 1 .. m : f[u] = f[v] => u = v
Reaches(f, m, X) == \A x \in X : \E u \in 1 .. m : f[u] = x

\* No more members than the places they are found at.
LEMMA AtMost ==
  ASSUME NEW X, NEW m \in Nat, NEW f, Reaches(f, m, X)
  PROVE  IsFiniteSet(X) /\ Cardinality(X) <= m /\ Cardinality(X) \in Nat
<1>1. PICK U : U = {u \in 1 .. m : f[u] \in X}
  OBVIOUS
<1>2. PICK g : g = [u \in U |-> f[u]]
  OBVIOUS
<1>3. g \in Surjection(U, X)
  BY <1>1, <1>2 DEF Surjection, Reaches
<1>4. IsFiniteSet(1 .. m) /\ Cardinality(1 .. m) = m
  BY FS_Interval
<1>5. U \in SUBSET (1 .. m)
  BY <1>1
<1>6. IsFiniteSet(U) /\ Cardinality(U) <= m
  BY <1>4, <1>5, FS_Subset
<1>7. IsFiniteSet(X) /\ Cardinality(X) <= Cardinality(U)
  BY <1>3, <1>6, FS_Surjection
<1>8. Cardinality(X) \in Nat /\ Cardinality(U) \in Nat
  BY <1>6, <1>7, FS_CardinalityType
<1> QED
  BY <1>6, <1>7, <1>8

\* No fewer members than are found at different places.
LEMMA AtLeast ==
  ASSUME NEW X, IsFiniteSet(X), NEW m \in Nat, NEW f, Names(f, m, X), Apart(f, m)
  PROVE  m <= Cardinality(X) /\ (Cardinality(X) = m => Reaches(f, m, X))
<1>1. PICK g : g = [u \in 1 .. m |-> f[u]]
  OBVIOUS
<1>2. g \in Injection(1 .. m, X)
  <2>1. g \in [1 .. m -> X]
    BY <1>1 DEF Names
  <2>2. \A u, v \in 1 .. m : g[u] = g[v] => u = v
    BY <1>1 DEF Apart
  <2> QED
    BY <2>1, <2>2 DEF Injection, IsInjective
<1>3. IsFiniteSet(1 .. m) /\ Cardinality(1 .. m) = m
  BY FS_Interval
<1>4. m <= Cardinality(X) /\ (m = Cardinality(X) => g \in Surjection(1 .. m, X))
  BY <1>2, <1>3, FS_Injection
<1>5. g \in Surjection(1 .. m, X) => Reaches(f, m, X)
  BY <1>1 DEF Surjection, Reaches
<1> QED
  BY <1>4, <1>5

\* Top-k of no more than k names every place.
LEMMA TopKAll ==
  ASSUME NEW sc \in Seq(Int), NEW k \in Nat, Len(sc) <= k
  PROVE  Enumerates(TopK(sc, k), 1 .. Len(sc)) /\ Len(TopK(sc, k)) = Len(sc)
<1>1. PICK n, T : n = Len(sc) /\ T = TopK(sc, k)
  OBVIOUS
<1>2. n \in Nat /\ DOMAIN sc = 1 .. n /\ Least(k, Len(sc)) = n
  BY <1>1, SeqFacts DEF Least
<1>3. /\ T \in [1 .. n -> 1 .. n] /\ Len(T) = n
      /\ \A t, u \in 1 .. n : t < u => Before(sc, T[t], T[u])
  BY <1>1, <1>2, TopKFacts
<1>4. \A t \in 1 .. n : T[t] \in 1 .. n /\ sc[T[t]] \in Int
  BY <1>1, <1>3, SeqFacts
<1>5. \A t, u \in 1 .. n : T[t] = T[u] => t = u
  <2>1. SUFFICES ASSUME NEW t \in 1 .. n, NEW u \in 1 .. n, T[t] = T[u], t # u PROVE FALSE
    OBVIOUS
  <2>2. Before(sc, T[t], T[u]) \/ Before(sc, T[u], T[t])
    <3>1. t < u \/ u < t
      BY <2>1
    <3> QED
      BY <1>3, <3>1
  <2>3. PICK a : a = T[t]
    OBVIOUS
  <2>4. a \in Int /\ sc[a] \in Int /\ Before(sc, a, a)
    BY <1>4, <2>1, <2>2, <2>3
  <2> QED
    BY <2>4 DEF Before
<1>6. \A x \in 1 .. n : \E u \in 1 .. n : T[u] = x
  <2>1. PICK X : X = 1 .. n
    OBVIOUS
  <2>2. IsFiniteSet(X) /\ Cardinality(X) = n
    BY <1>2, <2>1, FS_Interval
  <2>3. Names(T, n, X) /\ Apart(T, n)
    BY <1>4, <1>5, <2>1 DEF Names, Apart
  <2>4. n \in Nat
    BY <1>2
  <2>5. Reaches(T, n, X)
    BY <2>2, <2>3, <2>4, AtLeast
  <2> QED
    BY <2>1, <2>5 DEF Reaches
<1>7. T \in Seq(1 .. n)
  <2>1. PICK W : W = 1 .. n
    OBVIOUS
  <2>2. T \in [1 .. n -> W]
    BY <1>3, <2>1
  <2> QED
    BY <1>2, <2>1, <2>2, SeqDef
<1> QED
  BY <1>1, <1>3, <1>5, <1>6, <1>7 DEF Enumerates

\* An enumeration in another order.
LEMMA EnumOrder ==
  ASSUME NEW ids, NEW W, Enumerates(ids, W), NEW T, Enumerates(T, 1 .. Len(ids)),
         NEW z, z = [t \in DOMAIN T |-> ids[T[t]]]
  PROVE  Enumerates(z, W)
<1>1. PICK n, m : n = Len(ids) /\ m = Len(T)
  OBVIOUS
<1>2. n \in Nat /\ DOMAIN ids = 1 .. n /\ (\A t \in 1 .. n : ids[t] \in W)
  BY <1>1, EnumCount, SeqFacts DEF Enumerates
<1>3. m \in Nat /\ DOMAIN T = 1 .. m /\ \A t \in 1 .. m : T[t] \in 1 .. n
  <2>1. T \in Seq(1 .. n)
    BY <1>1 DEF Enumerates
  <2> QED
    BY <1>1, <2>1, SeqFacts
<1>4. z \in [1 .. m -> W] /\ \A t \in 1 .. m : z[t] = ids[T[t]]
  BY <1>2, <1>3
<1>5. z \in Seq(W) /\ Len(z) = m
  <2>1. z \in Seq(W)
    BY <1>3, <1>4, SeqDef
  <2> QED
    BY <1>3, <1>4, <2>1, LenProperties
<1>6. \A t, u \in 1 .. m : z[t] = z[u] => t = u
  BY SMTT(30), <1>1, <1>3, <1>4 DEF Enumerates
<1>7. ASSUME NEW r \in W PROVE \E t \in 1 .. m : z[t] = r
  <2>1. PICK j \in 1 .. n : ids[j] = r
    BY <1>1 DEF Enumerates
  <2>2. PICK t \in 1 .. m : T[t] = j
    BY <1>1, <2>1 DEF Enumerates
  <2> QED
    BY <1>4, <2>1, <2>2
<1> QED
  BY <1>5, <1>6, <1>7 DEF Enumerates

\* Parts that hold the members of W, each once.
SplitUp(parts, W) ==
  /\ parts \in Seq(Seq(W))
  /\ \A t, u \in 1 .. Len(parts) : \A a \in 1 .. Len(parts[t]) : \A b \in 1 .. Len(parts[u]) :
       parts[t][a] = parts[u][b] => t = u /\ a = b
  /\ \A r \in W : \E t \in 1 .. Len(parts) : \E a \in 1 .. Len(parts[t]) : parts[t][a] = r

LEMMA EnumCat ==
  ASSUME NEW parts, NEW W, SplitUp(parts, W)
  PROVE  Enumerates(Cat(parts), W)
<1>1. PICK z, n : z = Cat(parts) /\ n = Len(Cat(parts))
  OBVIOUS
<1>2. parts \in Seq(Seq(W))
  BY DEF SplitUp
<1>3. z \in Seq(W)
  BY <1>1, <1>2, CatFacts
<1>4. ASSUME NEW p \in 1 .. n
      PROVE  \E t \in 1 .. Len(parts) : \E a \in 1 .. Len(parts[t]) :
               p = Off(parts, t) + a /\ z[p] = parts[t][a]
  <2>1. PICK t \in 1 .. Len(parts) : \E a \in 1 .. Len(parts[t]) : p = Off(parts, t) + a
    BY <1>1, <1>2, CatPlace
  <2>2. PICK a \in 1 .. Len(parts[t]) : p = Off(parts, t) + a
    BY <2>1
  <2>3. z[p] = parts[t][a]
    BY <1>1, <1>2, <2>2, CatAt
  <2> QED
    BY <2>2, <2>3
<1>5. ASSUME NEW p \in 1 .. n, NEW q \in 1 .. n, z[p] = z[q] PROVE p = q
  <2>1. PICK t \in 1 .. Len(parts) : \E a \in 1 .. Len(parts[t]) :
           p = Off(parts, t) + a /\ z[p] = parts[t][a]
    BY <1>4
  <2>2. PICK a \in 1 .. Len(parts[t]) : p = Off(parts, t) + a /\ z[p] = parts[t][a]
    BY <2>1
  <2>3. PICK u \in 1 .. Len(parts) : \E b \in 1 .. Len(parts[u]) :
           q = Off(parts, u) + b /\ z[q] = parts[u][b]
    BY <1>4
  <2>4. PICK b \in 1 .. Len(parts[u]) : q = Off(parts, u) + b /\ z[q] = parts[u][b]
    BY <2>3
  <2>5. t = u /\ a = b
    BY <1>5, <2>2, <2>4, SMTT(30) DEF SplitUp
  <2> QED
    BY <2>2, <2>4, <2>5
<1>6. ASSUME NEW r \in W PROVE \E p \in 1 .. n : z[p] = r
  <2>1. PICK t \in 1 .. Len(parts) : \E a \in 1 .. Len(parts[t]) : parts[t][a] = r
    BY DEF SplitUp
  <2>2. PICK a \in 1 .. Len(parts[t]) : parts[t][a] = r
    BY <2>1
  <2>3. Off(parts, t) + a \in 1 .. n /\ z[Off(parts, t) + a] = parts[t][a]
    BY <1>1, <1>2, CatAt
  <2> QED
    BY <2>2, <2>3
<1> QED
  BY <1>1, <1>3, <1>5, <1>6 DEF Enumerates

\* The members of W are offered, each once and at its distance; what else is
\* offered is infinitely far.
Offers(ids, sc, N, W, d) ==
  /\ N \in Nat /\ sc \in Seq(Int) /\ Len(sc) = N
  /\ Apart(ids, N) /\ Reaches(ids, N, W)
  /\ \A j \in 1 .. N : IF ids[j] \in W THEN sc[j] = d[ids[j]] /\ sc[j] < Inf ELSE sc[j] = Inf

\* ans holds the k best offers, the infinite ones under any name.
Reports(ans, ids, sc, N, k) ==
  /\ DOMAIN ans = 1 .. k
  /\ \A t \in 1 .. k :
       IF t <= Least(k, N) /\ sc[TopK(sc, k)[t]] # Inf
       THEN ans[t] = <<ids[TopK(sc, k)[t]], sc[TopK(sc, k)[t]]>>
       ELSE ans[t][2] = Inf

\* ans begins with the m nearest members of W, in order, and no other is finite.
Nearest(ans, W, d, k, m) ==
  /\ DOMAIN ans = 1 .. k /\ IsFiniteSet(W) /\ m = Least(k, Cardinality(W)) /\ m \in Nat /\ m <= k
  /\ \A t \in 1 .. m :
       /\ ans[t][1] \in W /\ ans[t][2] = d[ans[t][1]] /\ ans[t][2] # Inf
       /\ Cardinality({r \in W : d[r] < ans[t][2]}) < t
  /\ \A t \in 1 .. k : ~(t <= m) => ans[t][2] = Inf
  /\ \A t, u \in 1 .. m : ans[t][1] = ans[u][1] => t = u

\* Top-k takes the nearest of what is offered.
LEMMA NearestTaken ==
  ASSUME NEW ids, NEW sc, NEW N, NEW W, NEW d, NEW k \in Nat, NEW ans,
         Offers(ids, sc, N, W, d), Reports(ans, ids, sc, N, k)
  PROVE  Nearest(ans, W, d, k, Least(k, Cardinality(W)))
<1>1. PICK T, h, wd, m : T = TopK(sc, k) /\ h = Least(k, N) /\ wd = Cardinality(W) /\ m = Least(k, wd)
  OBVIOUS
<1>2. /\ N \in Nat /\ sc \in Seq(Int) /\ Len(sc) = N /\ DOMAIN sc = 1 .. N
      /\ \A j \in 1 .. N : sc[j] \in Int
  BY SeqFacts DEF Offers
<1>3. \A j \in 1 .. N : IF ids[j] \in W THEN sc[j] = d[ids[j]] /\ sc[j] < Inf ELSE sc[j] = Inf
  BY DEF Offers
<1>4. /\ T \in [1 .. h -> 1 .. N] /\ h \in Nat
      /\ \A t, u \in 1 .. h : t < u => Before(sc, T[t], T[u])
      /\ \A t \in 1 .. h : \A j \in 1 .. N :
           Before(sc, j, T[t]) => \E u \in 1 .. t - 1 : T[u] = j
  <2>1. Least(k, Len(sc)) = h
    BY <1>1, <1>2
  <2>2. T \in [1 .. h -> DOMAIN sc] /\ h \in Nat
    BY <1>1, <1>2, <2>1, TopKFacts
  <2>3. \A t, u \in 1 .. h : t < u => Before(sc, T[t], T[u])
    BY <1>1, <1>2, <2>1, TopKFacts
  <2>4. \A t \in 1 .. h : \A j \in DOMAIN sc :
          Before(sc, j, T[t]) => \E u \in 1 .. t - 1 : T[u] = j
    <3>1. sc \in Seq(Int)
      BY <1>2
    <3>2. \A t \in 1 .. Least(k, Len(sc)) : \A j \in DOMAIN sc :
            Before(sc, j, TopK(sc, k)[t]) => \E u \in 1 .. t - 1 : TopK(sc, k)[u] = j
      BY <3>1, TopKFacts
    <3> QED
      BY <1>1, <2>1, <3>2
  <2> QED
    BY <1>2, <2>2, <2>3, <2>4
<1>5. Inf \in Int
  BY IvfAssumption
<1>6. IsFiniteSet(W) /\ wd <= N /\ wd \in Nat
  <2>1. Reaches(ids, N, W)
    BY DEF Offers
  <2> QED
    BY <1>1, <1>2, <2>1, AtMost
<1>7. m \in Nat /\ m <= k /\ m <= h /\ m <= wd /\ h <= k /\ h <= N
      /\ (\A t \in 1 .. h : t <= wd => t <= m)
  BY <1>1, <1>2, <1>6 DEF Least
<1>8. \A t \in 1 .. h : T[t] \in 1 .. N /\ sc[T[t]] \in Int
  BY <1>2, <1>4
<1>9. ASSUME NEW t \in 1 .. h, NEW u \in 1 .. h, u <= t
      PROVE  sc[T[u]] <= sc[T[t]] /\ (T[u] = T[t] => u = t)
  <2>1. CASE u = t
    BY <1>8, <2>1
  <2>2. CASE u # t
    <3>1. u < t
      BY <1>9, <2>2
    <3>2. Before(sc, T[u], T[t])
      BY <1>4, <3>1
    <3> QED
      BY <1>8, <3>2 DEF Before
  <2> QED
    BY <2>1, <2>2
<1>10. \A t, u \in 1 .. h : T[t] = T[u] => t = u
  BY <1>7, <1>9
<1>11. \A t, u \in 1 .. h : ids[T[t]] = ids[T[u]] => t = u
  <2>1. \A a, b \in 1 .. N : ids[a] = ids[b] => a = b
    BY DEF Offers, Apart
  <2> QED
    BY <1>8, <1>10, <2>1
<1>12. ASSUME NEW t \in 1 .. h, NEW X, X \subseteq W,
              \A r \in X : \A j \in 1 .. N : ids[j] = r => Before(sc, j, T[t])
       PROVE  Cardinality(X) < t
  <2>1. PICK f : f = [u \in 1 .. t - 1 |-> ids[T[u]]]
    OBVIOUS
  <2>2. ASSUME NEW r \in X PROVE \E u \in 1 .. t - 1 : f[u] = r
    <3>1. PICK j \in 1 .. N : ids[j] = r
      BY <1>12, <2>2 DEF Offers, Reaches
    <3>2. PICK u \in 1 .. t - 1 : T[u] = j
      BY <1>4, <1>12, <2>2, <3>1
    <3> QED
      BY <2>1, <3>1, <3>2
  <2>3. Reaches(f, t - 1, X)
    BY <2>2 DEF Reaches
  <2>4. t - 1 \in Nat /\ t \in Int
    BY <1>4
  <2>5. Cardinality(X) <= t - 1 /\ Cardinality(X) \in Nat
    BY <2>3, <2>4, AtMost
  <2> QED
    BY <2>4, <2>5
<1>13. ASSUME NEW t \in 1 .. h, t <= wd PROVE sc[T[t]] # Inf
  <2>1. SUFFICES ASSUME sc[T[t]] = Inf PROVE FALSE
    OBVIOUS
  <2>2. ASSUME NEW r \in W, NEW j \in 1 .. N, ids[j] = r PROVE Before(sc, j, T[t])
    <3>1. sc[j] < Inf
      BY <1>3, <2>2
    <3> QED
      BY <2>1, <3>1 DEF Before
  <2>3. Cardinality(W) < t
    BY <1>12, <2>2
  <2> QED
    BY <1>1, <1>4, <1>6, <1>13, <2>3
<1>14. ASSUME NEW t \in 1 .. h, ~(t <= wd) PROVE sc[T[t]] = Inf
  <2>1. SUFFICES ASSUME sc[T[t]] # Inf PROVE FALSE
    OBVIOUS
  <2>2. PICK f : f = [u \in 1 .. t |-> ids[T[u]]]
    OBVIOUS
  <2>3. \A u \in 1 .. t : u \in 1 .. h /\ u <= t
    BY <1>4
  <2>4. ASSUME NEW u \in 1 .. t PROVE ids[T[u]] \in W
    <3>1. sc[T[u]] <= sc[T[t]] /\ u \in 1 .. h
      BY <1>9, <2>3
    <3>2. sc[T[t]] < Inf
      BY <1>3, <1>8, <2>1
    <3>3. sc[T[u]] # Inf
      BY <1>5, <1>8, <3>1, <3>2
    <3> QED
      BY <1>3, <1>8, <3>1, <3>3
  <2>5. Names(f, t, W)
    BY <2>2, <2>4 DEF Names
  <2>6. Apart(f, t)
    BY <1>11, <2>2, <2>3 DEF Apart
  <2>7. t \in Nat
    BY <1>4
  <2>8. t <= Cardinality(W)
    BY <1>6, <2>5, <2>6, <2>7, AtLeast
  <2> QED
    BY <1>1, <1>14, <2>8
<1>15. ASSUME NEW t \in 1 .. m
       PROVE  /\ t \in 1 .. h /\ ids[T[t]] \in W /\ ans[t] = <<ids[T[t]], sc[T[t]]>>
              /\ sc[T[t]] = d[ids[T[t]]] /\ sc[T[t]] # Inf
  <2>1. t \in 1 .. h /\ t <= wd /\ t \in 1 .. k /\ t <= h
    BY <1>4, <1>6, <1>7
  <2>2. sc[T[t]] # Inf
    BY <1>13, <2>1
  <2>3. ans[t] = <<ids[T[t]], sc[T[t]]>>
    BY <1>1, <2>1, <2>2 DEF Reports
  <2>4. ids[T[t]] \in W /\ sc[T[t]] = d[ids[T[t]]]
    BY <1>3, <1>8, <2>1, <2>2
  <2> QED
    BY <2>1, <2>2, <2>3, <2>4
<1>16. ASSUME NEW t \in 1 .. m PROVE Cardinality({r \in W : d[r] < sc[T[t]]}) < t
  <2>1. PICK X : X = {r \in W : d[r] < sc[T[t]]}
    OBVIOUS
  <2>2. ASSUME NEW r \in X, NEW j \in 1 .. N, ids[j] = r PROVE Before(sc, j, T[t])
    <3>1. sc[j] = d[r] /\ d[r] < sc[T[t]]
      BY <1>3, <2>1, <2>2
    <3> QED
      BY <3>1 DEF Before
  <2>3. X \subseteq W /\ t \in 1 .. h
    BY <1>15, <2>1
  <2> QED
    BY <1>12, <2>1, <2>2, <2>3
<1>17. ASSUME NEW t \in 1 .. k, ~(t <= m) PROVE ans[t][2] = Inf
  <2>1. t <= Least(k, N) => sc[TopK(sc, k)[t]] = Inf
    <3>1. SUFFICES ASSUME t <= h PROVE sc[T[t]] = Inf
      BY <1>1
    <3>2. t \in 1 .. h
      BY <1>4, <3>1
    <3>3. ~(t <= wd)
      BY <1>7, <1>17, <3>2
    <3> QED
      BY <1>14, <3>2, <3>3
  <2> QED
    BY <2>1 DEF Reports
<1>18. \A t, u \in 1 .. m : ans[t][1] = ans[u][1] => t = u
  <2>1. \A t \in 1 .. m : t \in 1 .. h /\ ans[t][1] = ids[T[t]]
    BY <1>15
  <2> QED
    BY <1>11, <2>1
<1>19. \A t \in 1 .. m : /\ ans[t][1] \in W /\ ans[t][2] = d[ans[t][1]] /\ ans[t][2] # Inf
                         /\ Cardinality({r \in W : d[r] < ans[t][2]}) < t
  <2>1. ASSUME NEW t \in 1 .. m
        PROVE  /\ ans[t][1] \in W /\ ans[t][2] = d[ans[t][1]] /\ ans[t][2] # Inf
               /\ Cardinality({r \in W : d[r] < ans[t][2]}) < t
    <3>1. ans[t][1] = ids[T[t]] /\ ans[t][2] = sc[T[t]]
      BY <1>15
    <3> QED
      BY <1>15, <1>16, <3>1
  <2> QED
    BY <2>1
<1>20. DOMAIN ans = 1 .. k
  BY DEF Reports
<1> QED
  BY <1>1, <1>6, <1>7, <1>17, <1>18, <1>19, <1>20 DEF Nearest

\* What Best makes of top-k that runs.
BestIs(B, T, sc, h, N) ==
  /\ h \in Nat /\ DOMAIN B = 1 .. h /\ Len(B) = h
  /\ \A t \in 1 .. h : /\ T[t] \in 1 .. N
                       /\ sc[T[t]] # Inf => B[t] = T[t]
                       /\ B[t] = 0 \/ B[t] = T[t]

LEMMA BestFacts ==
  ASSUME NEW dev, Ok(dev, "topk"), NEW sc \in Seq(Int), NEW k \in Nat
  PROVE  BestIs(Best(dev, sc, k), TopK(sc, k), sc, Least(k, Len(sc)), Len(sc))
<1>1. PICK T, h, B : T = TopK(sc, k) /\ h = Least(k, Len(sc)) /\ B = Best(dev, sc, k)
  OBVIOUS
<1>2. h \in Nat /\ T \in [1 .. h -> DOMAIN sc] /\ DOMAIN sc = 1 .. Len(sc)
  <2>1. h \in Nat /\ T \in [1 .. h -> DOMAIN sc]
    BY <1>1, TopKFacts
  <2> QED
    BY <2>1, SeqFacts
<1>3. B = [t \in 1 .. h |-> IF dev.ran["topk"] = "gpu" /\ sc[T[t]] = Inf THEN 0 ELSE T[t]]
  <2>1. DOMAIN T = 1 .. h
    BY <1>2
  <2> QED
    BY <1>1, <2>1 DEF Best
<1>4. DOMAIN B = 1 .. h /\ Len(B) = h
  BY <1>2, <1>3
<1>5. \A t \in 1 .. h : /\ T[t] \in 1 .. Len(sc)
                        /\ sc[T[t]] # Inf => B[t] = T[t]
                        /\ B[t] = 0 \/ B[t] = T[t]
  BY <1>2, <1>3
<1> QED
  BY <1>1, <1>2, <1>4, <1>5 DEF BestIs

\* Nothing behind the first m answers.
NoMore(ans, k, m) == \A t \in 1 .. k : ~(t <= m) => ans[t] = Missing

\* The rows that are rescored are reported, the nearest first.
LEMMA RescoredNearest ==
  ASSUME NEW i, i.x \in Seq(Values), NEW s, s.k \in Nat, NEW p \in Values,
         Ok(s.dev, "pairwise"), Ok(s.dev, "topk"), Ok(s.dev, "gather"),
         NEW W, W \subseteq 1 .. Len(i.x), NEW ids, Enumerates(ids, W),
         NEW d, d = [r \in W |-> Dist(p, i.x[r])],
         NEW ans, ans = Rescored(i, s, p, ids)
  PROVE  /\ Nearest(ans, W, d, s.k, Least(s.k, Cardinality(W)))
         /\ NoMore(ans, s.k, Least(s.k, Cardinality(W)))
<1>1. PICK x, k, N, sc, B, T, h :
        /\ x = i.x /\ k = s.k /\ N = Len(ids) /\ sc = [j \in 1 .. N |-> Dist(p, x[ids[j]])]
        /\ B = Best(s.dev, sc, k) /\ T = TopK(sc, k) /\ h = Least(k, N)
  OBVIOUS
<1>2. N \in Nat /\ DOMAIN ids = 1 .. N /\ IsFiniteSet(W) /\ Cardinality(W) = N
  BY <1>1, EnumCount
<1>3. ids \in Seq(W) /\ Apart(ids, N) /\ Reaches(ids, N, W)
  BY <1>1 DEF Enumerates, Apart, Reaches
<1>4. \A j \in 1 .. N : ids[j] \in W
  BY <1>1, <1>3, SeqFacts
<1>5. \A r \in W : x[r] \in Values /\ Dist(p, x[r]) \in Int /\ Dist(p, x[r]) < Inf /\ Dist(p, x[r]) # Inf
  <2>1. \A r \in 1 .. Len(x) : x[r] \in Values
    BY <1>1, SeqFacts
  <2> QED
    BY <1>1, <2>1, DistFacts
<1>6. \A j \in 1 .. N : sc[j] = d[ids[j]] /\ sc[j] \in Int /\ sc[j] < Inf /\ sc[j] # Inf
  BY <1>1, <1>4, <1>5
<1>7. sc \in Seq(Int) /\ Len(sc) = N
  <2>1. sc \in [1 .. N -> Int]
    BY <1>1, <1>6
  <2> QED
    BY <1>2, <2>1
<1>8. Offers(ids, sc, N, W, d)
  BY Zenon, <1>2, <1>3, <1>4, <1>6, <1>7 DEF Offers
<1>9. Pairwise(s.dev, p, Gathered(s.dev, i.x, ids)) = sc
  BY <1>1, <1>2 DEF Pairwise, Gathered
<1>10. ans = Filled([t \in DOMAIN B |-> <<ids[B[t]], Value(s.dev, sc[B[t]])>>], k)
  BY Zenon, <1>1, <1>9 DEF Rescored
<1>11. /\ h \in Nat /\ DOMAIN B = 1 .. h
       /\ \A t \in 1 .. h : T[t] \in 1 .. N /\ (sc[T[t]] # Inf => B[t] = T[t])
  <2>1. k \in Nat
    BY <1>1
  <2>2. BestIs(Best(s.dev, sc, k), TopK(sc, k), sc, Least(k, Len(sc)), Len(sc))
    BY <1>7, <2>1, BestFacts
  <2>3. BestIs(B, T, sc, h, N)
    BY <1>1, <1>7, <2>2
  <2> QED
    BY <2>3 DEF BestIs
<1>12. \A t \in 1 .. h : B[t] = T[t]
  BY <1>6, <1>11
<1>13. PICK F : F = [t \in DOMAIN B |-> <<ids[B[t]], Value(s.dev, sc[B[t]])>>]
  OBVIOUS
<1>14. DOMAIN F = 1 .. h /\ Len(F) = h /\ \A t \in 1 .. h : F[t] = <<ids[T[t]], sc[T[t]]>>
  BY <1>11, <1>12, <1>13 DEF Value
<1>15. ans = [t \in 1 .. k |-> IF t <= h THEN F[t] ELSE Missing]
  BY <1>10, <1>13, <1>14 DEF Filled
<1>16. Reports(ans, ids, sc, N, k)
  <2>1. \A t \in 1 .. k : t <= h => ans[t] = <<ids[T[t]], sc[T[t]]>> /\ sc[T[t]] # Inf
    <3>1. \A t \in 1 .. k : t <= h => t \in 1 .. h
      BY <1>1, <1>11
    <3> QED
      BY <1>6, <1>11, <1>14, <1>15, <3>1
  <2>2. \A t \in 1 .. k : ~(t <= h) => ans[t][2] = Inf
    BY <1>15 DEF Missing
  <2>3. DOMAIN ans = 1 .. k
    BY <1>15
  <2>4. \A t \in 1 .. k : IF t <= h /\ sc[T[t]] # Inf THEN ans[t] = <<ids[T[t]], sc[T[t]]>>
                         ELSE ans[t][2] = Inf
    BY <2>1, <2>2
  <2> QED
    BY ZenonT(40), <1>1, <2>3, <2>4 DEF Reports
<1>17. k \in Nat
  BY <1>1
<1>18. Nearest(ans, W, d, k, Least(k, Cardinality(W)))
  BY <1>8, <1>16, <1>17, NearestTaken
<1>19. NoMore(ans, k, Least(k, Cardinality(W)))
  BY <1>1, <1>2, <1>15 DEF NoMore
<1> QED
  BY <1>1, <1>18, <1>19

\* A query that probes every list.
LEMMA CoarseAll ==
  ASSUME NEW i, i.centroids \in Seq(Values), NEW s, s.nprobe \in Int, s.nprobe >= Lists(i),
         Lists(i) > 0, Ok(s.dev, "topk"), NEW p \in Values
  PROVE  Enumerates(Coarse(i, s, p), 1 .. Lists(i))
<1>1. PICK L, C, sc, np : /\ L = Lists(i) /\ C = i.centroids /\ sc = Pairwise(s.dev, p, C)
                          /\ np = Nprobe(i, s)
  OBVIOUS
<1>2. L \in Nat /\ L > 0 /\ DOMAIN C = 1 .. L /\ \A c \in 1 .. L : C[c] \in Values
  BY <1>1, SeqFacts DEF Lists
<1>3. np = L
  BY <1>1, <1>2 DEF Nprobe, Most, Least
<1>4. sc \in Seq(Int) /\ Len(sc) = L
  <2>1. sc = [c \in 1 .. L |-> IF Ok(s.dev, "pairwise") THEN Dist(p, C[c]) ELSE 0]
    BY <1>1, <1>2 DEF Pairwise
  <2>2. \A c \in 1 .. L : (IF Ok(s.dev, "pairwise") THEN Dist(p, C[c]) ELSE 0) \in Int
    BY <1>2, DistFacts
  <2>3. sc \in [1 .. L -> Int]
    BY <2>1, <2>2
  <2> QED
    BY <1>2, <2>3
<1>5. Enumerates(TopK(sc, np), 1 .. Len(sc))
  BY <1>2, <1>3, <1>4, TopKAll
<1> QED
  BY <1>1, <1>4, <1>5 DEF Coarse

\* The lists, in the order they are probed, hold every row once.
LEMMA ListsRead ==
  ASSUME NEW n \in Nat, NEW L \in Nat, NEW home \in [1 .. n -> 1 .. L], NEW lists,
         Sorted(lists, home, n, L), NEW cl, Enumerates(cl, 1 .. L),
         NEW parts, parts = [t \in DOMAIN cl |-> lists[cl[t]]]
  PROVE  SplitUp(parts, 1 .. n)
<1>1. PICK m, W : m = Len(cl) /\ W = 1 .. n
  OBVIOUS
<1>2. m \in Nat /\ DOMAIN cl = 1 .. m /\ Apart(cl, m) /\ Reaches(cl, m, 1 .. L)
  BY <1>1, EnumCount DEF Enumerates, Apart, Reaches
<1>3. \A t \in 1 .. m : cl[t] \in 1 .. L
  <2>1. cl \in Seq(1 .. L)
    BY DEF Enumerates
  <2> QED
    BY <1>1, <2>1, SeqFacts
<1>4. \A t \in 1 .. m : parts[t] = lists[cl[t]] /\ parts[t] \in Seq(W) /\ Holds(parts[t], home, n, cl[t])
  <2>1. ASSUME NEW t \in 1 .. m
        PROVE  parts[t] = lists[cl[t]] /\ parts[t] \in Seq(W) /\ Holds(parts[t], home, n, cl[t])
    <3>1. parts[t] = lists[cl[t]] /\ cl[t] \in 1 .. L
      BY <1>2, <1>3
    <3>2. Holds(lists[cl[t]], home, n, cl[t])
      BY <3>1 DEF Sorted
    <3>3. lists[cl[t]] \in Seq(W)
      BY <1>1, <3>2 DEF Holds
    <3> QED
      BY <3>1, <3>2, <3>3
  <2> QED
    BY <2>1
<1>5. parts \in Seq(Seq(W)) /\ Len(parts) = m
  <2>1. PICK V : V = Seq(W)
    OBVIOUS
  <2>2. parts \in [1 .. m -> V]
    BY <1>2, <1>4, <2>1
  <2>3. parts \in Seq(V)
    BY <1>2, <2>2, SeqDef
  <2>4. Len(parts) = m
    BY <1>2, <2>2, <2>3, LenProperties
  <2> QED
    BY <2>1, <2>3, <2>4
<1>6. ASSUME NEW t \in 1 .. Len(parts), NEW u \in 1 .. Len(parts), NEW a \in 1 .. Len(parts[t]),
             NEW b \in 1 .. Len(parts[u]), parts[t][a] = parts[u][b]
      PROVE  t = u /\ a = b
  <2>0. t \in 1 .. m /\ u \in 1 .. m
    BY <1>5
  <2>4. Holds(parts[t], home, n, cl[t]) /\ Holds(parts[u], home, n, cl[u])
    BY <1>4, <2>0
  <2>1. home[parts[t][a]] = cl[t] /\ home[parts[u][b]] = cl[u]
    BY <2>4 DEF Holds
  <2>2. t = u
    <3>1. PICK d, e : d = home[parts[t][a]] /\ e = home[parts[u][b]]
      OBVIOUS
    <3>2. d = e
      BY <1>6, <3>1
    <3>3. cl[t] = cl[u]
      BY <2>1, <3>1, <3>2
    <3>4. \A o, v \in 1 .. m : cl[o] = cl[v] => o = v
      BY <1>2 DEF Apart
    <3> QED
      BY <2>0, <3>3, <3>4
  <2>3. Holds(parts[t], home, n, cl[t])
    BY <2>4
  <2>5. b \in 1 .. Len(parts[t]) /\ parts[t][a] = parts[t][b]
    BY <1>6, <2>2
  <2>6. a = b
    BY <2>3, <2>5 DEF Holds
  <2> QED
    BY <2>2, <2>6
<1>7. ASSUME NEW r \in W PROVE \E t \in 1 .. Len(parts) : \E a \in 1 .. Len(parts[t]) : parts[t][a] = r
  <2>1. r \in 1 .. n /\ home[r] \in 1 .. L
    BY <1>1
  <2>2. PICK t \in 1 .. m : cl[t] = home[r]
    BY <1>2, <2>1 DEF Reaches
  <2>3. Holds(parts[t], home, n, home[r]) /\ t \in 1 .. Len(parts)
    BY <1>4, <1>5, <2>2
  <2>4. \E a \in 1 .. Len(parts[t]) : parts[t][a] = r
    BY <2>1, <2>3 DEF Holds
  <2> QED
    BY <2>3, <2>4
<1> QED
  <2>1. SplitUp(parts, W)
    BY <1>5, <1>6, <1>7 DEF SplitUp
  <2> QED
    BY <1>1, <2>1

\* Some places of an enumeration.
LEMMA EnumAt ==
  ASSUME NEW ids, NEW V, Enumerates(ids, V), NEW S \in SUBSET DOMAIN ids,
         NEW W, W \subseteq V, \A t \in DOMAIN ids : t \in S <=> ids[t] \in W,
         NEW z, z = At(ids, S)
  PROVE  Enumerates(z, W)
<1>1. PICK n, k, g : n = Len(ids) /\ k = Cardinality(S) /\ g = Ascending(S)
  OBVIOUS
<1>2. n \in Nat /\ DOMAIN ids = 1 .. n /\ ids \in Seq(V) /\ Apart(ids, n) /\ Reaches(ids, n, V)
  BY <1>1, EnumCount DEF Enumerates, Apart, Reaches
<1>4. /\ k \in Nat /\ Counts(g, k, S) /\ Len(z) = k /\ DOMAIN z = 1 .. k
      /\ \A t \in 1 .. k : z[t] = ids[g[t]]
  BY <1>1, <1>2, AtFacts
<1>5. \A t \in 1 .. k : g[t] \in S /\ g[t] \in 1 .. n /\ z[t] \in W
  <2>1. \A t \in 1 .. k : g[t] \in S
    BY <1>4 DEF Counts
  <2>2. \A t \in S : t \in 1 .. n /\ ids[t] \in W
    BY <1>2
  <2> QED
    BY <1>4, <2>1, <2>2
<1>6. \A t, u \in 1 .. k : g[t] = g[u] => t = u
  <2>1. SUFFICES ASSUME NEW t \in 1 .. k, NEW u \in 1 .. k, g[t] = g[u], t # u PROVE FALSE
    OBVIOUS
  <2>2. g[t] \in Int /\ (t < u \/ u < t)
    BY <1>5, <2>1
  <2> QED
    BY <1>4, <2>1, <2>2 DEF Counts
<1>7. \A t, u \in 1 .. k : z[t] = z[u] => t = u
  BY <1>1, <1>2, <1>4, <1>5, <1>6 DEF Apart
<1>8. ASSUME NEW r \in W PROVE \E t \in 1 .. k : z[t] = r
  <2>1. PICK j \in 1 .. n : ids[j] = r
    BY <1>1, <1>2 DEF Reaches
  <2>2. j \in S
    BY <1>2, <2>1
  <2>3. PICK t \in 1 .. k : g[t] = j
    BY <1>4, <2>2 DEF Counts
  <2> QED
    BY <1>4, <2>1, <2>3
<1>9. z \in Seq(W)
  <2>1. z \in Seq(V)
    BY <1>2, AtFacts
  <2>2. z \in [1 .. k -> V]
    BY <1>4, <2>1, LenProperties
  <2>3. z \in [1 .. k -> W]
    BY <1>5, <2>2
  <2> QED
    BY <1>4, <2>3, SeqDef
<1> QED
  BY <1>4, <1>7, <1>8, <1>9 DEF Enumerates

\* The rows of an enumeration that a filter allows.
LEMMA EnumSome ==
  ASSUME NEW ids, NEW V, Enumerates(ids, V), NEW filter,
         NEW z, z = At(ids, {t \in DOMAIN ids : Allowed(filter, ids[t])})
  PROVE  Enumerates(z, {r \in V : Allowed(filter, r)})
<1>1. PICK S, W : /\ S = {t \in DOMAIN ids : Allowed(filter, ids[t])}
                  /\ W = {r \in V : Allowed(filter, r)}
  OBVIOUS
<1>2. \A t \in DOMAIN ids : ids[t] \in V
  <2>1. ids \in Seq(V) /\ DOMAIN ids = 1 .. Len(ids)
    BY EnumCount DEF Enumerates
  <2> QED
    BY <2>1, SeqFacts
<1>3. /\ S \in SUBSET DOMAIN ids /\ W \subseteq V /\ z = At(ids, S)
      /\ \A t \in DOMAIN ids : t \in S <=> ids[t] \in W
  BY <1>1, <1>2
<1>4. Enumerates(z, W)
  BY <1>3, EnumAt
<1> QED
  BY <1>1, <1>4

\* The rows a filter allows, and how far they are from a query.
WantOf(i, filter) == {r \in 1 .. Rows(i) : Allowed(filter, r)}
FarOf(i, filter, p) == [r \in WantOf(i, filter) |-> Dist(p, i.x[r])]

\* The answer that FullProbeIsExact asks for.
ExactFor(i, s, p, ans) ==
  LET want == {r \in 1 .. Rows(i) : Allowed(s.filter, r)}
      got == At(ans, {t \in DOMAIN ans : ans[t][2] # Inf})
      far(r) == Dist(p, i.x[r])
  IN /\ Len(got) = Least(s.k, Cardinality(want))
     /\ \A t \in DOMAIN got :
          /\ got[t][1] \in want /\ got[t][2] = far(got[t][1])
          /\ Cardinality({r \in want : far(r) < got[t][2]}) < t
     /\ \A t, u \in DOMAIN got : got[t][1] = got[u][1] => t = u

NearestFor(i, s, p, ans) ==
  Nearest(ans, WantOf(i, s.filter), FarOf(i, s.filter, p), s.k,
          Least(s.k, Cardinality(WantOf(i, s.filter))))

LEMMA NearestIsExact ==
  ASSUME NEW i, NEW s, s.k \in Nat, NEW p, NEW ans, NearestFor(i, s, p, ans)
  PROVE  ExactFor(i, s, p, ans)
<1>1. PICK W, d, k, m, S : /\ W = WantOf(i, s.filter) /\ d = FarOf(i, s.filter, p) /\ k = s.k
                           /\ m = Least(k, Cardinality(W))
                           /\ S = {t \in DOMAIN ans : ans[t][2] # Inf}
  OBVIOUS
<1>2. Nearest(ans, W, d, k, m)
  BY <1>1 DEF NearestFor
<1>3. /\ DOMAIN ans = 1 .. k /\ m \in Nat /\ m <= k /\ k \in Nat
      /\ \A t \in 1 .. m : /\ ans[t][1] \in W /\ ans[t][2] = d[ans[t][1]] /\ ans[t][2] # Inf
                           /\ Cardinality({r \in W : d[r] < ans[t][2]}) < t
      /\ \A t \in 1 .. k : ~(t <= m) => ans[t][2] = Inf
      /\ \A t, u \in 1 .. m : ans[t][1] = ans[u][1] => t = u
  BY <1>1, <1>2 DEF Nearest
<1>4. S = 1 .. m
  <2>1. \A t \in 1 .. k : ans[t][2] # Inf <=> t <= m
    <3>1. \A t \in 1 .. k : t <= m => t \in 1 .. m
      OBVIOUS
    <3> QED
      BY <1>3, <3>1
  <2>2. S = {t \in 1 .. k : ans[t][2] # Inf}
    BY <1>1, <1>3
  <2>3. S = {t \in 1 .. k : t <= m}
    BY <2>1, <2>2
  <2> QED
    BY <1>3, <2>3
<1>5. Ascending(S) = [t \in 1 .. m |-> t]
  <2>1. Ascending(0 + 1 .. 0 + m) = [t \in 1 .. m |-> 0 + t]
    BY <1>3, AscendingInterval
  <2> QED
    BY <1>3, <1>4, <2>1
<1>6. At(ans, S) = [t \in 1 .. m |-> ans[t]]
  BY <1>5 DEF At
<1>7. PICK got : got = At(ans, S)
  OBVIOUS
<1>8. DOMAIN got = 1 .. m /\ Len(got) = m /\ \A t \in 1 .. m : got[t] = ans[t]
  BY <1>3, <1>6, <1>7
<1>9. W = {r \in 1 .. Rows(i) : Allowed(s.filter, r)} /\ \A r \in W : d[r] = Dist(p, i.x[r])
  BY <1>1 DEF WantOf, FarOf
<1>10. ASSUME NEW t \in 1 .. m
       PROVE  /\ got[t][1] \in W /\ got[t][2] = Dist(p, i.x[got[t][1]])
              /\ Cardinality({r \in W : Dist(p, i.x[r]) < got[t][2]}) < t
  <2>1. {r \in W : Dist(p, i.x[r]) < got[t][2]} = {r \in W : d[r] < ans[t][2]}
    BY <1>8, <1>9
  <2>2. got[t] = ans[t]
    BY <1>8
  <2>3. ans[t][1] \in W /\ ans[t][2] = d[ans[t][1]] /\ Cardinality({r \in W : d[r] < ans[t][2]}) < t
    BY <1>3
  <2>4. d[ans[t][1]] = Dist(p, i.x[ans[t][1]])
    BY <1>9, <2>3
  <2> QED
    BY <2>1, <2>2, <2>3, <2>4
<1>11. \A t, u \in 1 .. m : got[t][1] = got[u][1] => t = u
  BY <1>3, <1>8
<1>13. At(ans, {t \in DOMAIN ans : ans[t][2] # Inf}) = got
  BY <1>1, <1>7
<1> QED
  BY <1>1, <1>8, <1>9, <1>10, <1>11, <1>13 DEF ExactFor

\* A full search on devices that run its primitives.
Exhaustive(i, s) ==
  /\ Searchable(s) /\ Ok(s.dev, "pairwise") /\ Ok(s.dev, "topk")
  /\ s.krefine >= Rows(i)
  /\ i.kind # "brute" => Ok(s.dev, "gather") /\ s.nprobe >= Lists(i)

\* What a right index of lists is made of.
LEMMA RightParts ==
  ASSUME NEW i, Right(i), i.kind # "brute"
  PROVE  /\ i.x \in Seq(Values) /\ i.centroids \in Seq(Values) /\ Lists(i) \in Nat /\ Lists(i) > 0
         /\ Rows(i) = Len(i.x) /\ Rows(i) \in Nat
         /\ HomesOf(i.x, i.centroids) \in [1 .. Rows(i) -> 1 .. Lists(i)]
         /\ Sorted(i.lists, HomesOf(i.x, i.centroids), Rows(i), Lists(i))
<1>1. Clustered(i.x, i.centroids, i.lists)
  BY DEF Right
<1>2. PICK x, C : x = i.x /\ C = i.centroids
  OBVIOUS
<1>3. x \in Seq(Values) /\ C \in Seq(Values) /\ Len(C) > 0 /\ Sorted(i.lists, HomesOf(x, C), Len(x), Len(C))
  BY <1>1, <1>2 DEF Clustered
<1>4. HomesOf(x, C) \in [1 .. Len(x) -> 1 .. Len(C)] /\ Len(x) \in Nat /\ Len(C) \in Nat
  BY <1>3, HomesFacts
<1> QED
  BY <1>2, <1>3, <1>4 DEF Rows, Lists

\* It reads every row.
LEMMA ReadsAll ==
  ASSUME NEW i, Right(i), i.kind # "brute", NEW s, Exhaustive(i, s), NEW p \in Values,
         NEW ids, ids = Cat([t \in DOMAIN Coarse(i, s, p) |-> i.lists[Coarse(i, s, p)[t]]])
  PROVE  Enumerates(ids, 1 .. Rows(i))
<1>1. PICK n, L, home, lists, cl, parts :
        /\ n = Rows(i) /\ L = Lists(i) /\ home = HomesOf(i.x, i.centroids) /\ lists = i.lists
        /\ cl = Coarse(i, s, p) /\ parts = [t \in DOMAIN cl |-> lists[cl[t]]]
  OBVIOUS
<1>2. n \in Nat /\ L \in Nat /\ home \in [1 .. n -> 1 .. L] /\ Sorted(lists, home, n, L)
  BY <1>1, RightParts
<1>3. Enumerates(cl, 1 .. L)
  <2>1. s.nprobe \in Int /\ s.nprobe >= Lists(i) /\ Ok(s.dev, "topk")
    BY SearchFacts DEF Exhaustive
  <2> QED
    BY <1>1, <2>1, RightParts, CoarseAll
<1>4. SplitUp(parts, 1 .. n)
  BY SMTT(30), <1>1, <1>2, <1>3, ListsRead
<1>5. Enumerates(Cat(parts), 1 .. n)
  BY <1>4, EnumCat
<1>6. ids = Cat(parts)
  BY <1>1
<1> QED
  BY <1>1, <1>5, <1>6

\* Distances of rows to a query.
LEMMA FarFacts ==
  ASSUME NEW i, i.x \in Seq(Values), NEW p \in Values, NEW filter
  PROVE  /\ WantOf(i, filter) \subseteq 1 .. Rows(i)
         /\ \A r \in 1 .. Rows(i) : /\ i.x[r] \in Values
                                    /\ Dist(p, i.x[r]) \in Int /\ Dist(p, i.x[r]) < Inf
                                    /\ r \in WantOf(i, filter) <=> Allowed(filter, r)
         /\ \A r \in WantOf(i, filter) : FarOf(i, filter, p)[r] = Dist(p, i.x[r])
<1>1. \A r \in 1 .. Rows(i) : i.x[r] \in Values
  BY SeqFacts DEF Rows
<1>2. \A r \in 1 .. Rows(i) : Dist(p, i.x[r]) \in Int /\ Dist(p, i.x[r]) < Inf
  BY <1>1, DistFacts
<1> QED
  BY <1>1, <1>2 DEF WantOf, FarOf

\* What a scan of every row offers, filtered rows at an infinite distance.
LEMMA AllOffered ==
  ASSUME NEW i, i.x \in Seq(Values), NEW p \in Values, NEW filter,
         NEW ids, Enumerates(ids, 1 .. Rows(i)), NEW N, N = Len(ids),
         NEW sc, sc = [j \in 1 .. N |-> IF Allowed(filter, ids[j]) THEN Dist(p, i.x[ids[j]]) ELSE Inf]
  PROVE  Offers(ids, sc, N, WantOf(i, filter), FarOf(i, filter, p))
<1>1. PICK n, W, d : n = Rows(i) /\ W = WantOf(i, filter) /\ d = FarOf(i, filter, p)
  OBVIOUS
<1>2. N \in Nat /\ Apart(ids, N) /\ Reaches(ids, N, 1 .. n) /\ ids \in Seq(1 .. n)
  BY <1>1, EnumCount DEF Enumerates, Apart, Reaches
<1>3. \A j \in 1 .. N : ids[j] \in 1 .. n
  BY <1>2, SeqFacts
<1>4. /\ W \subseteq 1 .. n
      /\ \A r \in 1 .. n : Dist(p, i.x[r]) \in Int /\ Dist(p, i.x[r]) < Inf /\ (r \in W <=> Allowed(filter, r))
      /\ \A r \in W : d[r] = Dist(p, i.x[r])
  BY <1>1, FarFacts
<1>5. Inf \in Int
  BY IvfAssumption
<1>6. \A j \in 1 .. N : /\ sc[j] \in Int
                        /\ IF ids[j] \in W THEN sc[j] = d[ids[j]] /\ sc[j] < Inf ELSE sc[j] = Inf
  BY <1>3, <1>4, <1>5
<1>7. sc \in Seq(Int) /\ Len(sc) = N
  <2>1. sc \in [1 .. N -> Int]
    BY <1>6
  <2> QED
    BY <1>2, <2>1
<1>8. Reaches(ids, N, W)
  BY <1>2, <1>4 DEF Reaches
<1>9. Offers(ids, sc, N, W, d)
  BY ZenonT(40), <1>2, <1>6, <1>7, <1>8 DEF Offers
<1> QED
  BY <1>1, <1>9

\* IVF-Flat: the scores of the rows that are read, and what is made of them.
FlatScores(filter, ids, sc0) == [t \in DOMAIN ids |-> IF Allowed(filter, ids[t]) THEN sc0[t] ELSE Inf]
FlatTail(dev, k, ids, sc) ==
  LET best == Best(dev, sc, k) IN
  Filled([t \in DOMAIN best |->
           IF best[t] = 0 THEN Stray ELSE <<ids[best[t]], Value(dev, sc[best[t]])>>], k)

LEMMA FlatIsNearest ==
  ASSUME NEW i, Right(i), i.kind = "flat", NEW s, Exhaustive(i, s), NEW p \in Values
  PROVE  NearestFor(i, s, p, FlatAnswer(i, s, p))
<1>1. PICK ids, k, N, sc, B, T, h, W, d, ans :
        /\ ids = Cat([t \in DOMAIN Coarse(i, s, p) |-> i.lists[Coarse(i, s, p)[t]]])
        /\ k = s.k /\ N = Len(ids)
        /\ sc = [j \in 1 .. N |-> IF Allowed(s.filter, ids[j]) THEN Dist(p, i.x[ids[j]]) ELSE Inf]
        /\ B = Best(s.dev, sc, k) /\ T = TopK(sc, k) /\ h = Least(k, N)
        /\ W = WantOf(i, s.filter) /\ d = FarOf(i, s.filter, p) /\ ans = FlatAnswer(i, s, p)
  OBVIOUS
<1>2. Ok(s.dev, "pairwise") /\ Ok(s.dev, "topk") /\ Ok(s.dev, "gather") /\ Searchable(s)
  BY DEF Exhaustive
<1>3. Enumerates(ids, 1 .. Rows(i))
  BY Zenon, <1>1, ReadsAll
<1>4. N \in Nat /\ DOMAIN ids = 1 .. N /\ k \in Nat /\ i.x \in Seq(Values)
  BY Zenon, <1>1, <1>2, <1>3, EnumCount, SearchFacts, RightParts
<1>5. Offers(ids, sc, N, W, d)
  BY Zenon, <1>1, <1>3, <1>4, AllOffered
<1>6. sc \in Seq(Int) /\ Len(sc) = N
  BY Zenon, <1>5 DEF Offers
<1>7. BestIs(B, T, sc, h, N)
  BY Zenon, <1>1, <1>2, <1>4, <1>6, BestFacts
<1>8. /\ h \in Nat /\ DOMAIN B = 1 .. h
      /\ \A t \in 1 .. h : /\ T[t] \in 1 .. N /\ (sc[T[t]] # Inf => B[t] = T[t])
                           /\ B[t] = 0 \/ B[t] = T[t]
  BY <1>7 DEF BestIs
<1>9. PICK sc0 : sc0 = Pairwise(s.dev, p, Gathered(s.dev, i.x, ids))
  OBVIOUS
<1>10. sc0 = [j \in 1 .. N |-> Dist(p, i.x[ids[j]])]
  BY Zenon, <1>2, <1>4, <1>9 DEF Pairwise, Gathered
<1>11. sc = [t \in DOMAIN ids |-> IF Allowed(s.filter, ids[t]) THEN sc0[t] ELSE Inf]
  BY Zenon, <1>1, <1>4, <1>10
<1>12. PICK F : F = [t \in DOMAIN B |-> IF B[t] = 0 THEN Stray ELSE <<ids[B[t]], Value(s.dev, sc[B[t]])>>]
  BY Zenon
<1>13. ans = Filled(F, k)
  <2>1. FlatAnswer(i, s, p) =
          FlatTail(s.dev, s.k, Cat([t \in DOMAIN Coarse(i, s, p) |-> i.lists[Coarse(i, s, p)[t]]]),
            FlatScores(s.filter, Cat([t \in DOMAIN Coarse(i, s, p) |-> i.lists[Coarse(i, s, p)[t]]]),
              Pairwise(s.dev, p,
                Gathered(s.dev, i.x, Cat([t \in DOMAIN Coarse(i, s, p) |-> i.lists[Coarse(i, s, p)[t]]])))))
    BY DEF FlatAnswer, FlatTail, FlatScores
  <2>2. ans = FlatTail(s.dev, k, ids, FlatScores(s.filter, ids, sc0))
    BY Zenon, <1>1, <1>9, <2>1
  <2>3. sc = FlatScores(s.filter, ids, sc0)
    BY <1>11 DEF FlatScores
  <2>4. FlatTail(s.dev, k, ids, sc) = Filled(F, k)
    <3>1. B = Best(s.dev, sc, k)
      BY Zenon, <1>1
    <3> QED
      BY Zenon, <1>12, <3>1 DEF FlatTail
  <2> QED
    BY <2>2, <2>3, <2>4
<1>14. DOMAIN F = 1 .. h /\ Len(F) = h
  BY <1>8, <1>12
<1>15. ASSUME NEW t \in 1 .. h
       PROVE  IF sc[T[t]] # Inf THEN F[t] = <<ids[T[t]], sc[T[t]]>> ELSE F[t][2] = Inf
  <2>1. F[t] = IF B[t] = 0 THEN Stray ELSE <<ids[B[t]], sc[B[t]]>>
    BY <1>2, <1>8, <1>12 DEF Value
  <2>2. T[t] \in 1 .. N /\ T[t] # 0
    BY <1>4, <1>8
  <2> QED
    BY <1>8, <2>1, <2>2 DEF Stray
<1>16. ans = [t \in 1 .. k |-> IF t <= h THEN F[t] ELSE Missing]
  BY <1>13, <1>14 DEF Filled
<1>17. Reports(ans, ids, sc, N, k)
  <2>1. \A t \in 1 .. k : IF t <= h /\ sc[T[t]] # Inf THEN ans[t] = <<ids[T[t]], sc[T[t]]>>
                          ELSE ans[t][2] = Inf
    <3>1. \A t \in 1 .. k : t <= h => t \in 1 .. h
      BY <1>4, <1>8
    <3>2. Missing[2] = Inf
      BY DEF Missing
    <3> QED
      BY <1>15, <1>16, <3>1, <3>2
  <2>2. DOMAIN ans = 1 .. k
    BY ZenonT(40), <1>16
  <2>3. T = TopK(sc, k) /\ h = Least(k, N)
    BY <1>1
  <2> QED
    BY <2>1, <2>2, <2>3 DEF Reports
<1>18. Nearest(ans, W, d, k, Least(k, Cardinality(W)))
  BY <1>4, <1>5, <1>17, NearestTaken
<1> QED
  BY <1>1, <1>18 DEF NearestFor

\* Brute force, when no more rows are asked for than there are.
LEMMA BruteIsNearest ==
  ASSUME NEW i, Right(i), i.kind = "brute", NEW s, Exhaustive(i, s), s.k <= Rows(i), NEW p \in Values
  PROVE  NearestFor(i, s, p, BruteOf(i, s, p))
<1>1. PICK n, ids, k, sc, B, T, h, W, d, ans :
        /\ n = Rows(i) /\ ids = [r \in 1 .. n |-> r] /\ k = s.k
        /\ sc = [j \in 1 .. n |-> IF Allowed(s.filter, j) THEN Dist(p, i.x[j]) ELSE Inf]
        /\ B = Best(s.dev, sc, k) /\ T = TopK(sc, k) /\ h = Least(k, n)
        /\ W = WantOf(i, s.filter) /\ d = FarOf(i, s.filter, p) /\ ans = BruteOf(i, s, p)
  OBVIOUS
<1>2. Ok(s.dev, "topk") /\ Searchable(s)
  BY DEF Exhaustive
<1>3. i.x \in Seq(Values)
  BY DEF Right
<1>4. n \in Nat /\ k \in Nat /\ k <= n /\ h = k
  <2>1. n \in Nat
    BY <1>1, <1>3, SeqFacts DEF Rows
  <2>2. k \in Nat
    BY <1>1, <1>2, SearchFacts
  <2> QED
    BY <1>1, <2>1, <2>2 DEF Least
<1>5. ids \in Seq(1 .. n) /\ Len(ids) = n
  BY <1>1, <1>4
<1>6. Enumerates(ids, 1 .. Rows(i))
  BY <1>1, <1>5 DEF Enumerates
<1>7. sc = [j \in 1 .. n |-> IF Allowed(s.filter, ids[j]) THEN Dist(p, i.x[ids[j]]) ELSE Inf]
  BY <1>1
<1>8. Offers(ids, sc, n, W, d)
  BY <1>1, <1>3, <1>5, <1>6, <1>7, AllOffered
<1>9. sc \in Seq(Int) /\ Len(sc) = n
  BY <1>8 DEF Offers
<1>10. BestIs(B, T, sc, h, n)
  BY <1>1, <1>2, <1>4, <1>9, BestFacts
<1>11. \A t \in 1 .. k : /\ T[t] \in 1 .. n /\ (sc[T[t]] # Inf => B[t] = T[t])
                         /\ B[t] = 0 \/ B[t] = T[t]
  BY <1>4, <1>10 DEF BestIs
<1>12. ans = [t \in 1 .. k |-> IF B[t] = 0 THEN Missing ELSE <<B[t], sc[B[t]]>>]
  BY <1>1 DEF BruteOf, BruteScores
<1>13. ASSUME NEW t \in 1 .. k
       PROVE  IF sc[T[t]] # Inf THEN ans[t] = <<ids[T[t]], sc[T[t]]>> ELSE ans[t][2] = Inf
  <2>1. ans[t] = IF B[t] = 0 THEN Missing ELSE <<B[t], sc[B[t]]>>
    BY <1>12
  <2>3. T[t] \in 1 .. n
    BY <1>11
  <2>4. ids[T[t]] = T[t]
    BY <1>1, <2>3
  <2>2. T[t] # 0 /\ ids[T[t]] = T[t]
    BY <1>4, <2>3, <2>4
  <2> QED
    BY <1>11, <2>1, <2>2 DEF Missing
<1>14. Reports(ans, ids, sc, n, k)
  <2>1. \A t \in 1 .. k : IF t <= h /\ sc[T[t]] # Inf THEN ans[t] = <<ids[T[t]], sc[T[t]]>>
                          ELSE ans[t][2] = Inf
    BY <1>4, <1>13
  <2>2. DOMAIN ans = 1 .. k
    BY <1>12
  <2> QED
    BY <1>1, <2>1, <2>2, ZenonT(30) DEF Reports
<1>15. Nearest(ans, W, d, k, Least(k, Cardinality(W)))
  BY <1>4, <1>8, <1>14, NearestTaken
<1> QED
  BY <1>1, <1>15 DEF NearestFor



\* No more rows are wanted than there are.
LEMMA WantedFew ==
  ASSUME NEW i, Rows(i) \in Nat, NEW filter, NEW ids, Enumerates(ids, WantOf(i, filter))
  PROVE  Len(ids) \in Nat /\ Len(ids) <= Rows(i)
<1>1. PICK n, W : n = Rows(i) /\ W = WantOf(i, filter)
  OBVIOUS
<1>2. Len(ids) \in Nat /\ Cardinality(W) = Len(ids)
  BY <1>1, EnumCount
<1>3. IsFiniteSet(1 .. n) /\ Cardinality(1 .. n) = n
  BY <1>1, FS_Interval
<1>4. W \in SUBSET (1 .. n)
  BY <1>1 DEF WantOf
<1>5. Cardinality(W) <= n
  BY <1>3, <1>4, FS_Subset
<1> QED
  BY <1>1, <1>2, <1>5

\* What a right RaBitQ index estimates is the distance.
LEMMA RabitqEstimates ==
  ASSUME NEW i, Right(i), i.kind = "rabitq", NEW p \in Values, NEW r \in 1 .. Rows(i)
  PROVE  Dist(p - i.centroids[i.assign[r]], i.codes[r]) = Dist(p, i.x[r])
<1>1. PICK x, C, home, n : x = i.x /\ C = i.centroids /\ home = HomesOf(x, C) /\ n = Rows(i)
  OBVIOUS
<1>2. /\ x \in Seq(Values) /\ C \in Seq(Values) /\ n = Len(x) /\ home \in [1 .. n -> 1 .. Len(C)]
  BY <1>1, RightParts DEF Lists
<1>3. i = RabitqIndex(x, C, i.lists)
  BY <1>1 DEF Right
<1>4. i.assign = home /\ i.codes = Residuals(x, home, C)
  BY <1>1, <1>3 DEF RabitqIndex, Index
<1>5. r \in 1 .. n /\ DOMAIN x = 1 .. n
  BY <1>1, <1>2, SeqFacts
<1>6. i.codes[r] = x[r] - C[home[r]]
  BY <1>4, <1>5 DEF Residuals
<1>7. PICK a, b, c : a = p /\ b = x[r] /\ c = C[home[r]]
  OBVIOUS
<1>8. a \in Int /\ b \in Int /\ c \in Int
  <2>1. x[r] \in Values
    BY <1>2, <1>5, SeqFacts
  <2>2. home[r] \in 1 .. Len(C)
    BY <1>2, <1>5
  <2>3. C[home[r]] \in Values
    BY <1>2, <2>2, SeqFacts
  <2> QED
    BY <1>7, <2>1, <2>3, IvfAssumption
<1>9. (a - c) - (b - c) = a - b
  BY <1>8
<1>10. Dist(a - c, b - c) = Dist(a, b)
  BY Zenon, <1>9 DEF Dist
<1> QED
  BY <1>1, <1>4, <1>6, <1>7, <1>10

\* IVF-RaBitQ.
LEMMA RabitqIsNearest ==
  ASSUME NEW i, Right(i), i.kind = "rabitq", NEW s, Exhaustive(i, s), NEW p \in Values
  PROVE  NearestFor(i, s, p, RabitqAnswer(i, s, p))
<1>1. PICK all, ids, adc, kref, B, T, z, W, d, n, N :
        /\ all = Cat([t \in DOMAIN Coarse(i, s, p) |-> i.lists[Coarse(i, s, p)[t]]])
        /\ ids = At(all, {t \in DOMAIN all : Allowed(s.filter, all[t])})
        /\ adc = [t \in DOMAIN ids |-> Dist(p - i.centroids[i.assign[ids[t]]], i.codes[ids[t]])]
        /\ kref = Krefine(s) /\ B = Best(s.dev, adc, kref) /\ T = TopK(adc, kref)
        /\ z = [t \in DOMAIN B |-> ids[B[t]]]
        /\ W = WantOf(i, s.filter) /\ d = FarOf(i, s.filter, p) /\ n = Rows(i) /\ N = Len(ids)
  OBVIOUS
<1>2. Ok(s.dev, "pairwise") /\ Ok(s.dev, "topk") /\ Ok(s.dev, "gather") /\ Searchable(s) /\ s.krefine >= n
  BY Zenon, <1>1 DEF Exhaustive
<1>3. i.x \in Seq(Values) /\ n \in Nat /\ n = Len(i.x)
  BY Zenon, <1>1, RightParts
<1>4. Enumerates(all, 1 .. n)
  BY Zenon, <1>1, ReadsAll
<1>5. Enumerates(ids, W)
  <2>1. ids = At(all, {t \in DOMAIN all : Allowed(s.filter, all[t])})
    BY Zenon, <1>1
  <2>2. Enumerates(ids, {r \in 1 .. n : Allowed(s.filter, r)})
    BY Zenon, <1>4, <2>1, EnumSome
  <2>3. W = {r \in 1 .. n : Allowed(s.filter, r)}
    BY Zenon, <1>1 DEF WantOf
  <2> QED
    BY Zenon, <2>2, <2>3
<1>6. N \in Nat /\ DOMAIN ids = 1 .. N /\ N <= n
  <2>1. N <= Rows(i)
    BY Zenon, <1>1, <1>3, <1>5, WantedFew
  <2> QED
    BY Zenon, <1>1, <1>5, <2>1, EnumCount
<1>7. kref \in Nat /\ N <= kref
  <2>1. kref \in Nat /\ s.krefine \in Int /\ kref >= s.krefine
    <3>1. s.krefine \in Int /\ s.k \in Nat
      BY Zenon, <1>2 DEF Searchable
    <3>2. kref = IF s.krefine < s.k THEN s.k ELSE s.krefine
      BY Zenon, <1>1 DEF Krefine
    <3>3. s.k \in Int
      BY SMTT(30), <3>1
    <3>4. kref \in Nat
      BY Zenon, <1>1, <1>2, SearchFacts
    <3> QED
      BY <3>1, <3>2, <3>3, <3>4
  <2> QED
    BY <1>2, <1>3, <1>6, <2>1
<1>8. \A t \in 1 .. N : ids[t] \in W /\ ids[t] \in 1 .. n
  <2>1. ids \in Seq(W)
    BY <1>5 DEF Enumerates
  <2>2. W \subseteq 1 .. n
    BY Zenon, <1>1 DEF WantOf
  <2> QED
    BY Zenon, <1>1, <2>1, <2>2, SeqFacts
<1>9. \A t \in 1 .. N : adc[t] = Dist(p, i.x[ids[t]]) /\ adc[t] \in Int /\ adc[t] # Inf
  <2>1. ASSUME NEW t \in 1 .. N
        PROVE  adc[t] = Dist(p, i.x[ids[t]]) /\ adc[t] \in Int /\ adc[t] # Inf
    <3>1. PICK r : r = ids[t] /\ r \in 1 .. Rows(i)
      BY Zenon, <1>1, <1>8
    <3>2. adc[t] = Dist(p - i.centroids[i.assign[r]], i.codes[r])
      BY Zenon, <1>1, <1>6, <3>1
    <3>3. adc[t] = Dist(p, i.x[r])
      BY Zenon, <3>1, <3>2, RabitqEstimates
    <3>4. i.x[r] \in Values
      BY Zenon, <1>1, <1>3, <3>1, SeqFacts
    <3>5. Dist(p, i.x[r]) \in Int /\ Dist(p, i.x[r]) # Inf
      BY <3>4, DistFacts
    <3> QED
      BY Zenon, <3>1, <3>3, <3>5
  <2> QED
    BY <2>1
<1>10. adc \in Seq(Int) /\ Len(adc) = N
  <2>1. DOMAIN adc = 1 .. N
    BY Zenon, <1>1, <1>6
  <2>2. adc = [t \in 1 .. N |-> adc[t]]
    BY Zenon, <1>1, <1>6
  <2>3. adc \in [1 .. N -> Int]
    BY Zenon, <1>9, <2>2
  <2> QED
    BY SMTT(30), <1>6, <2>1, <2>3
<1>11. Enumerates(T, 1 .. N) /\ Len(T) = N
  BY Zenon, <1>1, <1>7, <1>10, TopKAll
<1>12. DOMAIN T = 1 .. N
  BY <1>11, EnumCount
<1>13. BestIs(B, T, adc, N, N)
  <2>1. BestIs(Best(s.dev, adc, kref), TopK(adc, kref), adc, Least(kref, Len(adc)), Len(adc))
    BY <1>2, <1>7, <1>10, BestFacts
  <2>2. Least(kref, N) = N
    BY <1>6, <1>7 DEF Least
  <2> QED
    BY Zenon, <1>1, <1>10, <2>1, <2>2
<1>14. DOMAIN B = 1 .. N /\ \A t \in 1 .. N : B[t] = T[t]
  <2>1. DOMAIN B = 1 .. N /\ \A t \in 1 .. N : T[t] \in 1 .. N /\ (adc[T[t]] # Inf => B[t] = T[t])
    BY Zenon, <1>13 DEF BestIs
  <2> QED
    BY <1>9, <2>1
<1>15. z = [t \in DOMAIN T |-> ids[T[t]]]
  BY Zenon, <1>1, <1>12, <1>14
<1>16. Enumerates(z, W)
  <2>1. Enumerates(T, 1 .. Len(ids))
    BY Zenon, <1>1, <1>11
  <2> QED
    BY <1>5, <1>15, <2>1, EnumOrder
<1>17. RabitqAnswer(i, s, p) = Rescored(i, s, p, z)
  <2>1. RabitqAnswer(i, s, p) =
          Rescored(i, s, p, RabitqOf(i, Coarse(i, s, p), s.dev, s.filter, Krefine(s), p))
    BY Zenon DEF RabitqAnswer, RabitqOf
  <2>2. RabitqOf(i, Coarse(i, s, p), s.dev, s.filter, Krefine(s), p) = z
    BY Zenon, <1>1 DEF RabitqOf
  <2> QED
    BY <2>1, <2>2
<1>18. W \subseteq 1 .. Len(i.x) /\ d = [r \in W |-> Dist(p, i.x[r])] /\ s.k \in Nat
  BY Zenon, <1>1, <1>2, <1>3, SearchFacts DEF WantOf, FarOf
<1>19. Nearest(RabitqAnswer(i, s, p), W, d, s.k, Least(s.k, Cardinality(W)))
  BY <1>2, <1>3, <1>16, <1>17, <1>18, RescoredNearest
<1> QED
  BY Zenon, <1>1, <1>19 DEF NearestFor


\* z holds the rows of W whose home is c, each once.
Picks(z, home, W, c) ==
  /\ z \in Seq(W)
  /\ \A t \in 1 .. Len(z) : home[z[t]] = c
  /\ \A t, u \in 1 .. Len(z) : z[t] = z[u] => t = u
  /\ \A r \in W : home[r] = c => \E t \in 1 .. Len(z) : z[t] = r

\* What a query reads of a list of a right PQ index.
LEMMA PqListPicks ==
  ASSUME NEW i, Right(i), i.kind \in {"pq", "scann"}, NEW s, NEW c \in 1 .. Lists(i)
  PROVE  /\ Picks(IdsOf(i, s.filter, c), HomesOf(i.x, i.centroids), WantOf(i, s.filter), c)
         /\ \A r \in WantOf(i, s.filter) :
              HomesOf(i.x, i.centroids)[r] = c => Accepted(i, s, c) > 0
<1>1. PICK home, n, L, z, codes :
        /\ home = HomesOf(i.x, i.centroids) /\ n = Rows(i) /\ L = Lists(i) /\ z = i.lists[c]
        /\ codes = Codes(i.x, home, i.centroids, i.codebook)
  OBVIOUS
<1>2. n \in Nat /\ L \in Nat /\ home \in [1 .. n -> 1 .. L] /\ Sorted(i.lists, home, n, L) /\ c \in 1 .. L
  BY <1>1, RightParts
<1>3. Holds(z, home, n, c)
  BY <1>1, <1>2 DEF Sorted
<1>4. PICK P : P = Packed(i.lists, codes)
  OBVIOUS
<1>5. i.packed = P
  <2>1. i = PqIndex(i.kind, i.x, i.centroids, i.codebook, i.lists)
    BY DEF Right
  <2> QED
    BY <1>1, <1>4, <2>1 DEF PqIndex, Index
<1>6. PICK from, raw, f : from = P.offsets[c] /\ raw = ListRows(i, c) /\ f = s.filter
  OBVIOUS
<1>7. from \in Nat /\ raw = Len(z) /\ raw \in Nat /\ \A t \in 1 .. raw : P.ids[from + t] = z[t]
  <2>1. i.lists \in Seq(Seq(1 .. n)) /\ c \in 1 .. Len(i.lists)
    BY <1>2 DEF Sorted
  <2>2. /\ P.offsets[c] \in Nat /\ P.offsets[c + 1] - P.offsets[c] = Len(z)
        /\ \A t \in 1 .. Len(z) : P.ids[P.offsets[c] + t] = z[t]
    BY SMTT(30), <1>1, <1>4, <2>1, PackedFacts
  <2>3. Len(z) \in Nat
    BY <1>3 DEF Holds
  <2> QED
    BY <1>5, <1>6, <2>2, <2>3 DEF ListRows
<1>8. PICK F : F = {p \in from + 1 .. from + raw : Allowed(f, P.ids[p])}
  OBVIOUS
<1>9. PICK k, ps, W, a : /\ k = Cardinality(F) /\ ps = Ascending(F) /\ W = WantOf(i, f)
                         /\ a = IdsOf(i, f, c)
  OBVIOUS
<1>10. k \in Nat /\ Counts(ps, k, F)
  <2>1. F \in SUBSET (from + 1 .. from + raw)
    BY <1>8
  <2>2. IsFiniteSet(from + 1 .. from + raw)
    BY <1>7, FS_Interval
  <2>3. IsFiniteSet(F)
    BY <2>1, <2>2, FS_Subset
  <2>4. F \subseteq Int
    BY <2>1
  <2> QED
    BY <1>9, <2>3, <2>4, AscendingCounts
<1>11. a = [j \in 1 .. k |-> P.ids[ps[j]]]
  <2>1. PosOf(i, f, c) = ps
    BY <1>5, <1>6, <1>8, <1>9 DEF PosOf
  <2>2. DOMAIN ps = 1 .. k
    BY <1>10 DEF Counts
  <2> QED
    BY <1>5, <1>9, <2>1, <2>2 DEF IdsOf
<1>12. \A t \in 1 .. raw : z[t] \in 1 .. n /\ home[z[t]] = c
  <2>1. z \in Seq(1 .. n) /\ \A t \in 1 .. Len(z) : home[z[t]] = c
    BY <1>3 DEF Holds
  <2> QED
    BY <1>7, <2>1, SeqFacts
<1>13. \A j \in 1 .. k : /\ ps[j] - from \in 1 .. raw /\ ps[j] \in Int /\ a[j] = z[ps[j] - from]
                         /\ Allowed(f, a[j])
  <2>1. ASSUME NEW j \in 1 .. k
        PROVE  /\ ps[j] - from \in 1 .. raw /\ ps[j] \in Int /\ a[j] = z[ps[j] - from]
               /\ Allowed(f, a[j])
    <3>1. PICK p : p = ps[j]
      OBVIOUS
    <3>2. p \in F
      BY <1>10, <3>1 DEF Counts
    <3>3. p \in from + 1 .. from + raw /\ Allowed(f, P.ids[p])
      BY <1>8, <3>2
    <3>4. p - from \in 1 .. raw /\ p \in Int /\ from + (p - from) = p
      BY <1>7, <3>3
    <3>5. P.ids[p] = z[p - from]
      BY <1>7, <3>4
    <3>6. a[j] = P.ids[p]
      BY <1>11, <3>1
    <3> QED
      BY <3>1, <3>3, <3>4, <3>5, <3>6
  <2> QED
    BY <2>1
<1>14. \A j \in 1 .. k : a[j] \in W /\ home[a[j]] = c
  BY <1>1, <1>9, <1>12, <1>13 DEF WantOf
<1>15. a \in Seq(W) /\ Len(a) = k
  <2>1. a \in [1 .. k -> W]
    BY <1>11, <1>14
  <2>2. a \in Seq(W)
    BY <1>10, <2>1, SeqDef
  <2> QED
    BY <1>10, <2>1, <2>2, LenProperties
<1>16. \A j, u \in 1 .. k : a[j] = a[u] => j = u
  <2>1. SUFFICES ASSUME NEW j \in 1 .. k, NEW u \in 1 .. k, a[j] = a[u], j # u PROVE FALSE
    OBVIOUS
  <2>2. PICK v, wd : v = ps[j] - from /\ wd = ps[u] - from
    OBVIOUS
  <2>3. v \in 1 .. raw /\ wd \in 1 .. raw /\ z[v] = z[wd]
    BY <1>13, <2>1, <2>2
  <2>4. v = wd
    BY <1>3, <1>7, <2>3 DEF Holds
  <2>5. ps[j] = ps[u] /\ ps[j] \in Int
    BY <1>7, <1>13, <2>2, <2>4
  <2>6. j < u \/ u < j
    BY <2>1
  <2> QED
    BY <1>10, <2>5, <2>6 DEF Counts
<1>17. ASSUME NEW r \in W, home[r] = c
       PROVE  (\E j \in 1 .. k : a[j] = r) /\ raw > 0 /\ k > 0
  <2>1. r \in 1 .. n /\ Allowed(f, r)
    BY <1>1, <1>9 DEF WantOf
  <2>2. PICK t \in 1 .. raw : z[t] = r
    BY <1>3, <1>7, <1>17, <2>1 DEF Holds
  <2>3. from + t \in F
    BY <1>7, <1>8, <2>1, <2>2
  <2>4. PICK j \in 1 .. k : ps[j] = from + t
    BY <1>10, <2>3 DEF Counts
  <2>5. a[j] = r
    BY <1>7, <1>11, <2>2, <2>4
  <2> QED
    BY <1>7, <1>10, <2>2, <2>4, <2>5
<1>18. Picks(a, home, W, c)
  BY <1>14, <1>15, <1>16, <1>17 DEF Picks
<1>19. Accepted(i, s, c) = IF f = All \/ Fused(s) THEN raw ELSE k
  BY <1>5, <1>6, <1>8, <1>9 DEF Accepted
<1> QED
  BY <1>1, <1>6, <1>9, <1>17, <1>18, <1>19

\* Lists that are read once, and among them the home of every row of W.
LEMMA PickedUp ==
  ASSUME NEW home, NEW W, NEW m \in Nat, NEW K, Apart(K, m),
         \A r \in W : \E t \in 1 .. m : K[t] = home[r],
         NEW parts, DOMAIN parts = 1 .. m, parts = [t \in 1 .. m |-> parts[t]],
         \A t \in 1 .. m : Picks(parts[t], home, W, K[t])
  PROVE  SplitUp(parts, W)
<1>1. parts \in Seq(Seq(W)) /\ Len(parts) = m
  <2>1. PICK V : V = Seq(W)
    OBVIOUS
  <2>2. \A t \in 1 .. m : parts[t] \in V
    BY <2>1 DEF Picks
  <2>3. parts \in [1 .. m -> V]
    BY <2>2
  <2>4. parts \in Seq(V)
    BY <2>3, SeqDef
  <2>5. Len(parts) = m
    BY <2>3, <2>4, LenProperties
  <2> QED
    BY <2>1, <2>4, <2>5
<1>2. ASSUME NEW t \in 1 .. Len(parts), NEW u \in 1 .. Len(parts), NEW a \in 1 .. Len(parts[t]),
             NEW b \in 1 .. Len(parts[u]), parts[t][a] = parts[u][b]
      PROVE  t = u /\ a = b
  <2>1. t \in 1 .. m /\ u \in 1 .. m
    BY <1>1
  <2>2. Picks(parts[t], home, W, K[t]) /\ Picks(parts[u], home, W, K[u])
    BY <2>1
  <2>3. home[parts[t][a]] = K[t] /\ home[parts[u][b]] = K[u]
    BY <2>2 DEF Picks
  <2>4. t = u
    BY <1>2, <2>1, <2>3 DEF Apart
  <2>5. b \in 1 .. Len(parts[t]) /\ parts[t][a] = parts[t][b]
    BY <1>2, <2>4
  <2>6. a = b
    BY <2>2, <2>5 DEF Picks
  <2> QED
    BY <2>4, <2>6
<1>3. ASSUME NEW r \in W PROVE \E t \in 1 .. Len(parts) : \E a \in 1 .. Len(parts[t]) : parts[t][a] = r
  <2>1. PICK t \in 1 .. m : K[t] = home[r]
    OBVIOUS
  <2>2. Picks(parts[t], home, W, K[t])
    OBVIOUS
  <2>3. \E a \in 1 .. Len(parts[t]) : parts[t][a] = r
    BY <2>1, <2>2 DEF Picks
  <2> QED
    BY <1>1, <2>3
<1> QED
  BY <1>1, <1>2, <1>3 DEF SplitUp


\* A full PQ search reads the rows that are wanted.
LEMMA PqReads ==
  ASSUME NEW i, Right(i), i.kind \in {"pq", "scann"}, NEW s, Exhaustive(i, s), NEW p \in Values,
         NEW K, K = KeptOf(i, s, Coarse(i, s, p))
  PROVE  SplitUp(IdParts(i, s.filter, K), WantOf(i, s.filter))
<1>1. PICK home, n, L, W, cl, V, S, parts, m :
        /\ home = HomesOf(i.x, i.centroids) /\ n = Rows(i) /\ L = Lists(i)
        /\ W = WantOf(i, s.filter) /\ cl = Coarse(i, s, p)
        /\ V = {c \in 1 .. L : Accepted(i, s, c) > 0}
        /\ S = {t \in DOMAIN cl : Accepted(i, s, cl[t]) > 0}
        /\ parts = IdParts(i, s.filter, K) /\ m = Len(K)
  OBVIOUS
<1>2. L \in Nat /\ home \in [1 .. n -> 1 .. L]
  BY <1>1, RightParts
<1>3. Enumerates(cl, 1 .. L)
  <2>1. s.nprobe \in Int /\ s.nprobe >= Lists(i) /\ Ok(s.dev, "topk")
    BY SearchFacts DEF Exhaustive
  <2>2. i.centroids \in Seq(Values) /\ Lists(i) > 0
    BY RightParts
  <2> QED
    BY <1>1, <2>1, <2>2, CoarseAll
<1>4. Enumerates(K, V)
  <2>1. \A t \in DOMAIN cl : cl[t] \in 1 .. L
    <3>1. cl \in Seq(1 .. L) /\ DOMAIN cl = 1 .. Len(cl)
      BY <1>3, EnumCount DEF Enumerates
    <3> QED
      BY <3>1, SeqFacts
  <2>2. S \in SUBSET DOMAIN cl /\ V \subseteq 1 .. L /\ \A t \in DOMAIN cl : t \in S <=> cl[t] \in V
    BY <1>1, <2>1
  <2>3. K = At(cl, S)
    BY <1>1 DEF KeptOf
  <2> QED
    BY <1>3, <2>2, <2>3, EnumAt
<1>5. m \in Nat /\ DOMAIN K = 1 .. m /\ Apart(K, m) /\ Reaches(K, m, V)
  BY <1>1, <1>4, EnumCount DEF Enumerates, Apart, Reaches
<1>6. \A t \in 1 .. m : K[t] \in 1 .. Lists(i)
  <2>1. K \in Seq(V)
    BY <1>4 DEF Enumerates
  <2>2. \A t \in 1 .. m : K[t] \in V
    BY <1>1, <2>1, SeqFacts
  <2> QED
    BY <1>1, <2>2
<1>7. \A r \in W : \E t \in 1 .. m : K[t] = home[r]
  <2>1. ASSUME NEW r \in W PROVE \E t \in 1 .. m : K[t] = home[r]
    <3>1. r \in 1 .. n
      BY <1>1 DEF WantOf
    <3>2. home[r] \in 1 .. Lists(i)
      BY <1>1, <1>2, <3>1
    <3>3. Accepted(i, s, home[r]) > 0
      BY <1>1, <3>2, PqListPicks
    <3>4. home[r] \in V
      BY <1>1, <3>2, <3>3
    <3> QED
      BY <1>5, <3>4 DEF Reaches
  <2> QED
    BY <2>1
<1>8. DOMAIN parts = 1 .. m /\ parts = [t \in 1 .. m |-> parts[t]]
      /\ \A t \in 1 .. m : parts[t] = IdsOf(i, s.filter, K[t])
  BY <1>1, <1>5 DEF IdParts
<1>9. \A t \in 1 .. m : Picks(parts[t], home, W, K[t])
  <2>1. ASSUME NEW t \in 1 .. m PROVE Picks(parts[t], home, W, K[t])
    <3>1. K[t] \in 1 .. Lists(i)
      BY <1>6
    <3>2. Picks(IdsOf(i, s.filter, K[t]), HomesOf(i.x, i.centroids), WantOf(i, s.filter), K[t])
      BY <3>1, PqListPicks
    <3> QED
      BY <1>1, <1>8, <3>2
  <2> QED
    BY <2>1
<1>10. SplitUp(parts, W)
  BY <1>5, <1>7, <1>8, <1>9, PickedUp, SMTT(30)
<1> QED
  BY <1>1, <1>10

\* Its shortlist names them all.
LEMMA PqShortlists ==
  ASSUME NEW i, Right(i), i.kind \in {"pq", "scann"}, NEW s, Exhaustive(i, s), NEW p \in Values
  PROVE  Enumerates(Chosen(i, s, p, Coarse(i, s, p)), WantOf(i, s.filter))
<1>1. PICK K, a, b, ids, sc, kref, T, z, W, L, N :
        /\ K = KeptOf(i, s, Coarse(i, s, p)) /\ a = ScoreParts(i, s.filter, p, K)
        /\ b = IdParts(i, s.filter, K) /\ ids = Cat(b) /\ sc = Cat(a) /\ kref = Krefine(s)
        /\ T = TopK(sc, kref) /\ z = [t \in DOMAIN T |-> ids[T[t]]]
        /\ W = WantOf(i, s.filter) /\ L = Lists(i) /\ N = Len(ids)
  OBVIOUS
<1>2. SplitUp(b, W)
  BY <1>1, PqReads
<1>3. Enumerates(ids, W)
  <2>1. Enumerates(Cat(b), W)
    BY <1>2, EnumCat
  <2> QED
    BY <1>1, <2>1
<1>4. K \in Seq(1 .. L) /\ L \in Nat
  <2>1. Searchable(s) /\ i.centroids \in Seq(Values) /\ L \in Nat /\ Lists(i) > 0
    BY <1>1, RightParts DEF Exhaustive
  <2>2. Coarse(i, s, p) \in Seq(1 .. L)
    BY <1>1, <2>1, CoarseFacts
  <2> QED
    BY <1>1, <2>1, <2>2, KeptFacts
<1>5. sc \in Seq(Int) /\ Len(sc) = N
  <2>1. PICK m, ps : m = Len(K) /\ ps = [j \in 1 .. m |-> p]
    OBVIOUS
  <2>2. m \in Nat /\ DOMAIN K = 1 .. m /\ \A j \in 1 .. m : K[j] \in 1 .. L
    BY <1>4, <2>1, SeqFacts
  <2>3. \A j \in 1 .. m : K[j] \in 1 .. L /\ ps[j] \in Int
    BY <2>1, <2>2, IvfAssumption
  <2>4. a = [j \in 1 .. m |-> ScoresOf(i, s.filter, ps[j], K[j])]
    <3>1. a = [j \in 1 .. m |-> ScoresOf(i, s.filter, p, K[j])]
      BY <1>1, <2>2 DEF ScoreParts
    <3>2. \A j \in 1 .. m : ps[j] = p
      BY <2>1
    <3> QED
      BY <3>1, <3>2
  <2>5. PartsAre(a, b, i, s.filter, ps, K, m)
    BY <1>1, <2>2, <2>4 DEF PartsAre, IdParts
  <2>6. ReadAll(i, s, L)
    BY <1>1, RightScored
  <2>7. a \in Seq(Seq(Int)) /\ b \in Seq(Seq(Int)) /\ SameLengths(a, b)
    BY <1>4, <2>2, <2>3, <2>5, <2>6, PartsOf
  <2>8. Cat(a) \in Seq(Int)
    BY <2>7, CatFacts
  <2>9. Len(Cat(a)) = Len(Cat(b))
    BY <2>7, SameOffsets
  <2> QED
    BY <1>1, <2>8, <2>9
<1>6. kref \in Nat /\ Len(sc) <= kref
  <2>1. Searchable(s) /\ s.krefine >= Rows(i)
    BY DEF Exhaustive
  <2>2. Rows(i) \in Nat
    BY RightParts
  <2>3. N \in Nat /\ N <= Rows(i)
    BY <1>1, <1>3, <2>2, WantedFew
  <2>4. kref \in Nat
    BY <1>1, <2>1, SearchFacts
  <2>5. s.krefine \in Int /\ s.k \in Int
    BY <2>1 DEF Searchable
  <2>6. kref = IF s.krefine < s.k THEN s.k ELSE s.krefine
    BY <1>1 DEF Krefine
  <2>7. kref >= s.krefine
    BY <2>5, <2>6
  <2> QED
    BY <1>5, <2>1, <2>2, <2>3, <2>4, <2>5, <2>7
<1>7. Enumerates(T, 1 .. Len(ids))
  <2>1. Enumerates(TopK(sc, kref), 1 .. Len(sc))
    BY <1>5, <1>6, TopKAll
  <2> QED
    BY <1>1, <1>5, <2>1
<1>8. z = [t \in DOMAIN T |-> ids[T[t]]]
  BY <1>1
<1>9. Enumerates(z, W)
  BY <1>3, <1>7, <1>8, EnumOrder
<1>10. Chosen(i, s, p, Coarse(i, s, p)) = z
  BY <1>1 DEF Chosen, ChosenOf
<1> QED
  BY <1>1, <1>9, <1>10

\* IVF-PQ, and what ScaNN asks of its inner index.
LEMMA PqIsNearest ==
  ASSUME NEW i, Right(i), i.kind \in {"pq", "scann"}, NEW s, Exhaustive(i, s), NEW p \in Values
  PROVE  /\ NearestFor(i, s, p, PqOf(i, s, p))
         /\ NoMore(PqOf(i, s, p), s.k, Least(s.k, Cardinality(WantOf(i, s.filter))))
<1>1. PICK z, W, d, ans : /\ z = Chosen(i, s, p, Coarse(i, s, p)) /\ W = WantOf(i, s.filter)
                          /\ d = FarOf(i, s.filter, p) /\ ans = PqOf(i, s, p)
  OBVIOUS
<1>2. Enumerates(z, W)
  BY <1>1, PqShortlists
<1>3. ans = Rescored(i, s, p, z)
  BY <1>1 DEF PqOf
<1>4. Ok(s.dev, "pairwise") /\ Ok(s.dev, "topk") /\ Ok(s.dev, "gather") /\ s.k \in Nat
  BY SearchFacts DEF Exhaustive
<1>5. i.x \in Seq(Values)
  BY RightParts
<1>6. W \subseteq 1 .. Len(i.x) /\ d = [r \in W |-> Dist(p, i.x[r])]
  BY <1>1 DEF WantOf, FarOf, Rows
<1>7. Nearest(ans, W, d, s.k, Least(s.k, Cardinality(W)))
  BY <1>2, <1>3, <1>4, <1>5, <1>6, RescoredNearest
<1>8. NoMore(ans, s.k, Least(s.k, Cardinality(W)))
  BY <1>2, <1>3, <1>4, <1>5, <1>6, RescoredNearest
<1> QED
  BY <1>1, <1>7, <1>8 DEF NearestFor


\* The rows of an inner search that found them all.
LEMMA RowsInAll ==
  ASSUME NEW n \in Nat, NEW k \in Nat, n <= k, NEW found, NEW d,
         Nearest(found, 1 .. n, d, k, n), NoMore(found, k, n)
  PROVE  Enumerates(RowsIn(found), 1 .. n)
<1>1. PICK X, S, z : /\ X = 1 .. n /\ S = {t \in DOMAIN found : found[t][1] # NoRow}
                     /\ z = [t \in 1 .. n |-> found[t][1]]
  OBVIOUS
<1>2. /\ DOMAIN found = 1 .. k /\ (\A t \in 1 .. n : found[t][1] \in X)
      /\ \A t, u \in 1 .. n : found[t][1] = found[u][1] => t = u
  BY <1>1 DEF Nearest
<1>3. \A t \in 1 .. k : ~(t <= n) => found[t][1] = NoRow
  BY DEF NoMore, Missing
<1>4. S = 1 .. n
  <2>1. \A t \in 1 .. k : found[t][1] # NoRow <=> t <= n
    <3>1. \A t \in 1 .. k : t <= n => t \in 1 .. n
      OBVIOUS
    <3>2. \A x \in X : x # NoRow
      BY <1>1 DEF NoRow
    <3> QED
      BY <1>2, <1>3, <3>1, <3>2
  <2>2. S = {t \in 1 .. k : found[t][1] # NoRow}
    BY <1>1, <1>2
  <2>3. S = {t \in 1 .. k : t <= n}
    BY <2>1, <2>2
  <2> QED
    BY <2>3
<1>5. Ascending(S) = [t \in 1 .. n |-> t]
  <2>1. Ascending(0 + 1 .. 0 + n) = [t \in 1 .. n |-> 0 + t]
    BY AscendingInterval
  <2> QED
    BY <1>4, <2>1
<1>6. At(found, S) = [t \in 1 .. n |-> found[t]]
  BY <1>5 DEF At
<1>7. RowsIn(found) = z
  <2>1. PICK kept : kept = At(found, S)
    OBVIOUS
  <2>2. DOMAIN kept = 1 .. n /\ \A t \in 1 .. n : kept[t] = found[t]
    BY <1>6, <2>1
  <2>3. RowsIn(found) = [t \in DOMAIN kept |-> kept[t][1]]
    BY <1>1, <2>1 DEF RowsIn
  <2> QED
    BY <1>1, <2>2, <2>3
<1>8. Names(z, n, X) /\ Apart(z, n)
  BY <1>1, <1>2 DEF Names, Apart
<1>9. IsFiniteSet(X) /\ Cardinality(X) = n
  <2>1. IsFiniteSet(1 .. n) /\ Cardinality(1 .. n) = IF 1 > n THEN 0 ELSE n - 1 + 1
    BY FS_Interval
  <2>2. Cardinality(1 .. n) = n
    BY <2>1
  <2> QED
    BY <1>1, <2>1, <2>2
<1>10. Reaches(z, n, X)
  BY <1>8, <1>9, AtLeast
<1>11. z \in Seq(X) /\ Len(z) = n
  <2>1. z \in [1 .. n -> X]
    BY <1>1, <1>8 DEF Names
  <2>2. z \in Seq(X)
    BY <2>1, SeqDef
  <2> QED
    BY <2>1, <2>2, LenProperties
<1>12. Enumerates(z, X)
  BY <1>8, <1>10, <1>11 DEF Enumerates, Apart, Reaches
<1> QED
  BY <1>1, <1>7, <1>12

\* ScaNN: every row is found by the inner index, and rescored.
LEMMA ScannIsNearest ==
  ASSUME NEW i, Right(i), i.kind = "scann", NEW s, Exhaustive(i, s), s.filter = All, NEW p \in Values
  PROVE  NearestFor(i, s, p, ScannOf(i, s, p))
<1>1. PICK c, found, n, kref, ids, d, ans :
        /\ c = InnerOf(s) /\ found = PqOf(i, c, p) /\ n = Rows(i) /\ kref = Krefine(s)
        /\ ids = RowsIn(found) /\ d = FarOf(i, s.filter, p) /\ ans = ScannOf(i, s, p)
  OBVIOUS
<1>2. Searchable(s) /\ Ok(s.dev, "pairwise") /\ Ok(s.dev, "topk") /\ Ok(s.dev, "gather")
      /\ s.krefine >= n /\ s.nprobe >= Lists(i)
  BY <1>1 DEF Exhaustive
<1>3. Searchable(c)
  BY <1>1, <1>2, InnerFacts
<1>4. c.k = kref /\ c.filter = All /\ c.nprobe = s.nprobe /\ c.krefine = s.krefine /\ c.dev = s.dev
  <2>1. c = [s EXCEPT !.k = kref, !.filter = All]
    BY <1>1 DEF InnerOf
  <2> QED
    BY <1>2, <2>1 DEF Searchable
<1>5. Exhaustive(i, c)
  BY <1>1, <1>2, <1>3, <1>4 DEF Exhaustive
<1>6. NearestFor(i, c, p, found) /\ NoMore(found, c.k, Least(c.k, Cardinality(WantOf(i, c.filter))))
  BY <1>1, <1>5, PqIsNearest
<1>7. i.x \in Seq(Values) /\ n \in Nat /\ n = Len(i.x)
  BY <1>1, RightParts
<1>8. WantOf(i, All) = 1 .. n /\ Cardinality(1 .. n) = n
  <2>1. WantOf(i, All) = 1 .. n
    BY <1>1 DEF WantOf, Allowed
  <2>2. Cardinality(1 .. n) = n
    BY <1>7, FS_Interval
  <2> QED
    BY <2>1, <2>2
<1>9. kref \in Nat /\ n <= kref
  <2>1. kref \in Nat
    BY <1>1, <1>2, SearchFacts
  <2>2. s.krefine \in Int /\ s.k \in Int
    BY <1>2 DEF Searchable
  <2>3. kref = IF s.krefine < s.k THEN s.k ELSE s.krefine
    BY <1>1 DEF Krefine
  <2> QED
    BY <1>2, <1>7, <2>1, <2>2, <2>3
<1>10. Least(kref, n) = n
  BY <1>7, <1>9 DEF Least
<1>11. Nearest(found, 1 .. n, FarOf(i, All, p), kref, n) /\ NoMore(found, kref, n)
  BY <1>4, <1>6, <1>8, <1>10 DEF NearestFor
<1>12. Enumerates(ids, 1 .. n)
  <2>1. Enumerates(RowsIn(found), 1 .. n)
    BY <1>7, <1>9, <1>11, RowsInAll
  <2> QED
    BY <1>1, <2>1
<1>13. PICK W : W = WantOf(i, s.filter)
  OBVIOUS
<1>14. W = 1 .. n
  BY <1>8, <1>13
<1>15. Enumerates(ids, W)
  BY <1>12, <1>14
<1>16. W \subseteq 1 .. Len(i.x) /\ d = [r \in W |-> Dist(p, i.x[r])] /\ s.k \in Nat
  BY <1>1, <1>2, <1>7, <1>13, <1>14, SearchFacts DEF FarOf
<1>17. ans = Rescored(i, s, p, ids)
  BY <1>1 DEF ScannOf
<1>18. Nearest(ans, W, d, s.k, Least(s.k, Cardinality(W)))
  BY <1>2, <1>7, <1>15, <1>16, <1>17, RescoredNearest
<1> QED
  BY <1>1, <1>13, <1>18 DEF NearestFor


\* A search that reads every list and rescores every candidate.
FullSearch(i, s) == (i.kind = "brute" \/ s.nprobe >= Lists(i)) /\ s.krefine >= Rows(i)

\* It answers with the nearest rows.
LEMMA FullIsExact ==
  ASSUME NEW i, NEW s, Askable(i, s), Right(i), Usable(i.kind, s.dev), Succeeds(i, s),
         {"ignored", "k_over_n"} \cap Habits = {}, FullSearch(i, s), NEW q \in DOMAIN s.q
  PROVE  ExactFor(i, s, s.q[q], Answers(i, s)[q])
<1>1. PICK p : p = s.q[q]
  OBVIOUS
<1>2. Searchable(s) /\ i.kind \in {"brute", "flat", "rabitq", "pq", "scann"} /\ s.k \in Nat
  BY SearchFacts DEF Askable
<1>3. p \in Values
  <2>1. s.q \in Seq(Values)
    BY <1>2, SearchFacts
  <2> QED
    BY <1>1, <2>1, SeqFacts
<1>4. "ignored" \notin Habits /\ "k_over_n" \notin Habits
  OBVIOUS
<1>5. Ok(s.dev, "pairwise") /\ Ok(s.dev, "topk") /\ (i.kind # "brute" => Ok(s.dev, "gather"))
  <2>1. CASE i.kind = "brute"
    BY <2>1 DEF Succeeds
  <2>2. CASE i.kind \in {"pq", "scann"}
    BY <2>2 DEF Succeeds, PqSucceeds
  <2>3. CASE i.kind \in {"flat", "rabitq"}
    BY <1>4, <2>3 DEF Usable, DropsStatus
  <2> QED
    BY <1>2, <2>1, <2>2, <2>3
<1>6. Exhaustive(i, s)
  BY <1>2, <1>5 DEF Exhaustive, FullSearch
<1>7. NearestFor(i, s, p, Answers(i, s)[q])
  <2>1. CASE i.kind = "brute"
    <3>1. s.k <= Rows(i) /\ i.x \in Seq(Values)
      BY <1>4, <2>1 DEF Askable, Right
    <3>2. Rows(i) \in Nat
      BY <3>1, SeqFacts DEF Rows
    <3>3. BruteAnswers(i, s)[q] = BruteOf(i, s, p)
      BY <1>1, <1>2, <3>1, <3>2, BruteAnswersAre
    <3>4. NearestFor(i, s, p, BruteOf(i, s, p))
      BY <1>3, <1>6, <2>1, <3>1, BruteIsNearest
    <3>5. Answers(i, s) = BruteAnswers(i, s)
      BY <2>1 DEF Answers
    <3> QED
      BY <3>3, <3>4, <3>5
  <2>2. CASE i.kind = "flat"
    <3>1. Answers(i, s) = [r \in DOMAIN s.q |-> FlatAnswer(i, s, s.q[r])]
      BY <2>2 DEF Answers
    <3>2. Answers(i, s)[q] = FlatAnswer(i, s, p)
      BY <1>1, <3>1
    <3> QED
      BY <1>3, <1>6, <2>2, <3>2, FlatIsNearest
  <2>3. CASE i.kind = "rabitq"
    <3>1. Answers(i, s) = [r \in DOMAIN s.q |-> RabitqAnswer(i, s, s.q[r])]
      BY <2>3 DEF Answers
    <3>2. Answers(i, s)[q] = RabitqAnswer(i, s, p)
      BY <1>1, <3>1
    <3> QED
      BY <1>3, <1>6, <2>3, <3>2, RabitqIsNearest
  <2>4. CASE i.kind = "pq"
    <3>1. Answers(i, s) = PqAnswers(i, s)
      BY <2>4 DEF Answers
    <3>2. PqAnswers(i, s)[q] = PqOf(i, s, p)
      BY <1>1, <1>2, <2>4, PqAnswersAre
    <3>3. NearestFor(i, s, p, PqOf(i, s, p))
      BY <1>3, <1>6, <2>4, PqIsNearest
    <3> QED
      BY <3>1, <3>2, <3>3
  <2>5. CASE i.kind = "scann"
    <3>1. s.filter = All
      BY <2>5 DEF Askable
    <3>2. Answers(i, s) = ScannAnswers(i, s)
      BY <2>5 DEF Answers
    <3>3. ScannAnswers(i, s)[q] = ScannOf(i, s, p)
      BY <1>1, <1>2, <2>5, <3>1, ScannAnswersAre
    <3>4. NearestFor(i, s, p, ScannOf(i, s, p))
      BY <1>3, <1>6, <2>5, <3>1, ScannIsNearest
    <3> QED
      BY <3>2, <3>3, <3>4
  <2> QED
    BY <1>2, <2>1, <2>2, <2>3, <2>4, <2>5
<1>8. ExactFor(i, s, p, Answers(i, s)[q])
  BY <1>2, <1>7, NearestIsExact
<1> QED
  BY <1>1, <1>8

\* A search that reads every list and rescores every candidate is exact, for
\* every index, batch, filter and device, where no caller runs primitives
\* that fail on a kind that drops their status, nor asks brute force for more
\* rows than there are: its finite answers are the nearest allowed rows, in
\* order, each once.
THEOREM FullProbesAreExact ==
  {"ignored", "k_over_n"} \cap Habits = {} => (IvfSpec => []FullProbeIsExact)
<1>1. SUFFICES ASSUME {"ignored", "k_over_n"} \cap Habits = {} PROVE IvfSpec => []FullProbeIsExact
  OBVIOUS
<1>2. RightInv /\ AskedInv => FullProbeIsExact
  <2>1. SUFFICES ASSUME RightInv, AskedInv, Searched, FullSearch(ix, did.s), NEW q \in DOMAIN did.s.q
                 PROVE  ExactFor(ix, did.s, did.s.q[q], did.answers[q])
    BY DEF FullProbeIsExact, FullSearch, ExactFor
  <2>2. /\ ix # NoIndex /\ Askable(ix, did.s) /\ did.answers = Answers(ix, did.s)
        /\ Usable(ix.kind, did.s.dev) /\ Succeeds(ix, did.s)
    BY <2>1 DEF AskedInv
  <2>3. Right(ix)
    BY <1>1, <2>1, <2>2 DEF RightInv, RightIndex, Trusted
  <2> QED
    BY SMTT(30), <1>1, <2>1, <2>2, <2>3, FullIsExact
<1> QED
  BY <1>2, IndexesAreRight, SearchesAreAsked, PTL
=============================================================================
