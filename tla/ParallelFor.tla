---------------------------- MODULE ParallelFor -----------------------------
(***************************************************************************)
(* What CpuWorkPool::run promises its caller (src/internal.hpp): fn is     *)
(* applied to every index of the range once, by whichever threads are free,*)
(* and run returns when all of these applications have ended; no thread    *)
(* uses a caller's fn outside of that caller's call.                       *)
(***************************************************************************)
EXTENDS Integers

CONSTANTS
  Callers, Threads,
  MaxItems   \* bound: indices of a range

VARIABLES
  open,     \* the callers inside run
  left,     \* per caller, the indices nobody has started
  running   \* <<t, c, i>>: thread t is in c's fn(i)

vars == <<open, left, running>>

Init ==
  /\ open = {}
  /\ left = [c \in Callers |-> {}]
  /\ running = {}

Begin(c, lo, hi) ==
  /\ c \notin open
  /\ open' = open \cup {c}
  /\ left' = [left EXCEPT ![c] = lo .. hi - 1]
  /\ UNCHANGED running

Start(t, c, i) ==
  /\ c \in open /\ i \in left[c]
  /\ \A r \in running : r[1] # t
  /\ left' = [left EXCEPT ![c] = @ \ {i}]
  /\ running' = running \cup {<<t, c, i>>}
  /\ UNCHANGED open

Finish(r) ==
  /\ r \in running
  /\ running' = running \ {r}
  /\ UNCHANGED <<open, left>>

End(c) ==
  /\ c \in open
  /\ left[c] = {}
  /\ \A r \in running : r[2] # c
  /\ open' = open \ {c}
  /\ UNCHANGED <<left, running>>

Next ==
  \/ \E c \in Callers : (\E lo, hi \in 0 .. MaxItems : Begin(c, lo, hi)) \/ End(c)
  \/ \E c \in Callers, t \in Threads : \E i \in left[c] : Start(t, c, i)
  \/ \E r \in running : Finish(r)

Spec == Init /\ [][Next]_vars

=============================================================================
