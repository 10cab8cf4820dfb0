------------------------------- MODULE IdMap -------------------------------
(***************************************************************************)
(* What the public ids of a mutable index promise their holders, whatever  *)
(* rows and generations stand behind them.  A live id names a vector.  A   *)
(* deleted id is a tombstone: it names nothing, but its holder may still   *)
(* revive it, until an insert takes its place.  An id whose holder has     *)
(* been told about it (`owned`) is never given to another vector and never *)
(* stops naming its own except by Delete; only an id nobody was told about *)
(* may be withdrawn.                                                       *)
(***************************************************************************)
CONSTANTS Id, Vec

VARIABLES
  store,  \* the vectors of the live ids
  tombs,  \* the deleted ids that may be revived
  owned   \* the ids some caller was told

idVars == <<store, tombs, owned>>

Live == DOMAIN store

Init ==
  /\ tombs = {}
  /\ owned = Live
  /\ \A id \in Live : store[id] \in Vec

\* A new vector takes a fresh id, and possibly the place of one tombstone.
Insert(id, v) ==
  /\ id \notin owned \cup Live \cup tombs
  /\ store' = [x \in Live \cup {id} |-> IF x = id THEN v ELSE store[x]]
  /\ tombs' = tombs \/ \E t \in tombs : tombs' = tombs \ {t}
  /\ UNCHANGED owned

\* A successful insert reports live ids.
Report ==
  /\ owned \subseteq owned' /\ owned' \ owned \subseteq Live
  /\ UNCHANGED <<store, tombs>>

\* A failed insert takes back ids it never reported; the vector it had
\* displaced comes back as a tombstone.
Withdraw ==
  /\ \E S \in SUBSET (Live \ owned) :
       store' = [x \in Live \ S |-> store[x]] /\ tombs' \ tombs \subseteq S
  /\ tombs \subseteq tombs'
  /\ UNCHANGED owned

Delete(id) ==
  /\ id \in Live
  /\ store' = [x \in Live \ {id} |-> store[x]]
  /\ tombs' = tombs \cup {id}
  /\ UNCHANGED owned

Revive(id, v) ==
  /\ id \in tombs
  /\ store' = [x \in Live \cup {id} |-> IF x = id THEN v ELSE store[x]]
  /\ tombs' = tombs \ {id}
  /\ UNCHANGED owned

Write(id, v) ==
  /\ id \in Live
  /\ store' = [store EXCEPT ![id] = v]
  /\ UNCHANGED <<tombs, owned>>

Next ==
  \/ \E id \in Id, v \in Vec : Insert(id, v) \/ Revive(id, v) \/ Write(id, v)
  \/ \E id \in Id : Delete(id)
  \/ Report
  \/ Withdraw

Spec == Init /\ [][Next]_idVars

=============================================================================
