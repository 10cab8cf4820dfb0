-------------------------- MODULE CagraGraphProofs --------------------------
(***************************************************************************)
(* Proofs about CagraGraph, for every size of the index, degree, chunk and *)
(* number of calls, and every way a repair may fail.                       *)
(***************************************************************************)
EXTENDS CagraGraph, FiniteSetTheorems, TLAPS

-----------------------------------------------------------------------------
(* The inductive invariant.                                                *)

Old == 0 .. origN - 1

\* The phases of the call in progress, and what each kind of call leaves alone.
PhaseInv ==
  /\ pc = "idle" <=> op = "none"
  /\ pc = "idle" => /\ todo = 0 /\ rowsLeft = {} /\ slots = {} /\ reused = {}
                    /\ journal = <<>> /\ claimed = {}
  /\ pc \in {"giveback", "unwind"} => op = "extend" /\ todo = 0
  /\ pc # "repair" => hidden = {}
  /\ op = "update" => origN = n /\ todo = 0
  /\ op = "extend" => /\ dead \subseteq Old /\ claimed \subseteq Old
                      /\ reused \subseteq claimed /\ slots \cap Old \subseteq claimed
                      /\ rowsLeft = {}

\* The rows a repair still has to prune, and what it offers them.
LinkInv ==
  /\ pc # "prune" => DOMAIN links = {} /\ DOMAIN half = {}
  /\ pc = "repair" => (slots \ hidden) \cap suspect = {}
  /\ DOMAIN links \cup DOMAIN half \subseteq Rows
  /\ \A u \in DOMAIN links : links[u] \subseteq Rows \ {u}
  /\ \A u \in DOMAIN half : /\ half[u] \subseteq Nat \ {u}
                            /\ u \notin suspect => half[u] \subseteq Rows

\* No row is its own neighbour, but for the local numbers of a half pruned one;
\* and a row that is yet to be appended has no edge.
RowInv ==
  /\ \A r \in Row \ DOMAIN half : r \notin graph[r]
  /\ \A r \in Row \ Rows : graph[r] = {}

\* The edges a prune overwrote.
Edges == UNION {[D -> SUBSET Nat] : D \in SUBSET Nat}

JournalInv ==
  /\ journal \in Seq(Edges)
  /\ \A k \in DOMAIN journal : \A u \in DOMAIN journal[k] : u \notin journal[k][u]
  /\ op = "extend" /\ pc = "prune" =>
       /\ journal # <<>>
       /\ DOMAIN links \cup DOMAIN half \subseteq DOMAIN journal[Len(journal)]

\* The oldest entry of a row in the journal, or the row itself if it has none,
\* holds the edges the row had before the call.
UndoInv ==
  op = "extend" =>
    \A r \in Old \ claimed :
      /\ r \notin suspect => before[r] \subseteq Old
      /\ (\A k \in DOMAIN journal : r \notin DOMAIN journal[k]) => graph[r] = before[r]
      /\ \A k \in DOMAIN journal :
           (/\ r \in DOMAIN journal[k]
            /\ \A l \in 1 .. k - 1 : r \notin DOMAIN journal[l])
           => journal[k][r] = before[r]

IInv ==
  /\ TypeOK
  /\ PhaseInv
  /\ LinkInv
  /\ RowInv
  /\ JournalInv
  /\ UndoInv
  /\ KeptEdgesInRange

-----------------------------------------------------------------------------
(* Facts about the operators.                                              *)

\* Row numbers and sizes are natural numbers.
LEMMA Sizes ==
  ASSUME TypeOK
  PROVE  /\ n \in Nat /\ origN \in Nat /\ MaxRows \in Nat
         /\ 1 <= origN /\ origN <= n /\ n <= MaxRows
         /\ Rows \subseteq Row /\ Row \subseteq Nat /\ Old \subseteq Rows
BY CagraGraphAssumption DEF TypeOK, Rows, Row, Old

\* A set of rows is finite and no larger than the rows there are.
LEMMA RowSets ==
  ASSUME TypeOK, NEW S, S \subseteq Rows
  PROVE  IsFiniteSet(S) /\ Cardinality(S) \in Nat /\ Cardinality(S) <= n
<1>1. n \in Nat
  BY Sizes
<1>2. IsFiniteSet(Rows) /\ Cardinality(Rows) = n
  BY <1>1, FS_Interval DEF Rows
<1>3. IsFiniteSet(S) /\ Cardinality(S) <= Cardinality(Rows)
  BY <1>2, FS_Subset
<1>4. QED
  BY <1>2, <1>3, FS_CardinalityType

\* The local number of a candidate of a row is below the number of rows, so that
\* even a half pruned row leads to rows of the index.
LEMMA LocalInRows ==
  ASSUME TypeOK, NEW u \in Rows, NEW v \in Nat,
         Candidates(u) \subseteq Rows \ {u}
  PROVE  Local(u, v) \in Rows
<1> DEFINE C == {c \in Candidates(u) : c <= v}
<1>1. n \in Nat /\ n > 0
  BY Sizes
<1>2. IsFiniteSet(Rows) /\ Cardinality(Rows) = n
  BY <1>1, FS_Interval DEF Rows
<1>3. IsFiniteSet(Rows \ {u}) /\ Cardinality(Rows \ {u}) = n - 1
  BY <1>2, FS_RemoveElement
<1>4. C \subseteq Rows \ {u}
  OBVIOUS
<1>5. IsFiniteSet(C) /\ Cardinality(C) <= n - 1
  BY <1>3, <1>4, FS_Subset
<1>6. Cardinality(C) \in Nat
  BY <1>5, FS_CardinalityType
<1>7. Cardinality(C) \in 0 .. n - 1
  BY <1>1, <1>5, <1>6
<1>8. QED
  BY <1>7 DEF Local, Rows

\* Whatever the candidates are, a local number is a natural number.
LEMMA LocalIsNat ==
  ASSUME NEW u, NEW v \in Nat, Candidates(u) \subseteq Nat
  PROVE  Local(u, v) \in Nat
<1> DEFINE C == {c \in Candidates(u) : c <= v}
<1>1. C \subseteq 0 .. v
  OBVIOUS
<1>2. IsFiniteSet(0 .. v)
  BY FS_Interval
<1>3. IsFiniteSet(C)
  BY <1>1, <1>2, FS_Subset
<1>4. QED
  BY <1>3, FS_CardinalityType DEF Local

-----------------------------------------------------------------------------
(* The actions.                                                            *)

LEMMA InitStep == ASSUME Init PROVE IInv
<1>1. /\ graph \in [Row -> SUBSET Nat] /\ \A r \in Row : r \notin graph[r]
      /\ \A r \in Rows : graph[r] \subseteq Rows
      /\ \A r \in Row \ Rows : graph[r] = {}
  BY CagraGraphAssumption DEF Init, Row, Rows
<1>2. TypeOK
  <2>1. f16 \in BOOLEAN /\ wantIds \in BOOLEAN
    BY DEF Init
  <2>2. DOMAIN links = {} /\ DOMAIN half = {}
    BY DEF Init, NoLinks
  <2>3. n \in 1 .. MaxRows /\ origN \in 1 .. n /\ todo \in 0 .. Batch /\ n + todo <= MaxRows
        /\ calls \in 0 .. MaxCalls
    BY CagraGraphAssumption DEF Init
  <2>4. dead = {} /\ rowsLeft = {} /\ slots = {} /\ reused = {} /\ hidden = {}
        /\ pc = "idle" /\ op = "none"
    BY DEF Init
  <2>5. QED
    BY <1>1, <2>1, <2>2, <2>3, <2>4 DEF TypeOK
<1>3. PhaseInv /\ LinkInv /\ RowInv /\ KeptEdgesInRange /\ UndoInv
  BY <1>1 DEF Init, PhaseInv, LinkInv, RowInv, KeptEdgesInRange, UndoInv, NoLinks
<1>4. JournalInv
  BY DEF Init, JournalInv
<1>5. QED
  BY <1>2, <1>3, <1>4 DEF IInv

LEMMA DeleteStep == ASSUME IInv, Delete PROVE IInv'
<1>1. TypeOK'
  BY DEF IInv, TypeOK, Delete, Rows, Row, callVars, chunkVars
<1>2. (PhaseInv /\ LinkInv /\ RowInv /\ JournalInv /\ UndoInv /\ KeptEdgesInRange)'
  BY DEF IInv, PhaseInv, LinkInv, RowInv, JournalInv, UndoInv, KeptEdgesInRange,
         Old, Rows, Row, Delete, callVars, chunkVars
<1>3. QED
  BY <1>1, <1>2 DEF IInv

LEMMA BeginExtendStep == ASSUME IInv, BeginExtend PROVE IInv'
<1> USE DEF BeginExtend, Enter, chunkVars
<1>1. TypeOK'
  <2>1. (f16 \in BOOLEAN /\ wantIds \in BOOLEAN)'
    BY DEF IInv, TypeOK
  <2>2. calls' \in 0 .. MaxCalls
    BY CagraGraphAssumption DEF IInv, TypeOK
  <2>3. (n \in 1 .. MaxRows /\ origN \in 1 .. n /\ todo \in 0 .. Batch
         /\ n + todo <= MaxRows)'
    <3>1. /\ n \in 1 .. MaxRows /\ n' = n /\ origN' = n
          /\ todo' \in 1 .. Batch /\ n + todo' <= MaxRows
      BY DEF IInv, TypeOK
    <3>2. n \in 1 .. n
      BY <3>1
    <3>3. n' \in 1 .. MaxRows
      BY <3>1
    <3>4. origN' \in 1 .. n'
      BY <3>1, <3>2
    <3>5. n' + todo' <= MaxRows
      BY <3>1
    <3>6. todo' \in 0 .. Batch
      BY <3>1, CagraGraphAssumption
    <3>7. QED
      BY <3>3, <3>4, <3>5, <3>6
  <2>4. QED
    BY <2>1, <2>2, <2>3 DEF IInv, TypeOK, Rows, Row
<1>2. PhaseInv'
  BY DEF IInv, TypeOK, PhaseInv, Old, Rows
<1>3. (LinkInv /\ RowInv /\ KeptEdgesInRange)'
  BY DEF IInv, PhaseInv, LinkInv, RowInv, KeptEdgesInRange, Rows, Row
<1>4. (JournalInv /\ UndoInv)'
  BY DEF IInv, PhaseInv, JournalInv, UndoInv, KeptEdgesInRange, Old, Rows, Row
<1>5. QED
  BY <1>1, <1>2, <1>3, <1>4 DEF IInv

LEMMA BeginUpdateStep == ASSUME IInv, BeginUpdate PROVE IInv'
<1> USE DEF BeginUpdate, Enter, chunkVars
<1>1. TypeOK'
  <2>1. (f16 \in BOOLEAN /\ wantIds \in BOOLEAN)'
    BY DEF IInv, TypeOK
  <2>2. calls' \in 0 .. MaxCalls
    BY CagraGraphAssumption DEF IInv, TypeOK
  <2>3. (n \in 1 .. MaxRows /\ origN \in 1 .. n /\ todo \in 0 .. Batch
         /\ n + todo <= MaxRows)'
    BY CagraGraphAssumption DEF IInv, TypeOK
  <2>4. QED
    BY <2>1, <2>2, <2>3 DEF IInv, TypeOK, Rows, Row
<1>2. PhaseInv'
  BY DEF IInv, TypeOK, PhaseInv, Old, Rows
<1>3. (LinkInv /\ RowInv /\ KeptEdgesInRange)'
  BY DEF IInv, PhaseInv, LinkInv, RowInv, KeptEdgesInRange, Rows, Row
<1>4. (JournalInv /\ UndoInv)'
  BY DEF IInv, PhaseInv, JournalInv, UndoInv
<1>5. QED
  BY <1>1, <1>2, <1>3, <1>4 DEF IInv

LEMMA TakeNewRowsStep == ASSUME IInv, TakeNewRows PROVE IInv'
<1> DEFINE cnt == AtMost(Chunk, todo)
<1>1. PICK R \in SUBSET dead :
        /\ Cardinality(R) = IF wantIds THEN AtMost(cnt, Cardinality(dead)) ELSE 0
        /\ n' = n + cnt - Cardinality(R)
        /\ slots' = R \cup (n .. n' - 1)
        /\ reused' = R
        /\ dead' = dead \ R
        /\ claimed' = claimed \cup R
        /\ todo' = todo - cnt
  BY DEF TakeNewRows
<1>2. /\ pc = "take" /\ op = "extend" /\ hidden' = slots' /\ pc' = "repair"
      /\ UNCHANGED <<graph, callVars, rowsLeft, links, half, journal, calls, suspect>>
  BY DEF TakeNewRows
<1> DEFINE k == Cardinality(R)
<1>3. cnt \in 1 .. todo /\ todo \in Nat
  BY CagraGraphAssumption DEF AtMost, IInv, TypeOK, TakeNewRows
<1>4. k \in Nat /\ k <= cnt
  <2>1. R \subseteq Rows /\ dead \subseteq Rows
    BY DEF IInv, TypeOK
  <2>2. k \in Nat /\ Cardinality(dead) \in Nat
    BY <2>1, RowSets DEF IInv
  <2>3. QED
    BY <1>1, <1>3, <2>2 DEF AtMost
<1> HIDE DEF cnt, k
<1>5. n' = n + cnt - k /\ n' >= n /\ n' \in Nat /\ n' + todo' <= MaxRows /\ n' <= MaxRows
      /\ todo' \in 0 .. Batch
  BY <1>1, <1>3, <1>4, CagraGraphAssumption DEF IInv, TypeOK, k, cnt
<1>6. TypeOK'
  <2>1. (f16 \in BOOLEAN /\ wantIds \in BOOLEAN)'
    BY <1>2 DEF IInv, TypeOK, callVars
  <2>2. (n \in 1 .. MaxRows /\ origN \in 1 .. n)'
    BY <1>2, <1>5, Sizes DEF IInv, callVars
  <2>3. Rows \subseteq Rows' /\ n .. n' - 1 \subseteq Rows'
    BY <1>5, Sizes DEF IInv, Rows
  <2>4. QED
    BY <1>1, <1>2, <1>5, <2>1, <2>2, <2>3 DEF IInv, TypeOK, callVars, Row
<1>7. PhaseInv'
  <2>1. (n .. n' - 1) \cap Old = {}
    BY <1>5, Sizes DEF IInv, Old
  <2>2. dead \subseteq Old /\ claimed \subseteq Old /\ rowsLeft = {} /\ Old' = Old
    BY <1>2 DEF IInv, PhaseInv, callVars, Old
  <2>3. QED
    BY <1>1, <1>2, <2>1, <2>2 DEF PhaseInv, callVars
<1>8. Rows \subseteq Rows' /\ Rows' \subseteq Row /\ slots' \ hidden' = {}
  BY <1>2, <1>5, Sizes DEF IInv, Rows, Row
<1>9. (LinkInv /\ RowInv /\ KeptEdgesInRange)'
  <2>1. LinkInv'
    BY <1>2, <1>8 DEF IInv, LinkInv
  <2>2. RowInv'
    BY <1>2, <1>8 DEF IInv, RowInv
  <2>3. ASSUME NEW r \in Rows' \ suspect PROVE graph[r] \subseteq Rows'
    BY <1>2, <1>8, <2>3 DEF IInv, RowInv, KeptEdgesInRange
  <2>4. QED
    BY <1>2, <2>1, <2>2, <2>3 DEF KeptEdgesInRange
<1>10. (JournalInv /\ UndoInv)'
  BY <1>1, <1>2 DEF IInv, JournalInv, UndoInv, Old, callVars
<1>11. QED
  BY <1>6, <1>7, <1>9, <1>10 DEF IInv

LEMMA TakeOldRowsStep == ASSUME IInv, TakeOldRows PROVE IInv'
<1> USE DEF TakeOldRows, callVars
<1>1. TypeOK'
  <2>1. (f16 \in BOOLEAN /\ wantIds \in BOOLEAN)'
    BY DEF IInv, TypeOK
  <2>2. QED
    BY <2>1 DEF IInv, TypeOK, Rows, Row
<1>2. (PhaseInv /\ LinkInv /\ RowInv /\ KeptEdgesInRange)'
  BY DEF IInv, PhaseInv, LinkInv, RowInv, KeptEdgesInRange, Rows, Row
<1>3. (JournalInv /\ UndoInv)'
  BY DEF IInv, PhaseInv, JournalInv, UndoInv
<1>4. QED
  BY <1>1, <1>2, <1>3 DEF IInv

LEMMA PublishRowStep == ASSUME IInv, PublishRow PROVE IInv'
<1>1. PICK r \in hidden, f \in Found :
        /\ graph' = [graph EXCEPT ![r] = f \ {r}]
        /\ hidden' = hidden \ {r}
        /\ suspect' = suspect \ {r}
  BY DEF PublishRow
<1>2. /\ pc = "repair"
      /\ UNCHANGED <<n, dead, pc, callVars, todo, rowsLeft, chunkVars, links, half,
                     journal, calls, claimed>>
  BY DEF PublishRow
<1>3. r \in Rows /\ r \in slots /\ f \subseteq Rows /\ Rows' = Rows
  BY <1>1, <1>2 DEF IInv, TypeOK, Found, Rows
<1>4. graph' \in [Row -> SUBSET Nat]
  BY <1>1, <1>3, Sizes DEF IInv, TypeOK
<1>5. TypeOK'
  <2>1. (f16 \in BOOLEAN /\ wantIds \in BOOLEAN)'
    BY <1>2 DEF IInv, TypeOK, callVars
  <2>2. QED
    BY <1>1, <1>2, <1>4, <2>1 DEF IInv, TypeOK, callVars, chunkVars, Rows
<1>6. /\ graph'[r] = f \ {r}
      /\ \A s \in Row \ {r} : graph'[s] = graph[s]
  BY <1>1, <1>3, Sizes DEF IInv, TypeOK
<1>7. PhaseInv'
  BY <1>1, <1>2 DEF IInv, PhaseInv, callVars, chunkVars, Old
<1>8. LinkInv'
  BY <1>1, <1>2, <1>3 DEF IInv, LinkInv, chunkVars
<1>9. RowInv'
  BY <1>2, <1>3, <1>6 DEF IInv, RowInv
<1>10. KeptEdgesInRange'
  BY <1>1, <1>2, <1>3, <1>6, Sizes DEF IInv, KeptEdgesInRange
<1>11. JournalInv'
  BY <1>2 DEF IInv, JournalInv, callVars
<1>12. UndoInv'
  <2>1. op = "extend" => r \notin Old \ claimed
    BY <1>3 DEF IInv, PhaseInv
  <2>2. Old \subseteq Row /\ Old' = Old
    BY <1>2, Sizes DEF IInv, callVars, Old
  <2>3. QED
    BY <1>1, <1>2, <1>6, <2>1, <2>2 DEF IInv, UndoInv, callVars
<1>13. QED
  BY <1>5, <1>7, <1>8, <1>9, <1>10, <1>11, <1>12 DEF IInv

LEMMA GroupLinksStep == ASSUME IInv, GroupLinks PROVE IInv'
<1> DEFINE targets == UNION {graph[r] : r \in slots}
           entry == [u \in targets |-> graph[u]]
<1>1. /\ pc = "repair" /\ hidden = {} /\ pc' = "prune"
      /\ links' = [u \in targets |-> {r \in slots : u \in graph[r]}]
      /\ journal' = IF op = "extend" THEN Append(journal, entry) ELSE journal
      /\ UNCHANGED <<n, graph, dead, callVars, todo, rowsLeft, chunkVars, hidden,
                     half, calls, claimed, suspect>>
  BY DEF GroupLinks
<1>2. slots \cap suspect = {} /\ slots \subseteq Rows /\ DOMAIN half = {}
  BY <1>1 DEF IInv, LinkInv, TypeOK
<1>3. targets \subseteq Rows
  BY <1>1, <1>2 DEF IInv, KeptEdgesInRange
<1>4. Rows' = Rows /\ Rows \subseteq Row /\ Rows \subseteq Nat
  BY <1>1, Sizes DEF IInv, Rows
<1>5. entry \in Edges /\ \A u \in DOMAIN entry : u \notin entry[u]
  <2>1. entry \in [targets -> SUBSET Nat]
    BY <1>3, <1>4 DEF IInv, TypeOK
  <2>2. targets \in SUBSET Nat
    BY <1>3, <1>4
  <2>3. \A u \in targets : u \notin graph[u]
    BY <1>2, <1>3, <1>4 DEF IInv, RowInv
  <2>4. QED
    BY <2>1, <2>2, <2>3 DEF Edges
<1> HIDE DEF entry
<1>6. TypeOK'
  <2>1. (f16 \in BOOLEAN /\ wantIds \in BOOLEAN)'
    BY <1>1 DEF IInv, TypeOK, callVars
  <2>2. QED
    BY <1>1, <1>2, <1>4, <2>1 DEF IInv, TypeOK, callVars, chunkVars
<1>7. (PhaseInv /\ RowInv /\ KeptEdgesInRange)'
  BY <1>1, <1>4 DEF IInv, PhaseInv, RowInv, KeptEdgesInRange, callVars, chunkVars, Old
<1>8. LinkInv'
  <2>1. \A r \in slots : r \notin graph[r]
    BY <1>2, <1>4 DEF IInv, RowInv
  <2>2. \A u \in targets : links'[u] \subseteq Rows \ {u}
    BY <1>1, <1>2, <2>1
  <2>3. QED
    BY <1>1, <1>2, <1>3, <1>4, <2>2 DEF LinkInv
<1>9. CASE op = "extend"
  <2>1. journal \in Seq(Edges) /\ journal' = Append(journal, entry)
    BY <1>1, <1>9 DEF IInv, JournalInv
  <2>2. /\ journal' \in Seq(Edges) /\ Len(journal') = Len(journal) + 1
        /\ Len(journal) \in Nat /\ DOMAIN journal = 1 .. Len(journal)
        /\ DOMAIN journal' = 1 .. Len(journal) + 1
        /\ journal'[Len(journal) + 1] = entry
        /\ \A k \in DOMAIN journal : journal'[k] = journal[k]
    BY <1>5, <2>1
  <2>3. DOMAIN entry = targets /\ DOMAIN links' = targets
    BY <1>1 DEF entry
  <2>4. JournalInv'
    <3>1. \A k \in DOMAIN journal' :
            \A u \in DOMAIN journal'[k] : u \notin journal'[k][u]
      <4>1. TAKE k \in DOMAIN journal'
      <4>2. CASE k = Len(journal) + 1
        BY <1>5, <2>2, <4>2
      <4>3. CASE k \in DOMAIN journal
        BY <2>2, <4>3 DEF IInv, JournalInv
      <4>4. QED
        BY <2>2, <4>1, <4>2, <4>3
    <3>2. journal' # <<>> /\ DOMAIN links' \cup DOMAIN half' \subseteq DOMAIN journal'[Len(journal')]
      BY <1>1, <1>2, <2>2, <2>3
    <3>3. QED
      BY <2>2, <3>1, <3>2 DEF JournalInv
  <2>5. UndoInv'
    <3> SUFFICES ASSUME NEW r \in Old \ claimed
                 PROVE  /\ r \notin suspect => before[r] \subseteq Old
                        /\ (\A k \in DOMAIN journal' : r \notin DOMAIN journal'[k])
                           => graph[r] = before[r]
                        /\ \A k \in DOMAIN journal' :
                             (/\ r \in DOMAIN journal'[k]
                              /\ \A l \in 1 .. k - 1 : r \notin DOMAIN journal'[l])
                             => journal'[k][r] = before[r]
      BY ZenonT(40), <1>1 DEF UndoInv, Old, callVars
    <3>1. r \notin suspect => before[r] \subseteq Old
      BY <1>9 DEF IInv, UndoInv
    <3>2. (\A k \in DOMAIN journal : r \notin DOMAIN journal[k]) => graph[r] = before[r]
      BY <1>9 DEF IInv, UndoInv
    <3>3. (\A k \in DOMAIN journal' : r \notin DOMAIN journal'[k]) => graph[r] = before[r]
      BY <2>2, <3>2
    <3>4. ASSUME NEW k \in DOMAIN journal', r \in DOMAIN journal'[k],
                 \A l \in 1 .. k - 1 : r \notin DOMAIN journal'[l]
          PROVE  journal'[k][r] = before[r]
      <4>1. CASE k = Len(journal) + 1
        <5>1. \A l \in DOMAIN journal : r \notin DOMAIN journal[l]
          BY <2>2, <3>4, <4>1
        <5>2. entry[r] = graph[r]
          BY <2>2, <2>3, <3>4, <4>1 DEF entry
        <5>3. QED
          BY <2>2, <3>2, <4>1, <5>1, <5>2
      <4>2. CASE k \in DOMAIN journal
        <5>1. \A l \in 1 .. k - 1 : l \in DOMAIN journal
          BY <2>2, <4>2
        <5>2. QED
          BY <1>9, <2>2, <3>4, <4>2, <5>1 DEF IInv, UndoInv
      <4>3. QED
        BY <2>2, <4>1, <4>2
    <3>5. QED
      BY <3>1, <3>3, <3>4
  <2>6. QED
    BY <1>6, <1>7, <1>8, <2>4, <2>5 DEF IInv
<1>10. CASE op # "extend"
  <2>1. (JournalInv /\ UndoInv)'
    BY <1>1, <1>10 DEF IInv, JournalInv, UndoInv, callVars
  <2>2. QED
    BY <1>6, <1>7, <1>8, <2>1 DEF IInv
<1>11. QED
  BY <1>9, <1>10

\* A prune overwrites the edges of a row that the journal holds.
LEMMA PruneIsJournalled ==
  ASSUME IInv, pc = "prune", NEW u \in DOMAIN links \cup DOMAIN half, NEW E,
         graph' = [graph EXCEPT ![u] = E],
         DOMAIN links' \cup DOMAIN half' \subseteq DOMAIN links \cup DOMAIN half,
         UNCHANGED <<pc, callVars, journal, claimed, suspect>>
  PROVE  JournalInv' /\ UndoInv'
<1>1. JournalInv'
  BY DEF IInv, JournalInv, callVars
<1>2. CASE op = "extend"
  <2>1. journal # <<>> /\ u \in DOMAIN journal[Len(journal)]
    BY <1>2 DEF IInv, JournalInv
  <2>2. Len(journal) \in DOMAIN journal
    BY <2>1 DEF IInv, JournalInv
  <2>3. Old \subseteq Row /\ graph \in [Row -> SUBSET Nat]
    BY Sizes DEF IInv, TypeOK
  <2>4. ASSUME NEW r \in Old \ claimed,
               \A k \in DOMAIN journal : r \notin DOMAIN journal[k]
        PROVE  graph'[r] = graph[r]
    BY <2>1, <2>2, <2>3, <2>4
  <2>5. UndoInv'
    BY <1>2, <2>4 DEF IInv, UndoInv, Old, callVars
  <2>6. QED
    BY <1>1, <2>5
<1>3. CASE op # "extend"
  BY <1>1, <1>3 DEF UndoInv, callVars
<1>4. QED
  BY <1>2, <1>3

LEMMA PruneStep == ASSUME IInv, Prune PROVE IInv'
<1>0. PICK u \in DOMAIN links : \E K \in Kept(u) :
        /\ graph' = [graph EXCEPT ![u] = K]
        /\ links' = Without(links, u)
  BY DEF Prune
<1>1. PICK K \in Kept(u) :
        /\ graph' = [graph EXCEPT ![u] = K]
        /\ links' = Without(links, u)
  BY <1>0
<1>2. /\ pc = "prune"
      /\ UNCHANGED <<n, dead, pc, callVars, todo, rowsLeft, chunkVars, hidden, half,
                     journal, calls, claimed, suspect>>
  BY DEF Prune
<1>3. /\ u \in Rows /\ Rows' = Rows /\ Rows \subseteq Row /\ Rows \subseteq Nat
      /\ graph \in [Row -> SUBSET Nat]
  BY <1>1, <1>2, Sizes DEF IInv, LinkInv, TypeOK, Rows
<1>4. /\ K \subseteq Nat \ {u}
      /\ u \notin suspect => K \subseteq Rows
  <2>1. links[u] \subseteq Rows
    BY <1>1 DEF IInv, LinkInv
  <2>2. graph[u] \subseteq Nat /\ (u \notin suspect => graph[u] \subseteq Rows)
    BY <1>2, <1>3 DEF IInv, KeptEdgesInRange
  <2>3. QED
    BY <1>3, <2>1, <2>2 DEF Kept, Candidates
<1>5. /\ graph' \in [Row -> SUBSET Nat] /\ graph'[u] = K
      /\ \A r \in Row \ {u} : graph'[r] = graph[r]
  BY <1>1, <1>3, <1>4
<1>6. /\ DOMAIN links' = DOMAIN links \ {u}
      /\ \A x \in DOMAIN links' : links'[x] = links[x]
  BY <1>1 DEF Without
<1>7. TypeOK'
  <2>1. (f16 \in BOOLEAN /\ wantIds \in BOOLEAN)'
    BY <1>2 DEF IInv, TypeOK, callVars
  <2>2. QED
    BY <1>2, <1>3, <1>5, <1>6, <2>1 DEF IInv, TypeOK, callVars, chunkVars
<1>8. PhaseInv'
  BY <1>2 DEF IInv, PhaseInv, callVars, chunkVars, Old
<1>9. LinkInv'
  BY <1>2, <1>3, <1>6 DEF IInv, LinkInv, chunkVars
<1>10. (RowInv /\ KeptEdgesInRange)'
  BY <1>2, <1>3, <1>4, <1>5 DEF IInv, RowInv, KeptEdgesInRange
<1>11. JournalInv' /\ UndoInv'
  BY <1>1, <1>2, <1>6, PruneIsJournalled
<1>12. QED
  BY <1>7, <1>8, <1>9, <1>10, <1>11 DEF IInv

LEMMA PruneLocallyStep == ASSUME IInv, PruneLocally PROVE IInv'
<1>0. PICK u \in DOMAIN links : \E K \in Kept(u) :
        /\ graph' = [graph EXCEPT ![u] = {Local(u, v) : v \in K}]
        /\ half' = With(half, u, K)
        /\ links' = Without(links, u)
  BY DEF PruneLocally
<1>1. PICK K \in Kept(u) :
        /\ graph' = [graph EXCEPT ![u] = {Local(u, v) : v \in K}]
        /\ half' = With(half, u, K)
        /\ links' = Without(links, u)
  BY <1>0
<1>2. /\ pc = "prune"
      /\ UNCHANGED <<n, dead, pc, callVars, todo, rowsLeft, chunkVars, hidden,
                     journal, calls, claimed, suspect>>
  BY DEF PruneLocally
<1>3. /\ u \in Rows /\ Rows' = Rows /\ Rows \subseteq Row /\ Rows \subseteq Nat
      /\ graph \in [Row -> SUBSET Nat] /\ u \notin DOMAIN half
  BY <1>1, <1>2, Sizes DEF IInv, LinkInv, TypeOK, Rows
<1> DEFINE L == {Local(u, v) : v \in K}
<1>4. /\ K \subseteq Nat \ {u} /\ L \subseteq Nat
      /\ u \notin suspect => K \subseteq Rows /\ L \subseteq Rows
  <2>1. links[u] \subseteq Rows \ {u} /\ u \notin graph[u]
    BY <1>1, <1>3 DEF IInv, LinkInv, RowInv
  <2>2. graph[u] \subseteq Nat /\ (u \notin suspect => graph[u] \subseteq Rows)
    BY <1>2, <1>3 DEF IInv, KeptEdgesInRange
  <2>3. /\ Candidates(u) \subseteq Nat
        /\ u \notin suspect => Candidates(u) \subseteq Rows \ {u}
    BY <1>3, <2>1, <2>2 DEF Candidates
  <2>4. K \subseteq Candidates(u) \ {u}
    BY DEF Kept
  <2>5. L \subseteq Nat
    BY <2>3, <2>4, LocalIsNat
  <2>6. u \notin suspect => L \subseteq Rows
    BY <1>3, <2>3, <2>4, LocalInRows DEF IInv
  <2>7. QED
    BY <1>3, <2>3, <2>4, <2>5, <2>6
<1> HIDE DEF L
<1>5. /\ graph' \in [Row -> SUBSET Nat] /\ graph'[u] = L
      /\ \A r \in Row \ {u} : graph'[r] = graph[r]
  BY <1>1, <1>3, <1>4 DEF L
<1>6. /\ DOMAIN links' = DOMAIN links \ {u}
      /\ \A x \in DOMAIN links' : links'[x] = links[x]
      /\ DOMAIN half' = DOMAIN half \cup {u} /\ half'[u] = K
      /\ \A x \in DOMAIN half \ {u} : half'[x] = half[x]
  BY <1>1 DEF Without, With
<1>7. TypeOK'
  <2>1. (f16 \in BOOLEAN /\ wantIds \in BOOLEAN)'
    BY <1>2 DEF IInv, TypeOK, callVars
  <2>2. QED
    BY <1>2, <1>3, <1>5, <1>6, <2>1 DEF IInv, TypeOK, callVars, chunkVars
<1>8. PhaseInv'
  BY <1>2 DEF IInv, PhaseInv, callVars, chunkVars, Old
<1>9. LinkInv'
  BY <1>1, <1>2, <1>3, <1>4, <1>6 DEF IInv, LinkInv, chunkVars
<1>10. (RowInv /\ KeptEdgesInRange)'
  BY <1>2, <1>3, <1>4, <1>5, <1>6 DEF IInv, RowInv, KeptEdgesInRange
<1>11. JournalInv' /\ UndoInv'
  BY <1>1, <1>2, <1>6, PruneIsJournalled
<1>12. QED
  BY <1>7, <1>8, <1>9, <1>10, <1>11 DEF IInv

LEMMA MapBackStep == ASSUME IInv, MapBack PROVE IInv'
<1>1. PICK u \in DOMAIN half :
        /\ graph' = [graph EXCEPT ![u] = half[u]]
        /\ half' = Without(half, u)
  BY DEF MapBack
<1>2. /\ pc = "prune"
      /\ UNCHANGED <<n, dead, pc, callVars, todo, rowsLeft, chunkVars, hidden, links,
                     journal, calls, claimed, suspect>>
  BY DEF MapBack
<1>3. /\ u \in Rows /\ Rows' = Rows /\ Rows \subseteq Row
      /\ graph \in [Row -> SUBSET Nat]
      /\ half[u] \subseteq Nat \ {u}
      /\ u \notin suspect => half[u] \subseteq Rows
  BY <1>1, <1>2, Sizes DEF IInv, LinkInv, TypeOK, Rows
<1>4. /\ graph' \in [Row -> SUBSET Nat] /\ graph'[u] = half[u]
      /\ \A r \in Row \ {u} : graph'[r] = graph[r]
  BY <1>1, <1>3
<1>5. /\ DOMAIN half' = DOMAIN half \ {u}
      /\ \A x \in DOMAIN half' : half'[x] = half[x]
  BY <1>1 DEF Without
<1>6. TypeOK'
  <2>1. (f16 \in BOOLEAN /\ wantIds \in BOOLEAN)'
    BY <1>2 DEF IInv, TypeOK, callVars
  <2>2. QED
    BY <1>2, <1>3, <1>4, <1>5, <2>1 DEF IInv, TypeOK, callVars, chunkVars
<1>7. PhaseInv'
  BY <1>2 DEF IInv, PhaseInv, callVars, chunkVars, Old
<1>8. LinkInv'
  BY <1>2, <1>3, <1>5 DEF IInv, LinkInv, chunkVars
<1>9. (RowInv /\ KeptEdgesInRange)'
  BY <1>2, <1>3, <1>4, <1>5 DEF IInv, RowInv, KeptEdgesInRange
<1>10. JournalInv' /\ UndoInv'
  BY <1>1, <1>2, <1>5, PruneIsJournalled
<1>11. QED
  BY <1>6, <1>7, <1>8, <1>9, <1>10 DEF IInv

\* A call that ends with no row half pruned leaves a sound graph, however it ends.
LEMMA ReturnStep ==
  ASSUME IInv, pc # "unwind", Return, DOMAIN half = {},
         dead' \subseteq dead, todo' = 0, rowsLeft' = {}, hidden' = {},
         DOMAIN links' = {}, DOMAIN half' = {},
         UNCHANGED <<n, graph, calls, suspect>>
  PROVE  IInv'
<1>1. Rows' = Rows
  BY DEF Rows
<1>2. TypeOK'
  <2>1. (f16 \in BOOLEAN /\ wantIds \in BOOLEAN)'
    BY DEF IInv, TypeOK, Return
  <2>2. n' \in 1 .. MaxRows /\ todo' \in 0 .. Batch /\ n' + todo' <= MaxRows
    BY CagraGraphAssumption DEF IInv, TypeOK
  <2>3. origN' \in 1 .. n'
    BY Sizes DEF IInv, Return
  <2>4. QED
    BY <1>1, <2>1, <2>2, <2>3 DEF IInv, TypeOK, Return
<1>3. (PhaseInv /\ LinkInv /\ UndoInv)'
  BY DEF PhaseInv, LinkInv, UndoInv, Return
<1>4. JournalInv'
  BY DEF JournalInv, Return
<1>5. (RowInv /\ KeptEdgesInRange)'
  BY <1>1 DEF IInv, RowInv, KeptEdgesInRange
<1>6. QED
  BY <1>2, <1>3, <1>4, <1>5 DEF IInv

LEMMA NextChunkStep == ASSUME IInv, NextChunk PROVE IInv'
<1> USE DEF NextChunk, Pruned, callVars, chunkVars
<1>1. TypeOK'
  <2>1. (f16 \in BOOLEAN /\ wantIds \in BOOLEAN)'
    BY DEF IInv, TypeOK
  <2>2. QED
    BY <2>1 DEF IInv, TypeOK, Rows
<1>2. (PhaseInv /\ LinkInv /\ RowInv /\ KeptEdgesInRange)'
  BY DEF IInv, PhaseInv, LinkInv, RowInv, KeptEdgesInRange, Rows, Old
<1>3. (JournalInv /\ UndoInv)'
  BY DEF IInv, JournalInv, UndoInv, Old
<1>4. QED
  BY <1>1, <1>2, <1>3 DEF IInv

LEMMA EndCallStep == ASSUME IInv, EndCall PROVE IInv'
<1>1. /\ pc = "prune" /\ dead' \subseteq dead /\ Return
      /\ UNCHANGED <<n, graph, calls, suspect>>
      /\ DOMAIN half = {} /\ DOMAIN half' = {} /\ DOMAIN links' = {}
      /\ todo' = 0 /\ rowsLeft' = {} /\ hidden' = hidden
  BY DEF EndCall, Pruned
<1>2. hidden' = {}
  BY <1>1 DEF IInv, PhaseInv
<1>3. QED
  BY <1>1, <1>2, ReturnStep

\* What a failing repair leaves behind.
LEMMA Abandoned ==
  ASSUME Abandon
  PROVE  /\ DOMAIN half = {} /\ DOMAIN half' = {} /\ DOMAIN links' = {}
         /\ todo' = 0 /\ rowsLeft' = {} /\ hidden' = {} /\ dead' = dead
         /\ UNCHANGED <<n, graph, calls, suspect>>
BY DEF Abandon, NoLinks

LEMMA InsertFailsStep == ASSUME IInv, InsertFails PROVE IInv'
<1>1. /\ op = "extend" /\ pc \in {"repair", "prune"} /\ pc' = "giveback"
      /\ UNCHANGED <<callVars, chunkVars, journal, claimed>>
      /\ Abandon
  BY DEF InsertFails, RepairFails
<1>2. /\ DOMAIN half = {} /\ DOMAIN half' = {} /\ DOMAIN links' = {}
      /\ todo' = 0 /\ rowsLeft' = {} /\ hidden' = {} /\ dead' = dead
      /\ UNCHANGED <<n, graph, calls, suspect>>
  BY <1>1, Abandoned
<1>3. Rows' = Rows
  BY <1>2 DEF Rows
<1>4. TypeOK'
  <2>1. (f16 \in BOOLEAN /\ wantIds \in BOOLEAN)'
    BY <1>1 DEF IInv, TypeOK, callVars
  <2>2. todo' \in 0 .. Batch /\ n' + todo' <= MaxRows
    BY <1>2, CagraGraphAssumption DEF IInv, TypeOK
  <2>3. QED
    BY <1>1, <1>2, <1>3, <2>1, <2>2 DEF IInv, TypeOK, callVars, chunkVars
<1>5. (PhaseInv /\ LinkInv /\ RowInv /\ KeptEdgesInRange)'
  BY <1>1, <1>2, <1>3 DEF IInv, PhaseInv, LinkInv, RowInv, KeptEdgesInRange,
     callVars, chunkVars, Old
<1>6. (JournalInv /\ UndoInv)'
  BY <1>1, <1>2 DEF IInv, JournalInv, UndoInv, callVars, Old
<1>7. QED
  BY <1>4, <1>5, <1>6 DEF IInv

LEMMA UpdateFailsStep == ASSUME IInv, UpdateFails PROVE IInv'
<1>1. pc # "unwind" /\ Return /\ Abandon
  BY DEF UpdateFails, RepairFails
<1>2. QED
  BY <1>1, Abandoned, ReturnStep

LEMMA RepairThrowsStep == ASSUME IInv, RepairThrows PROVE IInv'
<1>1. pc # "unwind" /\ Return /\ Abandon
  BY DEF RepairThrows
<1>2. QED
  BY <1>1, Abandoned, ReturnStep

LEMMA GiveBackStep == ASSUME IInv, GiveBack PROVE IInv'
<1> USE DEF GiveBack, callVars, chunkVars
<1>1. TypeOK'
  <2>1. (f16 \in BOOLEAN /\ wantIds \in BOOLEAN)'
    BY DEF IInv, TypeOK
  <2>2. QED
    BY <2>1 DEF IInv, TypeOK, Rows
<1>2. (PhaseInv /\ LinkInv /\ RowInv /\ KeptEdgesInRange)'
  BY DEF IInv, PhaseInv, LinkInv, RowInv, KeptEdgesInRange, Rows, Old
<1>3. (JournalInv /\ UndoInv)'
  BY DEF IInv, JournalInv, UndoInv, Old
<1>4. QED
  BY <1>1, <1>2, <1>3 DEF IInv

LEMMA UnwindStep == ASSUME IInv, Unwind PROVE IInv'
<1> DEFINE newest == journal[Len(journal)]
<1>1. /\ pc = "unwind" /\ journal # <<>>
      /\ graph' = [r \in Row |-> IF r < origN /\ r \in DOMAIN newest
                                   THEN newest[r] ELSE graph[r]]
      /\ journal' = SubSeq(journal, 1, Len(journal) - 1)
      /\ UNCHANGED <<n, dead, pc, callVars, todo, rowsLeft, chunkVars, hidden, links,
                     half, calls, claimed, suspect>>
  BY DEF Unwind, Restore
<1>2. /\ op = "extend" /\ DOMAIN half = {} /\ Rows' = Rows /\ Old' = Old
      /\ Old \subseteq Rows /\ Rows \subseteq Row /\ Row \subseteq Nat /\ origN \in Nat
  BY <1>1, Sizes DEF IInv, PhaseInv, LinkInv, Rows, Old, callVars
<1>3. /\ journal \in Seq(Edges) /\ Len(journal) \in DOMAIN journal
      /\ newest \in Edges
  BY <1>1 DEF IInv, JournalInv
<1>4. \A r \in DOMAIN newest : newest[r] \subseteq Nat /\ r \notin newest[r]
  <2>1. \A r \in DOMAIN newest : newest[r] \subseteq Nat
    BY <1>3 DEF Edges
  <2>2. QED
    BY <1>3, <2>1 DEF IInv, JournalInv
<1>5. /\ journal' \in Seq(Edges) /\ DOMAIN journal' = DOMAIN journal \ {Len(journal)}
      /\ \A k \in DOMAIN journal' : journal'[k] = journal[k]
      /\ \A k \in DOMAIN journal' : 1 .. k - 1 \subseteq DOMAIN journal'
      /\ 1 .. Len(journal) - 1 = DOMAIN journal'
  BY <1>1, <1>3
<1>6. /\ graph' \in [Row -> SUBSET Nat]
      /\ \A r \in Row : graph'[r] = IF r < origN /\ r \in DOMAIN newest
                                       THEN newest[r] ELSE graph[r]
  BY <1>1, <1>4 DEF IInv, TypeOK
<1>7. TypeOK'
  <2>1. (f16 \in BOOLEAN /\ wantIds \in BOOLEAN)'
    BY <1>1 DEF IInv, TypeOK, callVars
  <2>2. QED
    BY <1>1, <1>2, <1>6, <2>1 DEF IInv, TypeOK, callVars, chunkVars
<1>8. (PhaseInv /\ LinkInv /\ KeptEdgesInRange)'
  BY <1>1, <1>2 DEF IInv, PhaseInv, LinkInv, KeptEdgesInRange, callVars, chunkVars
<1>9. RowInv'
  <2>1. \A r \in Row : r \notin graph[r]
    BY <1>2 DEF IInv, RowInv
  <2>2. \A r \in Row : r \notin graph'[r]
    BY <1>4, <1>6, <2>1
  <2>3. \A r \in Row \ Rows : graph'[r] = graph[r]
    BY <1>2, <1>6 DEF Old
  <2>4. QED
    BY <1>2, <2>2, <2>3 DEF IInv, RowInv
<1>10. JournalInv'
  BY <1>1, <1>5 DEF IInv, JournalInv
<1>11. UndoInv'
  <2>0. op' = op /\ claimed' = claimed /\ suspect' = suspect /\ before' = before /\ Old' = Old
    BY <1>1, <1>2 DEF callVars
  <2> SUFFICES ASSUME NEW r \in Old \ claimed
               PROVE  /\ r \notin suspect => before[r] \subseteq Old
                      /\ (\A k \in DOMAIN journal' : r \notin DOMAIN journal'[k])
                         => graph'[r] = before[r]
                      /\ \A k \in DOMAIN journal' :
                           (/\ r \in DOMAIN journal'[k]
                            /\ \A l \in 1 .. k - 1 : r \notin DOMAIN journal'[l])
                           => journal'[k][r] = before[r]
    BY <2>0, Zenon DEF UndoInv
  <2>1. /\ r \notin suspect => before[r] \subseteq Old
        /\ (\A k \in DOMAIN journal : r \notin DOMAIN journal[k]) => graph[r] = before[r]
        /\ \A k \in DOMAIN journal :
             (/\ r \in DOMAIN journal[k]
              /\ \A l \in 1 .. k - 1 : r \notin DOMAIN journal[l])
             => journal[k][r] = before[r]
    BY <1>2 DEF IInv, UndoInv
  <2>2. ASSUME \A k \in DOMAIN journal' : r \notin DOMAIN journal'[k]
        PROVE  graph'[r] = before[r]
    <3>1. \A k \in 1 .. Len(journal) - 1 : r \notin DOMAIN journal[k]
      BY <1>5, <2>2
    <3>2. CASE r \in DOMAIN newest
      BY <1>2, <1>3, <1>6, <2>1, <3>1, <3>2 DEF Old
    <3>3. CASE r \notin DOMAIN newest
      <4>1. graph'[r] = graph[r]
        BY <1>2, <1>6, <3>3 DEF Old
      <4>2. \A k \in DOMAIN journal : r \notin DOMAIN journal[k]
        BY <1>5, <2>2, <3>3
      <4>3. QED
        BY <2>1, <4>1, <4>2
    <3>4. QED
      BY <3>2, <3>3
  <2>3. ASSUME NEW k \in DOMAIN journal', r \in DOMAIN journal'[k],
               \A l \in 1 .. k - 1 : r \notin DOMAIN journal'[l]
        PROVE  journal'[k][r] = before[r]
    BY <1>5, <2>1, <2>3
  <2>4. QED
    BY <2>1, <2>2, <2>3
<1>12. QED
  BY <1>7, <1>8, <1>9, <1>10, <1>11 DEF IInv

LEMMA TruncateStep ==
  ASSUME IInv, Truncate
  PROVE  IInv' /\ \A r \in 0 .. origN - 1 \ claimed : graph'[r] = before[r]
<1>1. /\ pc = "unwind" /\ journal = <<>> /\ n' = origN
      /\ graph' = [r \in Row |-> IF r < origN THEN graph[r] ELSE {}]
      /\ suspect' = suspect \cup claimed
      /\ Return
      /\ UNCHANGED <<dead, todo, rowsLeft, hidden, links, half, calls>>
  BY DEF Truncate
<1>2. /\ op = "extend" /\ DOMAIN half = {} /\ DOMAIN links = {} /\ hidden = {}
      /\ dead \subseteq Old /\ rowsLeft = {} /\ Rows' = Old
      /\ Old \subseteq Rows /\ Rows \subseteq Row /\ Row \subseteq Nat /\ origN \in Nat
  BY <1>1, Sizes DEF IInv, PhaseInv, LinkInv, Rows, Old
<1>3. /\ graph' \in [Row -> SUBSET Nat]
      /\ \A r \in Old : graph'[r] = graph[r]
      /\ \A r \in Row \ Old : graph'[r] = {}
  BY <1>1, <1>2 DEF IInv, TypeOK, Old, Row
<1>4. \A r \in Old \ claimed :
        /\ graph[r] = before[r]
        /\ r \notin suspect => before[r] \subseteq Old
  BY <1>1, <1>2 DEF IInv, UndoInv
<1>5. TypeOK'
  <2>1. (f16 \in BOOLEAN /\ wantIds \in BOOLEAN)'
    BY <1>1 DEF IInv, TypeOK, Return
  <2>2. todo' \in 0 .. Batch /\ n' + todo' <= MaxRows /\ n' \in 1 .. MaxRows /\ n' \in 1 .. n'
    BY <1>1, Sizes, CagraGraphAssumption DEF IInv, TypeOK
  <2>3. QED
    BY <1>1, <1>2, <1>3, <2>1, <2>2 DEF IInv, TypeOK, Return
<1>6. todo = 0
  BY <1>1 DEF IInv, PhaseInv
<1>7. (PhaseInv /\ LinkInv /\ UndoInv)'
  BY <1>1, <1>2, <1>6 DEF PhaseInv, LinkInv, UndoInv, Return
<1>8. JournalInv'
  BY <1>1 DEF JournalInv, Return
<1>9. RowInv'
  BY <1>1, <1>2, <1>3 DEF IInv, RowInv
<1>10. KeptEdgesInRange'
  <2>1. ASSUME NEW r \in Rows' \ suspect' PROVE graph'[r] \subseteq Rows'
    <3>1. r \in Old \ claimed /\ r \notin suspect
      BY <1>1, <1>2, <2>1
    <3>2. graph'[r] = before[r] /\ before[r] \subseteq Old
      BY <1>3, <1>4, <3>1
    <3>3. QED
      BY <1>2, <3>2
  <2>2. QED
    BY <2>1 DEF KeptEdgesInRange
<1>11. \A r \in 0 .. origN - 1 \ claimed : graph'[r] = before[r]
  BY <1>3, <1>4 DEF Old
<1>12. QED
  BY <1>5, <1>7, <1>8, <1>9, <1>10, <1>11 DEF IInv

LEMMA StutterStep == ASSUME IInv, UNCHANGED vars PROVE IInv'
<1> USE DEF vars, callVars, chunkVars
<1>1. TypeOK'
  <2>1. (f16 \in BOOLEAN /\ wantIds \in BOOLEAN)'
    BY DEF IInv, TypeOK
  <2>2. QED
    BY <2>1 DEF IInv, TypeOK, Rows
<1>2. (PhaseInv /\ LinkInv /\ RowInv)'
  BY DEF IInv, PhaseInv, LinkInv, RowInv, Rows, Old
<1>3. (KeptEdgesInRange /\ JournalInv /\ UndoInv)'
  BY DEF IInv, KeptEdgesInRange, JournalInv, UndoInv, Rows, Old
<1>4. QED
  BY <1>1, <1>2, <1>3 DEF IInv

-----------------------------------------------------------------------------
(* The theorems.                                                           *)

LEMMA NextStep == IInv /\ [Next]_vars => IInv'
BY DeleteStep, BeginExtendStep, BeginUpdateStep, TakeNewRowsStep, TakeOldRowsStep,
   PublishRowStep, GroupLinksStep, PruneStep, PruneLocallyStep, MapBackStep,
   NextChunkStep, EndCallStep, InsertFailsStep, UpdateFailsStep, RepairThrowsStep,
   GiveBackStep, UnwindStep, TruncateStep, StutterStep DEF Next

\* The strengthened invariant holds in every state of the graph's repair.
THEOREM Invariance == Spec => []IInv
BY InitStep, NextStep, PTL DEF Spec

\* Every phase of a mutation works on rows of the index, and the vectors of a
\* call never outgrow it.
THEOREM TypeCorrect == Spec => []TypeOK
<1>1. IInv => TypeOK
  BY DEF IInv
<1>2. QED
  BY <1>1, Invariance, PTL

\* In the middle of a repair, after a failed one and after an undo, the edges of
\* every row that no failed insert had claimed lead to rows of the index: the
\* search and the prune read no vector beyond the dataset through them.
THEOREM EdgesStayInRange == Spec => []KeptEdgesInRange
<1>1. IInv => KeptEdgesInRange
  BY DEF IInv
<1>2. QED
  BY <1>1, Invariance, PTL

\* A failed insert puts back the edges of every row it had not claimed, however
\* many chunks had pruned the row before the failure.
THEOREM UndoIsExact == Spec => UndoRestoresEdges
<1>1. IInv /\ [Next]_vars =>
        [pc = "unwind" /\ pc' = "idle" =>
           \A r \in 0 .. origN - 1 \ claimed : graph'[r] = before[r]]_vars
  <2> SUFFICES ASSUME IInv, Next, pc = "unwind", pc' = "idle"
               PROVE  \A r \in 0 .. origN - 1 \ claimed : graph'[r] = before[r]
    OBVIOUS
  <2>1. Truncate
    BY DEF Next, Delete, BeginExtend, BeginUpdate, Enter, TakeNewRows, TakeOldRows,
       PublishRow, GroupLinks, Prune, PruneLocally, MapBack, NextChunk, EndCall, Pruned,
       InsertFails, UpdateFails, RepairFails, RepairThrows, GiveBack, Unwind
  <2>2. QED
    BY <2>1, TruncateStep
<1>2. QED
  BY <1>1, Invariance, PTL DEF Spec, UndoRestoresEdges
=============================================================================
