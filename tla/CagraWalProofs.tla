--------------------------- MODULE CagraWalProofs ---------------------------
(***************************************************************************)
(* What a recovery of a CAGRA index restores, for any vectors, calls,      *)
(* snapshots and crashes: where log and snapshots can be trusted, the      *)
(* index is one it was before, with all that was acknowledged; where they  *)
(* cannot, no id gets a vector it never had, unless rows are reused.       *)
(*                                                                         *)
(* The argument: the log is a chain.  was[k] is the index that the k-th    *)
(* record was made on, and was[k + 1] what it made of it; the snapshot is  *)
(* one of them, was[b], because the log of a snapshot is emptied only      *)
(* later.  Replay of the records before b catches up with what the         *)
(* snapshot holds already; replay of the others goes along the chain.      *)
(***************************************************************************)
EXTENDS CagraWal, TLAPS

-----------------------------------------------------------------------------
(* The invariant.                                                          *)

IsASeq(s) == Len(s) \in Nat /\ s = [k \in 1 .. Len(s) |-> s[k]]

\* Variables that need no trust.
RunInv ==
  /\ setting \in Settings
  /\ IsASeq(log) /\ synced \in Nat /\ synced <= Len(log)
  /\ pc \in {"idle", "logging", "truncating", "down", "replaying"}
  /\ at \in Nat \ {0} /\ at <= Len(log) + 1
  /\ pc # "replaying" => at = 1
  /\ pc = "logging" => pend.rec # Torn
  /\ pc = "down" => Content(ix) = {}
  /\ mutations \in Nat /\ snapshots \in Nat /\ crashes \in Nat

\* The index of callers that reuse no rows.
Plain(x) ==
  /\ x = [vec |-> x.vec, gen |-> x.gen, dead |-> x.dead, free |-> x.free]
  /\ IsASeq(x.vec)
  /\ x.gen = [r \in 1 .. Len(x.vec) |-> 0]
  /\ x.dead \subseteq 1 .. Len(x.vec)

\* A record of such callers.
PlainRecord(m) ==
  /\ m.type \in {"delete", "update", "insertNoIds"}
  /\ IF m.type = "insertNoIds"
     THEN m.ids = <<>> /\ m.rows \in Nat /\ IsASeq(m.vecs) /\ Len(m.vecs) > 0
     ELSE \A k \in DOMAIN m.ids : m.ids[k] = <<m.ids[k][1], 0>>

\* The vectors of the rows, of the dead as well, are among the pairs G.
RowsIn(x, G) == \A r \in 1 .. Len(x.vec) : <<<<r, 0>>, x.vec[r]>> \in G

\* So are those of a record.
RecordIn(m, G) ==
  /\ m.type = "update" => \A r \in Named(m) : <<<<r, 0>>, Rewritten(m, r)>> \in G
  /\ m.type = "insertNoIds" =>
       \A k \in 1 .. Len(m.vecs) : <<<<m.rows + k, 0>>, m.vecs[k]>> \in G

\* What index, snapshots and log hold was given.
GivenInv ==
  /\ Plain(ix) /\ RowsIn(ix, given)
  /\ Plain(Load(snapshot)) /\ RowsIn(snapshot, given)
  /\ Plain(Load(oldSnapshot)) /\ RowsIn(oldSnapshot, given)
  /\ \A k \in 1 .. Len(log) : log[k] = Torn \/ (PlainRecord(log[k]) /\ RecordIn(log[k], given))
  /\ pc = "logging" => PlainRecord(pend.rec) /\ RecordIn(pend.rec, given)

\* Two indexes that answer alike and go on alike: without reuse the free list does
\* not matter.
Same(x, y) == IF setting.reuse THEN x = y ELSE Image(x) = Image(y)

\* Records that read back.
GoodLen(l) == IF Len(l) > 0 /\ l[Len(l)] = Torn THEN Len(l) - 1 ELSE Len(l)

\* m was made on x.
Made(x, m) ==
  /\ m # Torn /\ Applies(x, m)
  /\ ~setting.reuse =>
       PlainRecord(m) /\ (m.type # "insertNoIds" => Named(m) \subseteq 1 .. Len(x.vec))

Updated(m) == IF m.type = "update" THEN Named(m) ELSE {}

\* A row of x keeps its vector in y unless an update in l[k .. j - 1] names it, and its
\* tombstone unless a record there does.
Kept(x, y, l, k, j) ==
  /\ Len(x.vec) <= Len(y.vec)
  /\ \A r \in 1 .. Len(x.vec) :
       /\ (\A i \in k .. j - 1 : r \notin Updated(l[i])) => y.vec[r] = x.vec[r]
       /\ (\A i \in k .. j - 1 : r \notin Named(l[i])) => (r \in y.dead <=> r \in x.dead)

\* The first g records of l lead from was[1] to was[g + 1].
Links(was, l, g) ==
  /\ \A k \in 1 .. g : Made(was[k], l[k]) /\ Same(was[k + 1], Apply(was[k], l[k]))
  /\ ~setting.reuse =>
       /\ \A k \in 1 .. g + 1 : Plain(was[k])
       /\ \A k \in 1 .. g + 1 : \A j \in k .. g + 1 : Kept(was[k], was[j], l, k, j)

\* A replay that reads records the snapshot y holds: what differs from it is still to
\* be named.
Catching(x, y, a, b) ==
  /\ Len(x.vec) = Len(y.vec)
  /\ \A r \in 1 .. Len(x.vec) :
       /\ x.vec[r] = y.vec[r] \/ \E i \in a .. b - 1 : r \in Updated(log[i])
       /\ (r \in x.dead <=> r \in y.dead) \/ \E i \in a .. b - 1 : r \in Named(log[i])

\* Where the running call, or the recovery, stands.
Standing(was, b, g) ==
  /\ pc \in {"idle", "logging", "truncating"} => attached /\ g = Len(log)
  /\ pc \in {"idle", "truncating"} => Same(ix, was[g + 1])
  /\ pc = "truncating" => b = g + 1
  /\ pc = "logging" =>
       /\ Made(was[g + 1], pend.rec) /\ Same(ix, Apply(was[g + 1], pend.rec))
       /\ pend.before = Content(was[g + 1])
       /\ Content(ix) \in past /\ Content(ix) \subseteq given
  /\ pc = "replaying" =>
       IF at < b THEN Catching(ix, was[b], at, b) ELSE at <= g + 1 /\ Same(ix, was[at])

\* The snapshot is on the chain.
SnapshotOk(was, b, g) ==
  /\ b \in 1 .. g + 1 /\ Same(Load(snapshot), was[b])
  /\ setting.snapshots = 0 => b = 1 /\ oldSnapshot = snapshot

\* A power cut may leave as little of the log as was synced.
Floor == IF "power" \in setting.faults THEN synced ELSE GoodLen(log)

\* Whatever part of the log a crash leaves, its end holds what callers were told, and
\* was the index at some time.
PromisesOk(was, b, g) ==
  /\ synced <= g
  /\ \A k \in b .. g + 1 : Content(was[k]) \in past /\ Content(was[k]) \subseteq given
  /\ Durable => \A k \in Floor + 1 .. g + 1 :
       owed \subseteq Content(was[k]) /\ gone \cap IdsOf(Content(was[k])) = {}

Chain(was, b) ==
  /\ Links(was, log, GoodLen(log)) /\ SnapshotOk(was, b, GoodLen(log))
  /\ Standing(was, b, GoodLen(log)) /\ PromisesOk(was, b, GoodLen(log))

IInv ==
  /\ RunInv
  /\ ~setting.reuse => GivenInv
  /\ Trusted => \E was, b : Chain(was, b)

-----------------------------------------------------------------------------
(* Sequences.                                                              *)

LEMMA ASeq ==
  ASSUME NEW s, IsASeq(s), NEW S, \A k \in 1 .. Len(s) : s[k] \in S
  PROVE  s \in Seq(S)
<1> DEFINE n == Len(s)
<1>1. n \in Nat /\ s = [k \in 1 .. n |-> s[k]]   BY DEF IsASeq
<1> HIDE DEF n
<1>2. s \in [1 .. n -> S]   BY <1>1 DEF n
<1> QED BY <1>1, <1>2

\* A function on 1 .. n is a sequence.
LEMMA FromFunction ==
  ASSUME NEW n \in Nat, NEW f, f = [k \in 1 .. n |-> f[k]]
  PROVE  IsASeq(f) /\ Len(f) = n
<1> DEFINE S == {f[k] : k \in 1 .. n}
<1>1. f \in [1 .. n -> S]   OBVIOUS
<1> HIDE DEF S
<1>2. f \in Seq(S) /\ Len(f) = n   BY <1>1
<1> QED BY <1>2 DEF IsASeq

LEMMA OfSeq ==
  ASSUME NEW S, NEW a \in Seq(S)
  PROVE  IsASeq(a)
BY DEF IsASeq

\* a is s with one more element.
Extends(a, s, e) ==
  /\ IsASeq(a) /\ Len(s) \in Nat /\ Len(a) = Len(s) + 1
  /\ a[Len(s) + 1] = e
  /\ \A k \in 1 .. Len(s) : a[k] = s[k]

LEMMA Appended ==
  ASSUME NEW s, IsASeq(s), NEW e
  PROVE  Extends(Append(s, e), s, e)
<1> DEFINE S == {s[k] : k \in 1 .. Len(s)} \cup {e}
           a == Append(s, e)
<1>1. s \in Seq(S)
  <2>1. \A k \in 1 .. Len(s) : s[k] \in S   OBVIOUS
  <2> HIDE DEF S
  <2> QED BY <2>1, ASeq
<1>2. e \in S   OBVIOUS
<1> HIDE DEF S
<1>3. a \in Seq(S) /\ Len(a) = Len(s) + 1   BY <1>1, <1>2
<1>4. \A k \in 1 .. Len(s) : a[k] = s[k]   BY <1>1, <1>2
<1>5. a[Len(s) + 1] = e   BY <1>1, <1>2
<1> HIDE DEF a
<1>6. IsASeq(a)   BY <1>3, OfSeq
<1>7. Extends(a, s, e)   BY <1>3, <1>4, <1>5, <1>6 DEF Extends, IsASeq
<1> QED BY <1>7 DEF a

LEMMA CatIs ==
  ASSUME NEW s, IsASeq(s), NEW t, IsASeq(t)
  PROVE  /\ IsASeq(s \o t) /\ Len(s \o t) = Len(s) + Len(t)
         /\ \A k \in 1 .. Len(s) : (s \o t)[k] = s[k]
         /\ \A k \in 1 .. Len(t) : (s \o t)[Len(s) + k] = t[k]
<1> DEFINE S == {s[k] : k \in 1 .. Len(s)} \cup {t[k] : k \in 1 .. Len(t)}
           a == s \o t
<1>1. (\A k \in 1 .. Len(s) : s[k] \in S) /\ (\A k \in 1 .. Len(t) : t[k] \in S)   OBVIOUS
<1> HIDE DEF S
<1>2. s \in Seq(S) /\ t \in Seq(S)   BY <1>1, ASeq
<1>3. a \in Seq(S) /\ Len(a) = Len(s) + Len(t)   BY <1>2
<1>4. \A k \in 1 .. Len(s) : a[k] = s[k]   BY <1>2
<1>5. \A k \in 1 .. Len(t) : a[Len(s) + k] = t[k]   BY <1>2
<1> HIDE DEF a
<1>6. IsASeq(a)   BY <1>3, OfSeq
<1> QED BY <1>3, <1>4, <1>5, <1>6 DEF a

\* a is s followed by t; its elements by where they come from.
Joins(a, s, t) ==
  /\ IsASeq(a) /\ Len(a) = Len(s) + Len(t) /\ Len(s) \in Nat /\ Len(t) \in Nat
  /\ \A k \in 1 .. Len(s) : a[k] = s[k]
  /\ \A k \in 1 .. Len(a) :
       (k \in 1 .. Len(s) /\ a[k] = s[k])
       \/ (k - Len(s) \in 1 .. Len(t) /\ a[k] = t[k - Len(s)])

LEMMA Joined ==
  ASSUME NEW s, IsASeq(s), NEW t, IsASeq(t)
  PROVE  Joins(s \o t, s, t)
<1> DEFINE a == s \o t
<1>1. /\ IsASeq(a) /\ Len(a) = Len(s) + Len(t) 
      /\ \A k \in 1 .. Len(s) : a[k] = s[k]
      /\ \A k \in 1 .. Len(t) : a[Len(s) + k] = t[k]
  BY CatIs
<1> HIDE DEF a
<1>2. Len(s) \in Nat /\ Len(t) \in Nat   BY DEF IsASeq
<1> DEFINE m == Len(s)  n == Len(t)
<1>3. ASSUME NEW k \in 1 .. Len(a), k \notin 1 .. m
      PROVE  k - m \in 1 .. n /\ a[k] = t[k - m]
  <2>1. Len(a) = m + n /\ m \in Nat /\ n \in Nat /\ \A i \in 1 .. n : a[m + i] = t[i]
    BY <1>1, <1>2
  <2> HIDE DEF m, n
  <2>2. k - m \in 1 .. n /\ k = m + (k - m)   BY <1>3, <2>1
  <2> QED BY <2>1, <2>2
<1>4. Joins(a, s, t)   BY <1>1, <1>2, <1>3 DEF Joins
<1> QED BY <1>4 DEF a

\* a is the first n elements of s.
Begins(a, s, n) ==
  IsASeq(a) /\ Len(a) = n /\ \A k \in 1 .. n : a[k] = s[k]

LEMMA CutOff ==
  ASSUME NEW s, IsASeq(s), NEW n \in 0 .. Len(s)
  PROVE  Begins(SubSeq(s, 1, n), s, n)
<1> DEFINE S == {s[k] : k \in 1 .. Len(s)}
           a == SubSeq(s, 1, n)
<1>1. \A k \in 1 .. Len(s) : s[k] \in S   OBVIOUS
<1> HIDE DEF S
<1>2. s \in Seq(S) /\ Len(s) \in Nat   BY <1>1, ASeq DEF IsASeq
<1>3. a \in Seq(S) /\ Len(a) = n /\ \A k \in 1 .. n : a[k] = s[k]   BY <1>2
<1> HIDE DEF a
<1>4. IsASeq(a)   BY <1>3, OfSeq
<1>5. Begins(a, s, n)   BY <1>3, <1>4 DEF Begins
<1> QED BY <1>5 DEF a

LEMMA EmptyIs == IsASeq(<<>>) /\ Len(<<>>) = 0
BY DEF IsASeq

-----------------------------------------------------------------------------
(* Indexes.                                                                *)

\* What an index answers depends on its image.
LEMMA ByImage ==
  ASSUME NEW x, NEW y, Image(x) = Image(y)
  PROVE  /\ x.vec = y.vec /\ x.gen = y.gen /\ x.dead = y.dead
         /\ Content(x) = Content(y)
         /\ \A m : Applies(x, m) <=> Applies(y, m)
<1>1. x.vec = y.vec /\ x.gen = y.gen /\ x.dead = y.dead   BY DEF Image
<1> QED BY <1>1 DEF Content, Pack, Applies

LEMMA SameIs ==
  ASSUME NEW x, NEW y, Same(x, y)
  PROVE  /\ x.vec = y.vec /\ x.gen = y.gen /\ x.dead = y.dead
         /\ Content(x) = Content(y)
         /\ \A m : Applies(x, m) <=> Applies(y, m)
<1>1. Image(x) = Image(y)   BY DEF Same
<1> QED BY <1>1, ByImage

LEMMA SameWay ==
  ASSUME NEW x, NEW y, NEW z
  PROVE  Same(x, x) /\ (Same(x, y) => Same(y, x)) /\ (Same(x, y) /\ Same(y, z) => Same(x, z))
BY DEF Same

\* A plain record resolves if its rows are there.
LEMMA ResolvesPlain ==
  ASSUME NEW x, Plain(x), NEW m, PlainRecord(m), m.type # "insertNoIds", NEW k \in DOMAIN m.ids
  PROVE  Resolves(x, m.ids[k]) <=> m.ids[k][1] \in 1 .. Len(x.vec)
<1>1. m.ids[k] = <<m.ids[k][1], 0>>   BY DEF PlainRecord
<1>2. m.ids[k][2] = 0   BY <1>1
<1>3. DOMAIN x.vec = 1 .. Len(x.vec)   BY DEF Plain, IsASeq
<1>4. \A r \in 1 .. Len(x.vec) : x.gen[r] = 0   BY DEF Plain
<1> QED BY <1>2, <1>3, <1>4 DEF Resolves

LEMMA Rejected ==
  ASSUME NEW x, Plain(x), NEW m, PlainRecord(m), m.type # "insertNoIds",
         ~(Named(m) \subseteq 1 .. Len(x.vec))
  PROVE  Apply(x, m) = x
<1>1. PICK k \in DOMAIN m.ids : m.ids[k][1] \notin 1 .. Len(x.vec)   BY DEF Named
<1>2. ~Resolves(x, m.ids[k])   BY <1>1, ResolvesPlain
<1> QED BY <1>2 DEF Apply

LEMMA DeletePlain ==
  ASSUME NEW x, Plain(x), NEW m, PlainRecord(m), m.type = "delete",
         Named(m) \subseteq 1 .. Len(x.vec)
  PROVE  /\ Plain(Apply(x, m))
         /\ Apply(x, m).vec = x.vec /\ Apply(x, m).dead = x.dead \cup Named(m)
<1>1. \A k \in DOMAIN m.ids : Resolves(x, m.ids[k])   BY ResolvesPlain DEF Named
<1>2. Apply(x, m) = [x EXCEPT !.dead = @ \cup Named(m), !.free = @ \o Buried(x, m)]
  BY <1>1 DEF Apply
<1>3. x = [vec |-> x.vec, gen |-> x.gen, dead |-> x.dead, free |-> x.free]   BY DEF Plain
<1>4. Apply(x, m) = [vec |-> x.vec, gen |-> x.gen, dead |-> x.dead \cup Named(m),
                     free |-> x.free \o Buried(x, m)]
  BY <1>2, <1>3
<1> QED BY <1>4 DEF Plain

LEMMA UpdatePlain ==
  ASSUME NEW x, Plain(x), NEW m, PlainRecord(m), m.type = "update",
         Named(m) \subseteq 1 .. Len(x.vec)
  PROVE  /\ Plain(Apply(x, m)) /\ Len(Apply(x, m).vec) = Len(x.vec)
         /\ \A r \in 1 .. Len(x.vec) :
              Apply(x, m).vec[r] = IF r \in Named(m) THEN Rewritten(m, r) ELSE x.vec[r]
         /\ Apply(x, m).dead = x.dead \ Named(m)
<1>1. \A k \in DOMAIN m.ids : Resolves(x, m.ids[k])   BY ResolvesPlain DEF Named
<1> DEFINE rows == [r \in DOMAIN x.vec |-> IF r \in Named(m) THEN Rewritten(m, r) ELSE x.vec[r]]
<1>2. Apply(x, m) = [x EXCEPT !.vec = rows, !.dead = @ \ Named(m)]
  BY <1>1 DEF Apply
<1>3. x = [vec |-> x.vec, gen |-> x.gen, dead |-> x.dead, free |-> x.free]   BY DEF Plain
<1>4. DOMAIN x.vec = 1 .. Len(x.vec) /\ Len(x.vec) \in Nat   BY DEF Plain, IsASeq
<1>5. rows = [r \in 1 .. Len(x.vec) |-> rows[r]]   BY <1>4
<1>6. \A r \in 1 .. Len(x.vec) : rows[r] = IF r \in Named(m) THEN Rewritten(m, r) ELSE x.vec[r]
  BY <1>4
<1> HIDE DEF rows
<1>7. IsASeq(rows) /\ Len(rows) = Len(x.vec)   BY <1>4, <1>5, FromFunction
<1>8. Apply(x, m) = [vec |-> rows, gen |-> x.gen, dead |-> x.dead \ Named(m), free |-> x.free]
  BY <1>2, <1>3
<1> QED BY <1>6, <1>7, <1>8 DEF Plain

LEMMA InsertPlain ==
  ASSUME NEW x, Plain(x), NEW m, PlainRecord(m), m.type = "insertNoIds"
  PROVE  /\ Plain(Apply(x, m)) /\ Joins(Apply(x, m).vec, x.vec, m.vecs)
         /\ Apply(x, m).vec = x.vec \o m.vecs /\ Apply(x, m).dead = x.dead
<1>1. m.ids = <<>> /\ IsASeq(m.vecs) /\ IsASeq(x.vec)   BY DEF PlainRecord, Plain
<1> DEFINE zeros == [k \in DOMAIN m.vecs |-> 0]
           vec == x.vec \o m.vecs
           gen == x.gen \o zeros
<1>2. Apply(x, m) = [x EXCEPT !.vec = vec, !.gen = gen]
  BY <1>1 DEF Apply
<1>3. x = [vec |-> x.vec, gen |-> x.gen, dead |-> x.dead, free |-> x.free]   BY DEF Plain
<1>4. DOMAIN m.vecs = 1 .. Len(m.vecs) /\ Len(m.vecs) \in Nat /\ Len(x.vec) \in Nat
  BY <1>1 DEF IsASeq
<1>5. zeros = [k \in 1 .. Len(m.vecs) |-> zeros[k]] /\ \A k \in 1 .. Len(m.vecs) : zeros[k] = 0
  BY <1>4
<1> HIDE DEF zeros
<1>6. IsASeq(zeros) /\ Len(zeros) = Len(m.vecs)   BY <1>4, <1>5, FromFunction
<1>7. x.gen = [r \in 1 .. Len(x.vec) |-> x.gen[r]] /\ \A r \in 1 .. Len(x.vec) : x.gen[r] = 0
  BY DEF Plain
<1>8. IsASeq(x.gen) /\ Len(x.gen) = Len(x.vec)   BY <1>4, <1>7, FromFunction
<1>9. Joins(vec, x.vec, m.vecs)   BY <1>1, Joined
<1>10. Joins(gen, x.gen, zeros)   BY <1>6, <1>8, Joined
<1>11. Apply(x, m) = [vec |-> vec, gen |-> gen, dead |-> x.dead, free |-> x.free]
  BY <1>2, <1>3
<1> HIDE DEF vec, gen
<1>12. Apply(x, m).vec = vec /\ Apply(x, m).dead = x.dead   BY <1>11
<1>13. Len(gen) = Len(vec)   BY <1>6, <1>8, <1>9, <1>10 DEF Joins
<1>14. \A r \in 1 .. Len(vec) : gen[r] = 0   BY <1>5, <1>6, <1>7, <1>8, <1>10, <1>13 DEF Joins
<1>15. gen = [r \in 1 .. Len(vec) |-> 0]   BY <1>10, <1>13, <1>14 DEF IsASeq, Joins
<1>16. x.dead \subseteq 1 .. Len(vec)
  <2>1. x.dead \subseteq 1 .. Len(x.vec)   BY DEF Plain
  <2>2. Len(vec) = Len(x.vec) + Len(m.vecs)   BY <1>9 DEF Joins
  <2>3. \A a, b \in Nat : 1 .. a \subseteq 1 .. a + b   OBVIOUS
  <2>4. 1 .. Len(x.vec) \subseteq 1 .. Len(x.vec) + Len(m.vecs)   BY <1>4, <2>3
  <2> QED BY <2>1, <2>2, <2>4, Zenon
<1>17. Plain(Apply(x, m))   BY <1>9, <1>11, <1>15, <1>16 DEF Plain, Joins
<1> QED BY <1>9, <1>12, <1>17, Zenon DEF vec

\* Without reuse a record does to an index what it does to another of the same image.
LEMMA SameApplied ==
  ASSUME NEW x, NEW y, NEW m, Same(x, y), Made(x, m), ~setting.reuse => Plain(x) /\ Plain(y)
  PROVE  Same(Apply(x, m), Apply(y, m)) /\ (~setting.reuse => Plain(Apply(y, m)))
<1>1. CASE setting.reuse   BY <1>1 DEF Same
<1>2. CASE ~setting.reuse
  <2>1. /\ Plain(x) /\ Plain(y) /\ PlainRecord(m) /\ Image(x) = Image(y)
        /\ m.type # "insertNoIds" => Named(m) \subseteq 1 .. Len(x.vec)
    BY <1>2 DEF Same, Made
  <2>2. x.vec = y.vec /\ x.gen = y.gen /\ x.dead = y.dead   BY <2>1, ByImage
  <2> SUFFICES /\ Apply(x, m).vec = Apply(y, m).vec /\ Apply(x, m).dead = Apply(y, m).dead
               /\ Plain(Apply(x, m)) /\ Plain(Apply(y, m))
    BY <1>2 DEF Same, Image, Plain
  <2>3. CASE m.type = "delete"   BY <2>1, <2>2, <2>3, DeletePlain
  <2>4. CASE m.type = "update"
    <3>1. /\ Plain(Apply(x, m)) /\ Plain(Apply(y, m))
          /\ Len(Apply(x, m).vec) = Len(x.vec) /\ Len(Apply(y, m).vec) = Len(x.vec)
          /\ Apply(x, m).dead = Apply(y, m).dead
          /\ \A r \in 1 .. Len(x.vec) : Apply(x, m).vec[r] = Apply(y, m).vec[r]
      <4>1. /\ Plain(Apply(x, m)) /\ Len(Apply(x, m).vec) = Len(x.vec)
            /\ Apply(x, m).dead = x.dead \ Named(m)
            /\ \A r \in 1 .. Len(x.vec) :
                 Apply(x, m).vec[r] = IF r \in Named(m) THEN Rewritten(m, r) ELSE x.vec[r]
        BY <2>1, <2>4, UpdatePlain
      <4>2. /\ Plain(Apply(y, m)) /\ Len(Apply(y, m).vec) = Len(y.vec)
            /\ Apply(y, m).dead = y.dead \ Named(m)
            /\ \A r \in 1 .. Len(y.vec) :
                 Apply(y, m).vec[r] = IF r \in Named(m) THEN Rewritten(m, r) ELSE y.vec[r]
        BY <2>1, <2>2, <2>4, UpdatePlain
      <4> QED BY <4>1, <4>2, <2>2
    <3>2. /\ Apply(x, m).vec = [r \in 1 .. Len(x.vec) |-> Apply(x, m).vec[r]]
          /\ Apply(y, m).vec = [r \in 1 .. Len(x.vec) |-> Apply(y, m).vec[r]]
      <4>1. /\ Apply(x, m).vec = [r \in 1 .. Len(Apply(x, m).vec) |-> Apply(x, m).vec[r]]
            /\ Apply(y, m).vec = [r \in 1 .. Len(Apply(y, m).vec) |-> Apply(y, m).vec[r]]
        BY <3>1, Zenon DEF Plain, IsASeq
      <4> QED BY <4>1, <3>1, Zenon
    <3>3. [r \in 1 .. Len(x.vec) |-> Apply(x, m).vec[r]]
            = [r \in 1 .. Len(x.vec) |-> Apply(y, m).vec[r]]
      BY <3>1, Zenon
    <3>4. Apply(x, m).vec = Apply(y, m).vec   BY <3>2, <3>3, Zenon
    <3> QED BY <3>1, <3>4
  <2>5. CASE m.type = "insertNoIds"
    <3>1. Plain(Apply(x, m)) /\ Plain(Apply(y, m)) /\ Apply(x, m).dead = Apply(y, m).dead
      BY <2>1, <2>2, <2>5, InsertPlain
    <3>2. x = [vec |-> x.vec, gen |-> x.gen, dead |-> x.dead, free |-> x.free]
      BY <2>1 DEF Plain
    <3>3. y = [vec |-> y.vec, gen |-> y.gen, dead |-> y.dead, free |-> y.free]
      BY <2>1 DEF Plain
    <3>4. m.ids = <<>>   BY <2>1, <2>5 DEF PlainRecord
    <3>5. \A z : Apply(z, m) = [z EXCEPT !.vec = @ \o m.vecs,
                                        !.gen = @ \o [k \in DOMAIN m.vecs |-> 0]]
      BY <3>4, <2>5 DEF Apply
    <3>6. Apply(x, m).vec = x.vec \o m.vecs   BY <3>2, <3>5
    <3>7. Apply(y, m).vec = y.vec \o m.vecs   BY <3>3, <3>5
    <3> QED BY <3>1, <3>6, <3>7, <2>2
  <2> QED BY <2>1, <2>3, <2>4, <2>5 DEF PlainRecord
<1> QED BY <1>1, <1>2

-----------------------------------------------------------------------------
(* The log.                                                                *)

\* The log with the record that is being appended.
Full == IF pc = "logging" /\ attached THEN Append(log, pend.rec) ELSE log

\* l holds the first n records of the full log, and perhaps a torn one for the next.
Left(l, n) ==
  /\ n \in Nat /\ n <= Len(Full)
  /\ IsASeq(l) /\ \A k \in 1 .. n : l[k] = Full[k]
  /\ Len(l) = n \/ (Len(l) = n + 1 /\ l[n + 1] = Torn /\ n < Len(Full))

\* The full log is the log, or one record longer.
LEMMA FullIs ==
  ASSUME RunInv
  PROVE  /\ IsASeq(Full) /\ Len(Full) \in Nat /\ Len(log) \in Nat
         /\ \A k \in 1 .. Len(log) : Full[k] = log[k]
         /\ \/ Full = log
            \/ Len(Full) = Len(log) + 1 /\ Full[Len(log) + 1] = pend.rec /\ pc = "logging" /\ attached
<1>1. IsASeq(log)   BY DEF RunInv
<1>2. CASE pc = "logging" /\ attached
  <2>1. Full = Append(log, pend.rec)   BY <1>2 DEF Full
  <2>2. Extends(Full, log, pend.rec)   BY <1>1, <2>1, Appended
  <2> HIDE DEF Full
  <2> QED BY <1>2, <2>2 DEF Extends, IsASeq
<1>3. CASE ~(pc = "logging" /\ attached)
  <2>1. Full = log   BY <1>3 DEF Full
  <2> QED BY <2>1, <1>1 DEF IsASeq
<1> QED BY <1>2, <1>3

\* The first records of the full log, alone or followed by a torn one.
LEMMA CutLeft ==
  ASSUME RunInv, NEW l, IsASeq(l), NEW n \in 0 .. Len(l),
         n <= Len(Full), \A k \in 1 .. n : l[k] = Full[k]
  PROVE  /\ Left(SubSeq(l, 1, n), n)
         /\ n < Len(Full) => Left(Append(SubSeq(l, 1, n), Torn), n)
<1> DEFINE c == SubSeq(l, 1, n)
           d == Append(c, Torn)
<1>1. Begins(c, l, n)   BY CutOff
<1>2. IsASeq(c)   BY <1>1 DEF Begins
<1> HIDE DEF c
<1>3. Extends(d, c, Torn)   BY <1>2, Appended
<1> HIDE DEF d
<1>4. Left(c, n)   BY <1>1 DEF Begins, Left
<1>5. n < Len(Full) => Left(d, n)
  <2>1. IsASeq(d) /\ Len(d) = n + 1 /\ d[n + 1] = Torn /\ \A k \in 1 .. n : d[k] = l[k]
    BY <1>1, <1>3 DEF Begins, Extends
  <2> QED BY <2>1 DEF Left
<1> QED BY <1>4, <1>5 DEF c, d

\* What a crash leaves of the file.
LEMMA CrashLeaves ==
  ASSUME RunInv, NEW l \in LogAtCrash
  PROVE  \E n \in 0 .. Len(Full) : n >= Len(log) /\ Left(l, n)
<1>1. /\ IsASeq(Full) /\ Len(Full) \in Nat /\ Len(log) \in Nat /\ IsASeq(log)
      /\ \A k \in 1 .. Len(log) : Full[k] = log[k]
      /\ Len(log) <= Len(Full)
  BY FullIs DEF RunInv
<1>2. CASE l = log
  <2>1. Left(log, Len(log))   BY <1>1 DEF Left
  <2> QED BY <2>1, <1>1, <1>2
<1>3. CASE l = Append(log, Torn) /\ pc = "logging" /\ attached
  <2>0. Len(log) < Len(Full)
    <3>1. Extends(Full, log, pend.rec)   BY <1>1, <1>3, Appended DEF Full
    <3> HIDE DEF Full
    <3> QED BY <1>1, <3>1 DEF Extends
  <2>1. Extends(l, log, Torn)   BY <1>1, <1>3, Appended
  <2>2. IsASeq(l) /\ Len(l) = Len(log) + 1 /\ l[Len(log) + 1] = Torn
        /\ \A k \in 1 .. Len(log) : l[k] = log[k]
    BY <2>1 DEF Extends
  <2>3. Left(l, Len(log))   BY <2>0, <2>2, <1>1 DEF Left
  <2> QED BY <2>3, <1>1
<1>4. CASE l = Append(log, pend.rec) /\ pc = "logging" /\ attached
  <2>1. l = Full   BY <1>4 DEF Full
  <2>2. Left(l, Len(Full))
    <3> HIDE DEF Full
    <3> QED BY <2>1, <1>1 DEF Left
  <2> QED BY <2>2, <1>1
<1> QED BY <1>2, <1>3, <1>4 DEF LogAtCrash

LEMMA ProcessCrashLeaves ==
  ASSUME RunInv, ProcessCrash
  PROVE  \E n \in 0 .. Len(Full) : n >= Len(log) /\ n >= synced /\ Left(log', n)
<1>1. PICK n \in 0 .. Len(Full) : n >= Len(log) /\ Left(log', n)
  BY CrashLeaves DEF ProcessCrash
<1>2. Len(log) \in Nat /\ synced \in Nat /\ synced <= Len(log)   BY DEF RunInv, IsASeq
<1> QED BY <1>1, <1>2

LEMMA PowerCutLeaves ==
  ASSUME RunInv, PowerCut
  PROVE  \E n \in 0 .. Len(Full) : n >= synced /\ Left(log', n)
<1>1. Len(Full) \in Nat /\ Len(log) \in Nat /\ synced \in Nat /\ synced <= Len(log)
  BY FullIs DEF RunInv, IsASeq
<1>0. PICK l \in LogAtCrash : \E k \in synced .. Len(l) :
        \/ log' = SubSeq(l, 1, k)
        \/ k < Len(l) /\ log' = Append(SubSeq(l, 1, k), Torn)
  BY DEF PowerCut
<1>2. PICK k \in synced .. Len(l) :
        \/ log' = SubSeq(l, 1, k)
        \/ k < Len(l) /\ log' = Append(SubSeq(l, 1, k), Torn)
  BY <1>0
<1>3. PICK n \in 0 .. Len(Full) : n >= Len(log) /\ Left(l, n)
  BY CrashLeaves
<1>4. /\ IsASeq(l) /\ Len(l) \in Nat
      /\ Len(l) = n \/ (Len(l) = n + 1 /\ l[n + 1] = Torn /\ n < Len(Full))
  BY <1>3 DEF Left, IsASeq
<1>5. CASE k <= n
  <2>1. k \in 0 .. Len(l) /\ k <= Len(Full) /\ k \in 0 .. Len(Full)
    BY <1>1, <1>4, <1>5
  <2>2. \A i \in 1 .. k : l[i] = Full[i]
    <3>1. \A i \in 1 .. n : l[i] = Full[i]   BY <1>3 DEF Left
    <3>2. 1 .. k \subseteq 1 .. n   BY <2>1, <1>5
    <3> QED BY <3>1, <3>2
  <2>4. k < Len(l) => k < Len(Full)   BY <1>1, <1>3, <1>4, <2>1
  <2>3. Left(log', k)   BY <2>1, <2>2, <2>4, <1>2, <1>4, CutLeft
  <2> QED BY <2>1, <2>3
<1>6. CASE ~(k <= n)
  <2>1. k = n + 1 /\ Len(l) = k /\ l[n + 1] = Torn /\ n < Len(Full)   BY <1>4, <1>6
  <2>2. log' = SubSeq(l, 1, k)   BY <2>1, <1>2
  <2>3. Begins(log', l, k)   BY <2>1, <2>2, <1>4, CutOff
  <2>4. IsASeq(log') /\ Len(log') = n + 1 /\ log'[n + 1] = Torn
        /\ \A i \in 1 .. n + 1 : log'[i] = l[i]
    BY <2>1, <2>3 DEF Begins
  <2>5. Left(log', n)
    <3>1. \A i \in 1 .. n : l[i] = Full[i]   BY <1>3 DEF Left
    <3> QED BY <2>1, <2>4, <3>1 DEF Left
  <2> QED BY <2>5, <1>1, <1>3
<1> QED BY <1>5, <1>6

\* A crash leaves a part of the log.
LEMMA StopLeaves ==
  ASSUME RunInv, ProcessCrash \/ PowerCut
  PROVE  \E n \in 0 .. Len(Full) : n >= synced /\ Left(log', n)
BY ProcessCrashLeaves, PowerCutLeaves

-----------------------------------------------------------------------------
(* Variables that need no trust.                                           *)

LEMMA RunInit == Init => RunInv
<1> SUFFICES ASSUME Init PROVE RunInv
  OBVIOUS
<1> USE DEF Init
<1>1. IsASeq(log) /\ Len(log) = 0   BY EmptyIs
<1> QED BY <1>1 DEF RunInv

LEMMA SettingIs ==
  ASSUME setting \in Settings
  PROVE  /\ setting.mutations \in Nat /\ setting.snapshots \in Nat /\ setting.crashes \in Nat
         /\ setting.reuse \in BOOLEAN /\ setting.fsync \in BOOLEAN
BY CagraWalAssumption

\* A record that is appended leaves the log a sequence.
LEMMA AppendRuns ==
  ASSUME RunInv, NEW e, log' \in {log, Append(log, e)}
  PROVE  IsASeq(log') /\ Len(log') \in Nat /\ Len(log') >= Len(log)
<1>1. IsASeq(log) /\ Len(log) \in Nat   BY DEF RunInv, IsASeq
<1>2. CASE log' = log   BY <1>1, <1>2
<1>3. CASE log' = Append(log, e)
  <2>1. Extends(log', log, e)   BY <1>1, <1>3, Appended
  <2> QED BY <2>1, <1>1 DEF Extends
<1> QED BY <1>2, <1>3

LEMMA MutateRuns ==
  ASSUME RunInv, setting' = setting, Delete \/ Update \/ Insert
  PROVE  RunInv'
<1>1. PICK type, ids, vecs : type # "torn" /\ Mutate(type, ids, vecs)
  <2>1. CASE Delete   BY <2>1 DEF Delete
  <2>2. CASE Update   BY <2>2 DEF Update
  <2>3. CASE Insert   BY <2>3 DEF Insert
  <2> QED BY <2>1, <2>2, <2>3
<1>2. /\ pc' = "logging" /\ log' = log /\ synced' = synced /\ at' = at
      /\ mutations' = mutations + 1 /\ snapshots' = snapshots /\ crashes' = crashes
      /\ pc = "idle" /\ pend'.rec.type = type
  BY <1>1 DEF Mutate, disk
<1>3. pend'.rec # Torn
  <2>1. Torn.type = "torn"   BY DEF Torn
  <2> QED BY <1>1, <1>2, <2>1
<1> QED BY <1>2, <1>3 DEF RunInv

LEMMA AppendRecordRuns ==
  ASSUME RunInv, setting' = setting, AppendRecord \/ WriteFails \/ FlushFails
  PROVE  RunInv'
<1>1. /\ pc' = "idle" /\ ix' = ix /\ at' = at /\ counters' = counters /\ pc = "logging"
      /\ synced' = synced \/ synced' = Len(log')
      /\ \/ log' \in {log, Append(log, pend.rec)}
         \/ log' \in {log, Append(log, Torn)}
  BY DEF AppendRecord, WriteFails, FlushFails, Returned, counters
<1>2. IsASeq(log') /\ Len(log') \in Nat /\ Len(log') >= Len(log)   BY <1>1, AppendRuns
<1>3. at = 1 /\ Len(log) \in Nat /\ synced \in Nat /\ synced <= Len(log)
      /\ mutations' \in Nat /\ snapshots' \in Nat /\ crashes' \in Nat
  BY <1>1 DEF RunInv, IsASeq, counters
<1>4. synced' \in Nat /\ synced' <= Len(log')   BY <1>1, <1>2, <1>3
<1>5. at' \in Nat \ {0} /\ at' <= Len(log') + 1 /\ at' = 1   BY <1>1, <1>2, <1>3
<1> QED BY <1>1, <1>2, <1>3, <1>4, <1>5 DEF RunInv

LEMMA SnapshotRuns ==
  ASSUME RunInv, setting' = setting, WriteSnapshot \/ Truncate \/ TruncateFails
  PROVE  RunInv'
<1>1. CASE WriteSnapshot   BY <1>1 DEF WriteSnapshot, RunInv
<1>2. CASE Truncate
  <2>1. IsASeq(<<>>) /\ Len(<<>>) = 0   BY EmptyIs
  <2>2. /\ pc' = "idle" /\ at' = at /\ at = 1 /\ counters' = counters
        /\ (log' = log /\ synced' = synced) \/ (log' = <<>> /\ synced' = 0)
    BY <1>2 DEF Truncate, Returned, counters, RunInv
  <2> QED BY <2>1, <2>2 DEF RunInv, counters
<1>3. CASE TruncateFails   BY <1>3 DEF TruncateFails, Returned, counters, RunInv
<1> QED BY <1>1, <1>2, <1>3

LEMMA StopRuns ==
  ASSUME RunInv, setting' = setting, ProcessCrash \/ PowerCut
  PROVE  RunInv'
<1>1. /\ pc' = "down" /\ ix' = Down /\ at' = 1 /\ synced' = synced
      /\ mutations' = mutations /\ snapshots' = snapshots /\ crashes' = crashes + 1
  BY DEF ProcessCrash, PowerCut, Stop
<1>2. Content(Down) = {}   BY DEF Content, Down
<1>3. PICK n \in 0 .. Len(Full) : n >= synced /\ Left(log', n)   BY StopLeaves
<1>4. IsASeq(log') /\ Len(log') \in Nat /\ Len(log') >= n   BY <1>3 DEF Left, IsASeq
<1>5. synced' \in Nat /\ synced' <= Len(log')   BY <1>1, <1>3, <1>4 DEF RunInv
<1>6. at' <= Len(log') + 1   BY <1>1, <1>4
<1>7. Content(ix') = {}   BY <1>1, <1>2
<1> QED BY <1>1, <1>4, <1>5, <1>6, <1>7 DEF RunInv, Content, Pack

LEMMA ReplayRuns ==
  ASSUME RunInv, setting' = setting, OpenLog \/ ReplayRecord \/ CutTail
  PROVE  RunInv'
<1>0. IsASeq(log) /\ Len(log) \in Nat /\ DOMAIN log = 1 .. Len(log)   BY DEF RunInv, IsASeq
<1>1. CASE OpenLog   BY <1>0, <1>1 DEF OpenLog, RunInv, disk, counters
<1>2. CASE ReplayRecord
  <2>1. /\ pc' = "replaying" /\ log' = log /\ synced' = synced /\ counters' = counters
        /\ at' = at + 1 /\ at \in DOMAIN log
    BY <1>2 DEF ReplayRecord, disk, AtEnd, counters
  <2> QED BY <1>0, <2>1 DEF RunInv, counters
<1>3. CASE CutTail
  <2>1. /\ pc' = "idle" /\ at' = 1 /\ counters' = counters
        /\ log' = SubSeq(log, 1, Good)
        /\ synced' = IF synced <= Good THEN synced ELSE Good
    BY <1>3 DEF CutTail, counters
  <2>2. Good \in 0 .. Len(log) /\ Good \in Nat   BY <1>0 DEF Good, RunInv
  <2>3. Begins(log', log, Good)   BY <1>0, <2>1, <2>2, CutOff
  <2>4. IsASeq(log') /\ Len(log') = Good   BY <2>3 DEF Begins
  <2> HIDE DEF Good
  <2>5. synced' \in Nat /\ synced' <= Len(log')   BY <2>1, <2>2, <2>4 DEF RunInv
  <2>6. at' \in Nat \ {0} /\ at' <= Len(log') + 1   BY <2>1, <2>2, <2>4
  <2>7. mutations' \in Nat /\ snapshots' \in Nat /\ crashes' \in Nat
    BY <2>1 DEF RunInv, counters
  <2>8. setting' \in Settings   BY DEF RunInv
  <2>9. IsASeq(log')   BY <2>4
  <2> QED BY <2>1, <2>5, <2>6, <2>7, <2>8, <2>9 DEF RunInv
<1> QED BY <1>1, <1>2, <1>3

LEMMA CloseRuns ==
  ASSUME RunInv, setting' = setting, Close
  PROVE  RunInv'
<1>1. /\ pc' = "down" /\ ix' = Down /\ at' = 1 /\ log' = log /\ synced' \in {synced, Len(log)}
      /\ mutations' = mutations /\ snapshots' = snapshots /\ crashes' = crashes + 1
  BY DEF Close, Stop
<1>2. Content(Down) = {}   BY DEF Content, Down
<1>3. Content(ix)' = {}   BY <1>1, <1>2
<1>4. Len(log) \in Nat   BY DEF RunInv, IsASeq
<1> QED BY <1>1, <1>3, <1>4 DEF RunInv

LEMMA RunStep == RunInv /\ [Next]_vars => RunInv'
<1> SUFFICES ASSUME RunInv, [Next]_vars PROVE RunInv'
  OBVIOUS
<1>1. CASE UNCHANGED vars
  BY <1>1 DEF vars, disk, counters, RunInv, Content, Pack
<1>2. CASE Next
  BY <1>2, MutateRuns, AppendRecordRuns, SnapshotRuns, StopRuns, CloseRuns, ReplayRuns
  DEF Next
<1> QED BY <1>1, <1>2

LEMMA RunAlways == Spec => []RunInv
<1> QED BY RunInit, RunStep, PTL DEF Spec

-----------------------------------------------------------------------------
(* Nothing is invented where no row is reused.                             *)

LEMMA PlainContent ==
  ASSUME NEW x, Plain(x)
  PROVE  /\ \A r \in 1 .. Len(x.vec) : r \notin x.dead => <<<<r, 0>>, x.vec[r]>> \in Content(x)
         /\ \A c \in Content(x) : \E r \in 1 .. Len(x.vec) :
              r \notin x.dead /\ c = <<<<r, 0>>, x.vec[r]>>
<1>1. DOMAIN x.vec = 1 .. Len(x.vec)   BY DEF Plain, IsASeq
<1>2. \A r \in 1 .. Len(x.vec) : Pack(x, r) = <<r, 0>>   BY DEF Plain, Pack
<1>3. Content(x) = {<<<<r, 0>>, x.vec[r]>> : r \in 1 .. Len(x.vec) \ x.dead}
  BY <1>1, <1>2 DEF Content
<1> QED BY <1>3

LEMMA RecordMore ==
  ASSUME NEW m, NEW G, RecordIn(m, G), NEW H, G \subseteq H
  PROVE  RecordIn(m, H)
BY DEF RecordIn

LEMMA RowsMore ==
  ASSUME NEW x, NEW G, RowsIn(x, G), NEW H, G \subseteq H
  PROVE  RowsIn(x, H)
BY DEF RowsIn

\* A replayed record keeps the vectors among the pairs.
LEMMA ApplyIn ==
  ASSUME NEW x, NEW m, NEW G, Plain(x), RowsIn(x, G), PlainRecord(m), RecordIn(m, G),
         Applies(x, m)
  PROVE  Plain(Apply(x, m)) /\ RowsIn(Apply(x, m), G)
<1>0. Len(x.vec) \in Nat   BY DEF Plain, IsASeq
<1>1. CASE m.type # "insertNoIds" /\ ~(Named(m) \subseteq 1 .. Len(x.vec))
  <2>1. Apply(x, m) = x   BY <1>1, Rejected
  <2> QED BY <2>1
<1>2. CASE m.type = "delete" /\ Named(m) \subseteq 1 .. Len(x.vec)
  <2>1. Plain(Apply(x, m)) /\ Apply(x, m).vec = x.vec   BY <1>2, DeletePlain
  <2> QED BY <2>1 DEF RowsIn
<1>3. CASE m.type = "update" /\ Named(m) \subseteq 1 .. Len(x.vec)
  <2>1. /\ Plain(Apply(x, m)) /\ Len(Apply(x, m).vec) = Len(x.vec)
        /\ \A r \in 1 .. Len(x.vec) :
             Apply(x, m).vec[r] = IF r \in Named(m) THEN Rewritten(m, r) ELSE x.vec[r]
    BY <1>3, UpdatePlain
  <2>2. ASSUME NEW r \in 1 .. Len(x.vec)
        PROVE  <<<<r, 0>>, Apply(x, m).vec[r]>> \in G
    <3>1. CASE r \in Named(m)   BY <3>1, <2>1, <1>3 DEF RecordIn
    <3>2. CASE r \notin Named(m)   BY <3>2, <2>1 DEF RowsIn
    <3> QED BY <3>1, <3>2
  <2> QED BY <2>1, <2>2 DEF RowsIn
<1>4. CASE m.type = "insertNoIds"
  <2>1. Plain(Apply(x, m)) /\ Joins(Apply(x, m).vec, x.vec, m.vecs)   BY <1>4, InsertPlain
  <2>2. m.rows = Len(x.vec)   BY <1>4 DEF Applies
  <2> DEFINE v == Apply(x, m).vec
  <2>3. ASSUME NEW r \in 1 .. Len(v)
        PROVE  <<<<r, 0>>, v[r]>> \in G
    <3>1. \/ r \in 1 .. Len(x.vec) /\ v[r] = x.vec[r]
          \/ r - Len(x.vec) \in 1 .. Len(m.vecs) /\ v[r] = m.vecs[r - Len(x.vec)]
      BY <2>1 DEF Joins
    <3> HIDE DEF v
    <3>2. CASE r \in 1 .. Len(x.vec) /\ v[r] = x.vec[r]   BY <3>2 DEF RowsIn
    <3>3. CASE r - Len(x.vec) \in 1 .. Len(m.vecs) /\ v[r] = m.vecs[r - Len(x.vec)]
      <4> DEFINE k == r - Len(x.vec)
      <4>1. k \in 1 .. Len(m.vecs) /\ v[r] = m.vecs[k]   BY <3>3
      <4>2. m.rows + k = r   BY <2>2, <1>0, <2>1 DEF Joins
      <4> HIDE DEF k
      <4>3. <<<<m.rows + k, 0>>, m.vecs[k]>> \in G   BY <4>1, <1>4 DEF RecordIn
      <4> QED BY <4>1, <4>2, <4>3
    <3> QED BY <3>1, <3>2, <3>3
  <2> QED BY <2>1, <2>3 DEF RowsIn
<1> QED BY <1>1, <1>2, <1>3, <1>4 DEF PlainRecord

\* A record that takes effect in memory leaves its vectors there.
LEMMA RecordTaken ==
  ASSUME NEW x, NEW m, Plain(x), PlainRecord(m), Applies(x, m),
         m.type # "insertNoIds" => Named(m) \subseteq 1 .. Len(x.vec)
  PROVE  Plain(Apply(x, m)) /\ RecordIn(m, Content(Apply(x, m)))
<1> DEFINE y == Apply(x, m)
<1>0. Len(x.vec) \in Nat /\ x.dead \subseteq 1 .. Len(x.vec)   BY DEF Plain, IsASeq
<1>1. CASE m.type = "delete"   BY <1>1, DeletePlain DEF RecordIn
<1>2. CASE m.type = "update"
  <2>1. /\ Plain(y) /\ Len(y.vec) = Len(x.vec) /\ y.dead = x.dead \ Named(m)
        /\ \A r \in 1 .. Len(x.vec) :
             y.vec[r] = IF r \in Named(m) THEN Rewritten(m, r) ELSE x.vec[r]
    BY <1>2, UpdatePlain
  <2> HIDE DEF y
  <2>2. \A r \in Named(m) : r \in 1 .. Len(y.vec) /\ r \notin y.dead /\ y.vec[r] = Rewritten(m, r)
    BY <2>1, <1>2
  <2>3. \A r \in Named(m) : <<<<r, 0>>, y.vec[r]>> \in Content(y)   BY <2>1, <2>2, PlainContent
  <2>4. RecordIn(m, Content(y))   BY <2>2, <2>3, <1>2 DEF RecordIn
  <2> QED BY <2>1, <2>4 DEF y
<1>3. CASE m.type = "insertNoIds"
  <2>1. Plain(y) /\ Joins(y.vec, x.vec, m.vecs) /\ y.vec = x.vec \o m.vecs /\ y.dead = x.dead
    BY <1>3, InsertPlain
  <2>2. m.rows = Len(x.vec) /\ IsASeq(m.vecs) /\ IsASeq(x.vec)
    BY <1>3 DEF Applies, PlainRecord, Plain
  <2> HIDE DEF y
  <2>4. ASSUME NEW k \in 1 .. Len(m.vecs)
        PROVE  <<<<m.rows + k, 0>>, m.vecs[k]>> \in Content(y)
    <3> DEFINE n == Len(x.vec)
               l == Len(m.vecs)
    <3>3. n \in Nat /\ l \in Nat /\ Len(y.vec) = n + l /\ m.rows = n /\ k \in 1 .. l
          /\ y.dead \subseteq 1 .. n
      BY <1>0, <2>1, <2>2 DEF Joins
    <3> HIDE DEF n, l
    <3>1. m.rows + k \in 1 .. Len(y.vec) /\ m.rows + k \notin y.dead
      BY <3>3
    <3>2. y.vec[m.rows + k] = m.vecs[k]
      <4> DEFINE r == m.rows + k
      <4>1. r \in 1 .. Len(y.vec) /\ r \notin 1 .. Len(x.vec) /\ r - Len(x.vec) = k
        BY <3>1, <3>3 DEF n
      <4> HIDE DEF r
      <4>2. y.vec[r] = m.vecs[r - Len(x.vec)]   BY <4>1, <2>1 DEF Joins
      <4> QED BY <4>1, <4>2 DEF r
    <3> QED BY <3>1, <3>2, <2>1, PlainContent
  <2>5. RecordIn(m, Content(y))   BY <2>4, <1>3 DEF RecordIn
  <2> QED BY <2>1, <2>5 DEF y
<1> QED BY <1>1, <1>2, <1>3 DEF PlainRecord

\* What a mutating call does, as a record.
Performed(m) ==
  /\ Made(ix, m)
  /\ pc = "idle" /\ pc' = "logging"
  /\ pend' = [rec |-> m, before |-> Content(ix)] /\ ix' = Apply(ix, m)
  /\ past' = past \cup {Content(ix')} /\ given' = given \cup Content(ix')
  /\ UNCHANGED <<disk, at, told, snapshots, crashes>>

LEMMA Requested ==
  ASSUME NEW S, NEW q \in Requests(S)
  PROVE  IsASeq(q) /\ Len(q) > 0 /\ DOMAIN q = 1 .. Len(q) /\ \A k \in DOMAIN q : q[k] \in S
<1>1. PICK n \in 1 .. Batch : q \in [1 .. n -> S]   BY DEF Requests
<1>2. n \in Nat /\ n > 0 /\ q = [k \in 1 .. n |-> q[k]]   BY <1>1, CagraWalAssumption
<1>3. IsASeq(q) /\ Len(q) = n   BY <1>2, FromFunction
<1> QED BY <1>1, <1>2, <1>3

LEMMA MutateIs ==
  ASSUME Delete \/ Update \/ Insert, ~setting.reuse => Plain(ix)
  PROVE  \E m : Performed(m)
<1> DEFINE Rec(type, ids, vecs) ==
             [type |-> type, rows |-> Len(ix.vec), deleted |-> Cardinality(ix.dead),
              ids |-> ids, vecs |-> vecs]
<1>1. ASSUME NEW type, NEW ids, NEW vecs, Mutate(type, ids, vecs), Made(ix, Rec(type, ids, vecs))
      PROVE  \E m : Performed(m)
  <2>1. Performed(Rec(type, ids, vecs))   BY <1>1 DEF Performed, Mutate
  <2> QED BY <2>1
<1>2. ASSUME NEW type \in {"delete", "update"}, NEW ids \in Requests(Resolvable), NEW vecs
      PROVE  Made(ix, Rec(type, ids, vecs))
  <2> DEFINE m == Rec(type, ids, vecs)
  <2>1. m.type = type /\ m.ids = ids   OBVIOUS
  <2>2. m # Torn /\ Applies(ix, m)   BY <2>1 DEF Torn, Applies
  <2> HIDE DEF m
  <2>3. ASSUME Plain(ix)
        PROVE  PlainRecord(m) /\ Named(m) \subseteq 1 .. Len(ix.vec)
    <3>1. DOMAIN ix.vec = 1 .. Len(ix.vec) /\ \A r \in 1 .. Len(ix.vec) : ix.gen[r] = 0
      BY <2>3 DEF Plain, IsASeq
    <3>2. \A k \in DOMAIN ids : ids[k] \in Resolvable   BY Requested
    <3>3. \A k \in DOMAIN ids : ids[k] = <<ids[k][1], 0>> /\ ids[k][1] \in 1 .. Len(ix.vec)
      BY <3>1, <3>2 DEF Resolvable, Pack
    <3> QED BY <3>3, <2>1 DEF PlainRecord, Named
  <2>4. Made(ix, m)   BY <2>1, <2>2, <2>3 DEF Made
  <2> QED BY <2>4 DEF m
<1>3. ASSUME NEW vecs \in Requests(Vec),
             NEW type, type = IF setting.reuse THEN "insert" ELSE "insertNoIds"
      PROVE  Made(ix, Rec(type, <<>>, vecs))
  <2> DEFINE m == Rec(type, <<>>, vecs)
  <2>1. m.type = type /\ m.ids = <<>> /\ m.vecs = vecs /\ m.rows = Len(ix.vec)
        /\ m.deleted = Cardinality(ix.dead)
    OBVIOUS
  <2>2. m # Torn /\ Applies(ix, m)   BY <2>1, <1>3 DEF Torn, Applies
  <2> HIDE DEF m
  <2>3. ASSUME Plain(ix), ~setting.reuse
        PROVE  PlainRecord(m) /\ m.type = "insertNoIds"
    <3>1. IsASeq(vecs) /\ Len(vecs) > 0   BY Requested
    <3>2. Len(ix.vec) \in Nat   BY <2>3 DEF Plain, IsASeq
    <3> QED BY <3>1, <3>2, <2>1, <2>3, <1>3 DEF PlainRecord
  <2>4. Made(ix, m)   BY <2>1, <2>2, <2>3 DEF Made
  <2> QED BY <2>4 DEF m
<1> HIDE DEF Rec
<1>4. CASE Delete
  <2>1. PICK ids \in Requests(Resolvable) : Mutate("delete", ids, <<>>)   BY <1>4 DEF Delete
  <2> QED BY <2>1, <1>1, <1>2
<1>5. CASE Update
  <2>1. PICK ids \in Requests(Resolvable) : \E vecs \in [DOMAIN ids -> Vec] :
          Mutate("update", ids, vecs)
    BY <1>5 DEF Update
  <2>2. PICK vecs \in [DOMAIN ids -> Vec] : Mutate("update", ids, vecs)   BY <2>1
  <2> QED BY <2>2, <1>1, <1>2
<1>6. CASE Insert
  <2>1. PICK vecs \in Requests(Vec) :
          Mutate(IF setting.reuse THEN "insert" ELSE "insertNoIds", <<>>, vecs)
    BY <1>6 DEF Insert
  <2> DEFINE type == IF setting.reuse THEN "insert" ELSE "insertNoIds"
  <2>2. Made(ix, Rec(type, <<>>, vecs))   BY <1>3
  <2> QED BY <2>1, <2>2, <1>1
<1> QED BY <1>4, <1>5, <1>6

LEMMA GivenInit == Init /\ ~setting.reuse => GivenInv
<1> SUFFICES ASSUME Init, ~setting.reuse PROVE GivenInv
  OBVIOUS
<1>1. PICK v \in [1 .. InitRows -> Vec] :
        snapshot = [vec |-> v, gen |-> [r \in 1 .. InitRows |-> 0], dead |-> {}]
  BY DEF Init
<1>2. ix = Load(snapshot) /\ oldSnapshot = snapshot /\ given = Content(ix) /\ log = <<>> /\ pc = "idle"
  BY DEF Init
<1>3. IsASeq(v) /\ Len(v) = InitRows   BY FromFunction, CagraWalAssumption
<1>4. Plain(ix) /\ ix.dead = {} /\ ix.vec = v /\ snapshot.vec = v
  BY <1>1, <1>2, <1>3 DEF Plain, Load
<1>5. RowsIn(ix, given) /\ RowsIn(snapshot, given)   BY <1>2, <1>4, PlainContent DEF RowsIn
<1>6. Len(log) = 0   BY <1>2, EmptyIs
<1> QED BY <1>2, <1>4, <1>5, <1>6 DEF GivenInv

LEMMA GivenMutate ==
  ASSUME GivenInv, ~setting.reuse, setting' = setting, Delete \/ Update \/ Insert
  PROVE  GivenInv'
<1>1. PICK m : Performed(m)   BY MutateIs DEF GivenInv
<1>2. /\ Plain(ix) /\ PlainRecord(m) /\ Applies(ix, m)
      /\ m.type # "insertNoIds" => Named(m) \subseteq 1 .. Len(ix.vec)
  BY <1>1 DEF GivenInv, Performed, Made
<1>3. /\ ix' = Apply(ix, m) /\ pend'.rec = m /\ given' = given \cup Content(ix')
      /\ log' = log /\ snapshot' = snapshot /\ oldSnapshot' = oldSnapshot
  BY <1>1 DEF Performed, disk
<1>4. Plain(ix') /\ RecordIn(m, Content(ix'))   BY <1>2, <1>3, RecordTaken
<1>5. RecordIn(m, given')   BY <1>3, <1>4, RecordMore
<1>6. RowsIn(ix, given') /\ RowsIn(snapshot, given') /\ RowsIn(oldSnapshot, given')
  BY <1>3, RowsMore DEF GivenInv
<1>7. RowsIn(ix', given')   BY <1>2, <1>3, <1>5, <1>6, ApplyIn
<1>8. \A k \in 1 .. Len(log) :
        log[k] = Torn \/ (PlainRecord(log[k]) /\ RecordIn(log[k], given'))
  BY <1>3, RecordMore DEF GivenInv
<1> QED BY <1>2, <1>3, <1>4, <1>5, <1>6, <1>7, <1>8 DEF GivenInv

\* Whatever part of the log stays, its records are as they were.
LEMMA GivenLog ==
  ASSUME GivenInv, given' = given, ix' = ix, snapshot' = snapshot, oldSnapshot' = oldSnapshot,
         pc' # "logging",
         \A k \in 1 .. Len(log') : \/ log'[k] = Torn
                                   \/ k \in 1 .. Len(log) /\ log'[k] = log[k]
                                   \/ pc = "logging" /\ log'[k] = pend.rec
  PROVE  GivenInv'
BY DEF GivenInv

LEMMA GivenAppend ==
  ASSUME RunInv, GivenInv, AppendRecord \/ WriteFails \/ FlushFails
  PROVE  GivenInv'
<1>1. PICK e \in {pend.rec, Torn} : log' \in {log, Append(log, e)}
  BY DEF AppendRecord, WriteFails, FlushFails
<1>2. /\ given' = given /\ ix' = ix /\ snapshot' = snapshot /\ oldSnapshot' = oldSnapshot
      /\ pc = "logging" /\ pc' = "idle"
  BY DEF AppendRecord, WriteFails, FlushFails, Returned
<1>3. IsASeq(log) /\ Len(log) \in Nat   BY DEF RunInv, IsASeq
<1>4. \A k \in 1 .. Len(log') : \/ log'[k] = Torn
                                \/ k \in 1 .. Len(log) /\ log'[k] = log[k]
                                \/ pc = "logging" /\ log'[k] = pend.rec
  <2>1. CASE log' = log   BY <2>1
  <2>2. CASE log' = Append(log, e)
    <3>1. Extends(log', log, e)   BY <2>2, <1>3, Appended
    <3>2. \A k \in 1 .. Len(log') : k \in 1 .. Len(log) \/ k = Len(log) + 1
      BY <3>1, <1>3 DEF Extends
    <3> QED BY <3>1, <3>2, <1>1, <1>2 DEF Extends
  <2> QED BY <2>1, <2>2, <1>1
<1> QED BY <1>2, <1>4, GivenLog

LEMMA GivenSnapshot ==
  ASSUME GivenInv, WriteSnapshot
  PROVE  GivenInv'
<1>1. /\ given' = given /\ ix' = ix /\ snapshot' = Image(ix) /\ oldSnapshot' = snapshot
      /\ log' = log /\ pc' = "truncating"
  BY DEF WriteSnapshot
<1>2. Plain(Load(snapshot')) /\ RowsIn(snapshot', given)
  BY <1>1 DEF GivenInv, Plain, Load, Image, RowsIn
<1> QED BY <1>1, <1>2 DEF GivenInv

LEMMA GivenTruncate ==
  ASSUME GivenInv, Truncate \/ TruncateFails
  PROVE  GivenInv'
<1>1. /\ given' = given /\ ix' = ix /\ snapshot' = snapshot /\ oldSnapshot' = oldSnapshot
      /\ pc' = "idle" /\ (log' = log \/ log' = <<>>)
  BY DEF Truncate, TruncateFails, Returned
<1>2. Len(<<>>) = 0   BY EmptyIs
<1>3. \A k \in 1 .. Len(log') : k \in 1 .. Len(log) /\ log'[k] = log[k]   BY <1>1, <1>2
<1> QED BY <1>1, <1>3, GivenLog

LEMMA GivenStop ==
  ASSUME RunInv, GivenInv, ProcessCrash \/ PowerCut
  PROVE  GivenInv'
<1>1. /\ given' = given /\ ix' = Down /\ pc' = "down"
      /\ snapshot' \in {snapshot, oldSnapshot} /\ oldSnapshot' \in {snapshot, oldSnapshot}
  BY DEF ProcessCrash, PowerCut, Stop
<1>2. Plain(Down) /\ RowsIn(Down, given)
  <2>1. IsASeq(<<>>) /\ Len(<<>>) = 0   BY EmptyIs
  <2> QED BY <2>1 DEF Plain, Down, RowsIn
<1>3. PICK n \in 0 .. Len(Full) : n >= synced /\ Left(log', n)   BY StopLeaves
<1>4. \A k \in 1 .. Len(log') :
        log'[k] = Torn \/ (PlainRecord(log'[k]) /\ RecordIn(log'[k], given))
  <2> SUFFICES ASSUME NEW k \in 1 .. Len(log'), log'[k] # Torn
               PROVE  PlainRecord(log'[k]) /\ RecordIn(log'[k], given)
    OBVIOUS
  <2>1. k \in 1 .. n /\ k \in 1 .. Len(Full) /\ log'[k] = Full[k]
    <3>1. n \in Nat /\ n <= Len(Full) /\ Len(Full) \in Nat   BY <1>3, FullIs
    <3>2. Len(log') = n \/ (Len(log') = n + 1 /\ log'[n + 1] = Torn)   BY <1>3 DEF Left
    <3>3. k \in 1 .. n   BY <3>1, <3>2
    <3>4. \A i \in 1 .. n : log'[i] = Full[i]   BY <1>3 DEF Left
    <3> QED BY <3>1, <3>3, <3>4
  <2>2. \/ k \in 1 .. Len(log) /\ Full[k] = log[k]
        \/ pc = "logging" /\ Full[k] = pend.rec
    <3>1. Len(log) \in Nat /\ \A i \in 1 .. Len(log) : Full[i] = log[i]   BY FullIs
    <3>2. CASE Full = log   BY <2>1, <3>2
    <3>3. CASE Len(Full) = Len(log) + 1 /\ Full[Len(log) + 1] = pend.rec /\ pc = "logging"
      <4>1. k \in 1 .. Len(log) \/ k = Len(log) + 1   BY <2>1, <3>1, <3>3
      <4> QED BY <4>1, <3>1, <3>3
    <3> QED BY <3>2, <3>3, FullIs
  <2> QED BY <2>1, <2>2 DEF GivenInv
<1> QED BY <1>1, <1>2, <1>4 DEF GivenInv

LEMMA GivenClose ==
  ASSUME GivenInv, Close
  PROVE  GivenInv'
<1>1. /\ given' = given /\ ix' = Down /\ pc' = "down" /\ log' = log
      /\ snapshot' = snapshot /\ oldSnapshot' = oldSnapshot
  BY DEF Close, Stop
<1>2. Plain(Down) /\ RowsIn(Down, given)
  <2>1. IsASeq(<<>>) /\ Len(<<>>) = 0   BY EmptyIs
  <2> QED BY <2>1 DEF Plain, Down, RowsIn
<1> QED BY <1>1, <1>2 DEF GivenInv

LEMMA GivenOpen ==
  ASSUME GivenInv, OpenLog
  PROVE  GivenInv'
<1>1. /\ given' = given /\ ix' = Load(snapshot) /\ pc' = "replaying"
      /\ snapshot' = snapshot /\ oldSnapshot' = oldSnapshot /\ log' = log
  BY DEF OpenLog, disk
<1>2. RowsIn(ix', given)   BY <1>1 DEF GivenInv, RowsIn, Load
<1> QED BY <1>1, <1>2 DEF GivenInv

LEMMA GivenReplay ==
  ASSUME RunInv, GivenInv, ReplayRecord
  PROVE  GivenInv'
<1>1. /\ given' = given /\ ix' \in {Replayed(ix, log[at]), ix} /\ pc' = "replaying"
      /\ snapshot' = snapshot /\ oldSnapshot' = oldSnapshot /\ log' = log
      /\ at \in DOMAIN log /\ log[at] # Torn
  BY DEF ReplayRecord, disk, AtEnd
<1>2. at \in 1 .. Len(log)   BY <1>1 DEF RunInv, IsASeq
<1>3. PlainRecord(log[at]) /\ RecordIn(log[at], given)   BY <1>1, <1>2 DEF GivenInv
<1>4. Plain(ix') /\ RowsIn(ix', given)   BY <1>1, <1>3, ApplyIn DEF GivenInv, Replayed
<1> QED BY <1>1, <1>4 DEF GivenInv

LEMMA GivenCut ==
  ASSUME RunInv, GivenInv, CutTail
  PROVE  GivenInv'
<1>1. /\ given' = given /\ ix' = ix /\ snapshot' = snapshot /\ oldSnapshot' = oldSnapshot
      /\ pc' = "idle" /\ log' = SubSeq(log, 1, Good)
  BY DEF CutTail
<1>2. IsASeq(log) /\ Len(log) \in Nat /\ Good \in 0 .. Len(log)   BY DEF RunInv, IsASeq, Good
<1>3. Begins(log', log, Good)   BY <1>1, <1>2, CutOff
<1>4. \A k \in 1 .. Len(log') : k \in 1 .. Len(log) /\ log'[k] = log[k]
  BY <1>2, <1>3 DEF Begins
<1> QED BY <1>1, <1>4, GivenLog

LEMMA GivenStep ==
  ASSUME RunInv, GivenInv, ~setting.reuse, [Next]_vars
  PROVE  GivenInv'
<1>1. CASE UNCHANGED vars   BY <1>1 DEF GivenInv, RowsIn, RecordIn, vars, disk
<1>2. CASE Next
  BY <1>2, GivenMutate, GivenAppend, GivenSnapshot, GivenTruncate, GivenStop, GivenClose,
     GivenOpen, GivenReplay, GivenCut DEF Next
<1> QED BY <1>1, <1>2

LEMMA GivenSafe ==
  ASSUME GivenInv
  PROVE  NothingEverInvented
BY PlainContent DEF GivenInv, RowsIn, NothingEverInvented

-----------------------------------------------------------------------------
(* The chain.                                                              *)

\* What one record leaves alone.
LEMMA StepKeeps ==
  ASSUME NEW x, NEW m, NEW y, ~setting.reuse, Plain(x), Plain(y), Made(x, m), Same(y, Apply(x, m)),
         NEW l, NEW k, l[k] = m, k \in Nat
  PROVE  Kept(x, y, l, k, k + 1)
<1>1. PlainRecord(m) /\ (m.type # "insertNoIds" => Named(m) \subseteq 1 .. Len(x.vec))
  BY DEF Made
<1>2. y.vec = Apply(x, m).vec /\ y.dead = Apply(x, m).dead   BY SameIs
<1>3. Len(x.vec) \in Nat /\ k \in k .. k + 1 - 1   BY DEF Plain, IsASeq
<1>4. \A r : (\A i \in k .. k + 1 - 1 : r \notin Updated(l[i])) => r \notin Updated(m)   BY <1>3
<1>5. \A r : (\A i \in k .. k + 1 - 1 : r \notin Named(l[i])) => r \notin Named(m)   BY <1>3
<1> SUFFICES /\ Len(x.vec) <= Len(y.vec)
             /\ \A r \in 1 .. Len(x.vec) :
                  /\ r \notin Updated(m) => y.vec[r] = x.vec[r]
                  /\ r \notin Named(m) => (r \in y.dead <=> r \in x.dead)
  BY <1>4, <1>5 DEF Kept
<1>6. CASE m.type = "delete"   BY <1>1, <1>2, <1>3, <1>6, DeletePlain
<1>7. CASE m.type = "update"
  <2>1. /\ Len(Apply(x, m).vec) = Len(x.vec) /\ Apply(x, m).dead = x.dead \ Named(m)
        /\ \A r \in 1 .. Len(x.vec) :
             Apply(x, m).vec[r] = IF r \in Named(m) THEN Rewritten(m, r) ELSE x.vec[r]
    BY <1>1, <1>7, UpdatePlain
  <2>2. Updated(m) = Named(m)   BY <1>7 DEF Updated
  <2>3. \A r \in 1 .. Len(x.vec) : r \notin Named(m) => y.vec[r] = x.vec[r]   BY <2>1, <1>2
  <2>4. y.dead = x.dead \ Named(m) /\ Len(y.vec) = Len(x.vec)   BY <2>1, <1>2
  <2> QED BY <2>2, <2>3, <2>4, <1>3
<1>8. CASE m.type = "insertNoIds"
  <2>1. Joins(Apply(x, m).vec, x.vec, m.vecs) /\ Apply(x, m).dead = x.dead
    BY <1>1, <1>8, InsertPlain
  <2>2. Joins(y.vec, x.vec, m.vecs) /\ y.dead = x.dead   BY <2>1, <1>2
  <2>3. Len(x.vec) <= Len(y.vec)
    <3>1. Len(x.vec) \in Nat /\ Len(m.vecs) \in Nat /\ Len(y.vec) = Len(x.vec) + Len(m.vecs)
      BY <2>2 DEF Joins
    <3>2. \A a, c \in Nat : a <= a + c   OBVIOUS
    <3> QED BY <3>1, <3>2, Zenon
  <2>4. \A r \in 1 .. Len(x.vec) : y.vec[r] = x.vec[r]   BY <2>2 DEF Joins
  <2>5. y.dead = x.dead   BY <2>2
  <2> QED BY <2>3, <2>4, <2>5
<1> QED BY <1>1, <1>6, <1>7, <1>8 DEF PlainRecord

LEMMA KeptHere ==
  ASSUME NEW x, Plain(x), NEW l, NEW k
  PROVE  Kept(x, x, l, k, k)
BY DEF Kept, Plain, IsASeq

LEMMA KeptOn ==
  ASSUME NEW x, NEW y, NEW z, Plain(x), Plain(y), Plain(z),
         NEW l, NEW k \in Nat, NEW j \in Nat, k <= j, Kept(x, y, l, k, j), Kept(y, z, l, j, j + 1)
  PROVE  Kept(x, z, l, k, j + 1)
<1> DEFINE before == k .. j - 1
           all == k .. j + 1 - 1
           this == j .. j + 1 - 1
<1>1. before \subseteq all /\ this \subseteq all   OBVIOUS
<1>2. Len(x.vec) \in Nat /\ Len(y.vec) \in Nat /\ Len(z.vec) \in Nat   BY DEF Plain, IsASeq
<1>3. /\ Len(x.vec) <= Len(y.vec)
      /\ \A r \in 1 .. Len(x.vec) :
           /\ (\A i \in before : r \notin Updated(l[i])) => y.vec[r] = x.vec[r]
           /\ (\A i \in before : r \notin Named(l[i])) => (r \in y.dead <=> r \in x.dead)
  BY DEF Kept
<1>4. /\ Len(y.vec) <= Len(z.vec)
      /\ \A r \in 1 .. Len(y.vec) :
           /\ (\A i \in this : r \notin Updated(l[i])) => z.vec[r] = y.vec[r]
           /\ (\A i \in this : r \notin Named(l[i])) => (r \in z.dead <=> r \in y.dead)
  BY DEF Kept
<1>5. Len(x.vec) <= Len(z.vec)   BY <1>2, <1>3, <1>4
<1>6. \A r \in 1 .. Len(x.vec) : r \in 1 .. Len(y.vec)   BY <1>2, <1>3
<1> HIDE DEF before, this
<1>7. ASSUME NEW r \in 1 .. Len(x.vec), \A i \in all : r \notin Updated(l[i])
      PROVE  z.vec[r] = x.vec[r]
  BY <1>1, <1>3, <1>4, <1>6, <1>7
<1>8. ASSUME NEW r \in 1 .. Len(x.vec), \A i \in all : r \notin Named(l[i])
      PROVE  r \in z.dead <=> r \in x.dead
  BY <1>1, <1>3, <1>4, <1>6, <1>8
<1> QED BY <1>5, <1>7, <1>8 DEF Kept

\* Only the records in between count.
LEMMA KeptBetween ==
  ASSUME NEW x, NEW y, NEW k, NEW j, NEW l, Kept(x, y, l, k, j),
         NEW q, \A i \in k .. j - 1 : q[i] = l[i]
  PROVE  Kept(x, y, q, k, j)
BY DEF Kept

\* Part of a chain is a chain.
LEMMA LinksFewer ==
  ASSUME NEW was, NEW l, NEW g \in Nat, Links(was, l, g), NEW h \in 0 .. g,
         NEW q, \A i \in 1 .. h : q[i] = l[i]
  PROVE  Links(was, q, h)
<1>1. h \in Nat /\ 1 .. h \subseteq 1 .. g /\ 1 .. h + 1 \subseteq 1 .. g + 1   OBVIOUS
<1>2. \A k \in 1 .. h : Made(was[k], q[k]) /\ Same(was[k + 1], Apply(was[k], q[k]))
  BY <1>1 DEF Links
<1>3. ASSUME ~setting.reuse, NEW k \in 1 .. h + 1
      PROVE  Plain(was[k])
  BY <1>1, <1>3 DEF Links
<1>4. ASSUME ~setting.reuse, NEW k \in 1 .. h + 1, NEW j \in k .. h + 1
      PROVE  Kept(was[k], was[j], q, k, j)
  <2>1. k \in 1 .. g + 1 /\ j \in k .. g + 1   BY <1>1
  <2>2. Kept(was[k], was[j], l, k, j)   BY <2>1, <1>4 DEF Links
  <2>3. k .. j - 1 \subseteq 1 .. h   BY <1>1
  <2>4. \A i \in k .. j - 1 : q[i] = l[i]   BY <2>3
  <2> QED BY <2>2, <2>4, KeptBetween
<1> QED BY <1>2, <1>3, <1>4 DEF Links

\* One more record.
Longer(w, was, g, y) == (\A k \in 1 .. g + 1 : w[k] = was[k]) /\ w[g + 2] = y

LEMMA LongerIs ==
  ASSUME NEW was, NEW g \in Nat, NEW y
  PROVE  \E w : Longer(w, was, g, y)
<1> DEFINE w == [k \in 1 .. g + 2 |-> IF k = g + 2 THEN y ELSE was[k]]
<1>1. \A k \in 1 .. g + 1 : k \in 1 .. g + 2 /\ k # g + 2   OBVIOUS
<1>2. g + 2 \in 1 .. g + 2   OBVIOUS
<1>3. Longer(w, was, g, y)   BY <1>1, <1>2 DEF Longer
<1> QED BY <1>3

LEMMA LinksMore ==
  ASSUME NEW was, NEW l, NEW g \in Nat, Links(was, l, g),
         NEW m, NEW y, Made(was[g + 1], m), Same(y, Apply(was[g + 1], m)),
         ~setting.reuse => Plain(y),
         NEW q, \A i \in 1 .. g : q[i] = l[i], q[g + 1] = m,
         NEW w, Longer(w, was, g, y)
  PROVE  Links(w, q, g + 1)
<1>1. Links(was, q, g)   BY LinksFewer
<1>2. /\ \A k \in 1 .. g : k \in 1 .. g + 1 /\ k + 1 \in 1 .. g + 1
      /\ \A k \in 1 .. g + 1 : w[k] = was[k]
      /\ w[g + 2] = y /\ g + 1 \in 1 .. g + 1 /\ g + 1 + 1 = g + 2
  BY DEF Longer
<1>3. ASSUME NEW k \in 1 .. g + 1
      PROVE  Made(w[k], q[k]) /\ Same(w[k + 1], Apply(w[k], q[k]))
  <2>1. CASE k \in 1 .. g
    <3>1. Made(was[k], q[k]) /\ Same(was[k + 1], Apply(was[k], q[k]))   BY <1>1, <2>1 DEF Links
    <3>2. w[k] = was[k] /\ w[k + 1] = was[k + 1]   BY <1>2, <2>1
    <3> QED BY <3>1, <3>2
  <2>2. CASE k = g + 1
    <3>1. w[k] = was[g + 1] /\ w[k + 1] = y /\ q[k] = m   BY <1>2, <2>2
    <3> QED BY <3>1
  <2>3. k \in 1 .. g \/ k = g + 1   OBVIOUS
  <2> QED BY <2>1, <2>2, <2>3
<1>4. ASSUME ~setting.reuse, NEW k \in 1 .. g + 1 + 1
      PROVE  Plain(w[k])
  <2>1. k \in 1 .. g + 1 \/ k = g + 2   OBVIOUS
  <2>2. \A i \in 1 .. g + 1 : Plain(was[i])   BY <1>1, <1>4 DEF Links
  <2> QED BY <2>1, <2>2, <1>2, <1>4
<1>5. ASSUME ~setting.reuse, NEW k \in 1 .. g + 1 + 1, NEW j \in k .. g + 1 + 1
      PROVE  Kept(w[k], w[j], q, k, j)
  <2>1. CASE j \in k .. g + 1
    <3>1. k \in 1 .. g + 1 /\ j \in 1 .. g + 1   BY <2>1
    <3>2. Kept(was[k], was[j], q, k, j)   BY <3>1, <2>1, <1>1, <1>5 DEF Links
    <3> QED BY <3>1, <3>2, <1>2
  <2>2. CASE k = g + 2 /\ j = g + 2   BY <2>2, <1>4, <1>5, KeptHere
  <2>3. CASE k \in 1 .. g + 1 /\ j = g + 2
    <3>1. g + 1 \in k .. g + 1 /\ k <= g + 1 /\ k \in Nat /\ g + 1 \in Nat   BY <2>3
    <3>2. Kept(was[k], was[g + 1], q, k, g + 1)   BY <3>1, <2>3, <1>1, <1>5 DEF Links
    <3>3. w[k] = was[k] /\ w[g + 1] = was[g + 1] /\ w[j] = y   BY <2>3, <1>2
    <3>4. Plain(w[k]) /\ Plain(w[g + 1]) /\ Plain(y)
      <4>1. k \in 1 .. g + 1 + 1 /\ g + 1 \in 1 .. g + 1 + 1   OBVIOUS
      <4> QED BY <4>1, <1>4, <1>5
    <3>5. Kept(was[g + 1], y, q, g + 1, g + 1 + 1)   BY <3>1, <3>3, <3>4, <1>5, StepKeeps
    <3>6. Kept(was[k], y, q, k, g + 1 + 1)   BY <3>1, <3>2, <3>3, <3>4, <3>5, KeptOn
    <3> QED BY <3>3, <3>6, <2>3, <1>2
  <2>4. j \in k .. g + 1 \/ (k = g + 2 /\ j = g + 2) \/ (k \in 1 .. g + 1 /\ j = g + 2)
    OBVIOUS
  <2> QED BY <2>1, <2>2, <2>3, <2>4
<1> QED BY <1>3, <1>4, <1>5 DEF Links

-----------------------------------------------------------------------------
(* Each step keeps the chain.                                              *)

Sound == RunInv /\ (~setting.reuse => GivenInv) /\ Trusted

\* Snapshots are trusted where nothing else happens, and no row is reused.
LEMMA TrustIs ==
  ASSUME Sound
  PROVE  /\ setting.faults \subseteq {"power"} /\ setting.snapshots \in Nat
         /\ setting.snapshots # 0 => setting.faults = {} /\ ~setting.reuse
BY SettingIs DEF Sound, RunInv, Trusted

LEMMA GoodOf ==
  ASSUME NEW l, NEW n \in Nat, Len(l) = n \/ (Len(l) = n + 1 /\ l[n + 1] = Torn),
         n > 0 => l[n] # Torn
  PROVE  GoodLen(l) = n
BY DEF GoodLen

LEMMA GoodIs ==
  ASSUME NEW l, IsASeq(l)
  PROVE  /\ GoodLen(l) \in Nat /\ GoodLen(l) <= Len(l) /\ Len(l) \in Nat
         /\ Len(l) = GoodLen(l) \/ (Len(l) = GoodLen(l) + 1 /\ l[GoodLen(l) + 1] = Torn)
<1>1. Len(l) \in Nat   BY DEF IsASeq
<1>2. CASE Len(l) > 0 /\ l[Len(l)] = Torn
  <2>1. GoodLen(l) = Len(l) - 1   BY <1>2 DEF GoodLen
  <2>2. GoodLen(l) \in Nat /\ GoodLen(l) + 1 = Len(l)   BY <1>1, <1>2, <2>1
  <2> QED BY <1>1, <1>2, <2>2
<1>3. CASE ~(Len(l) > 0 /\ l[Len(l)] = Torn)   BY <1>1, <1>3 DEF GoodLen
<1> QED BY <1>2, <1>3

\* What a chain says, part by part.
ChainAt(was, b, g) ==
  /\ g \in Nat /\ g <= Len(log) /\ Len(log) \in Nat
  /\ Len(log) = g \/ (Len(log) = g + 1 /\ log[g + 1] = Torn)
  /\ b \in 1 .. g + 1
  /\ Links(was, log, g)
  /\ \A k \in 1 .. g : log[k] # Torn
  /\ ~setting.reuse => GivenInv /\ \A k \in 1 .. g + 1 : Plain(was[k])
  /\ Standing(was, b, g) /\ SnapshotOk(was, b, g) /\ PromisesOk(was, b, g)

LEMMA ChainIs ==
  ASSUME Sound, NEW was, NEW b, Chain(was, b)
  PROVE  \E g : g = GoodLen(log) /\ ChainAt(was, b, g)
<1> DEFINE g == GoodLen(log)
<1>1. /\ g \in Nat /\ g <= Len(log) /\ Len(log) \in Nat
      /\ Len(log) = g \/ (Len(log) = g + 1 /\ log[g + 1] = Torn)
  BY GoodIs DEF Sound, RunInv
<1>2. Links(was, log, g) /\ Standing(was, b, g) /\ SnapshotOk(was, b, g) /\ PromisesOk(was, b, g)
  BY DEF Chain
<1> HIDE DEF g
<1>3. \A k \in 1 .. g : log[k] # Torn   BY <1>2 DEF Links, Made
<1>4. ~setting.reuse => GivenInv /\ \A k \in 1 .. g + 1 : Plain(was[k])
  BY <1>2 DEF Links, Sound
<1>5. b \in 1 .. g + 1   BY <1>2 DEF SnapshotOk
<1>6. ChainAt(was, b, g)   BY <1>1, <1>2, <1>3, <1>4, <1>5 DEF ChainAt
<1> QED BY <1>6 DEF g

LEMMA ChainInit ==
  ASSUME Init, ~setting.reuse => GivenInv
  PROVE  \E was, b : Chain(was, b)
<1>1. PICK w : Longer(w, w, 0, ix) /\ w[1] = ix
  <2> DEFINE w == [k \in 1 .. 2 |-> ix]
  <2>1. \A k \in 1 .. 0 + 1 : w[k] = w[k]   OBVIOUS
  <2>2. w[0 + 2] = ix /\ w[1] = ix   OBVIOUS
  <2>3. Longer(w, w, 0, ix) /\ w[1] = ix   BY <2>1, <2>2 DEF Longer
  <2> QED BY <2>3
<1>2. /\ ix = Load(snapshot) /\ oldSnapshot = snapshot /\ log = <<>> /\ synced = 0
      /\ pc = "idle" /\ attached /\ at = 1
      /\ past = {Content(ix)} /\ owed = Content(ix) /\ gone = {} /\ given = Content(ix)
  BY DEF Init
<1>3. Len(log) = 0 /\ GoodLen(log) = 0   BY <1>2, EmptyIs DEF GoodLen
<1>4. Links(w, log, 0)
  <2>1. ~setting.reuse => Plain(w[1])   BY <1>1 DEF GivenInv
  <2>2. \A k \in 1 .. 0 + 1 : k = 1 /\ \A j \in k .. 0 + 1 : j = 1   OBVIOUS
  <2>3. ~setting.reuse => Kept(w[1], w[1], log, 1, 1)   BY <2>1, KeptHere
  <2>4. ~setting.reuse => \A k \in 1 .. 0 + 1 : Plain(w[k])   BY <2>1, <2>2
  <2>5. ~setting.reuse => \A k \in 1 .. 0 + 1 : \A j \in k .. 0 + 1 : Kept(w[k], w[j], log, k, j)
    BY <2>2, <2>3
  <2>6. \A k \in 1 .. 0 : FALSE   OBVIOUS
  <2> QED BY <2>4, <2>5, <2>6 DEF Links
<1>5. Same(ix, w[1])   BY <1>1, SameWay
<1>6. SnapshotOk(w, 1, 0)   BY <1>2, <1>5 DEF SnapshotOk
<1>7. Standing(w, 1, 0)   BY <1>2, <1>3, <1>5 DEF Standing
<1>8. PromisesOk(w, 1, 0)
  <2>1. \A k \in 1 .. 0 + 1 : w[k] = ix   BY <1>1
  <2>2. \A k \in Floor + 1 .. 0 + 1 : w[k] = ix   BY <1>1, <1>2, <1>3 DEF Floor
  <2> QED BY <1>2, <2>1, <2>2 DEF PromisesOk
<1>9. Chain(w, 1)   BY <1>3, <1>4, <1>6, <1>7, <1>8 DEF Chain
<1> QED BY <1>9

LEMMA ChainMutate ==
  ASSUME Sound, NEW was, NEW b, Chain(was, b), setting' = setting, Delete \/ Update \/ Insert
  PROVE  Chain(was, b)'
<1>1. PICK g : g = GoodLen(log) /\ ChainAt(was, b, g)   BY ChainIs
<1>2. PICK m : Performed(m)   BY MutateIs DEF Sound, GivenInv
<1>3. /\ log' = log /\ synced' = synced /\ attached' = attached
      /\ snapshot' = snapshot /\ oldSnapshot' = oldSnapshot /\ owed' = owed /\ gone' = gone
      /\ past' = past \cup {Content(ix')} /\ given' = given \cup Content(ix')
      /\ pc = "idle" /\ pc' = "logging" /\ pend' = [rec |-> m, before |-> Content(ix)]
      /\ ix' = Apply(ix, m) /\ Made(ix, m)
  BY <1>2 DEF Performed, disk, told
<1>4. g \in Nat /\ g + 1 \in 1 .. g + 1 /\ Same(ix, was[g + 1]) /\ attached /\ g = Len(log)
  BY <1>1, <1>3 DEF ChainAt, Standing
<1>5. ~setting.reuse => Plain(ix) /\ Plain(was[g + 1])
  BY <1>1, <1>4 DEF ChainAt, GivenInv
<1>6. Same(was[g + 1], ix)   BY <1>4, SameWay
<1>7. Made(was[g + 1], m)
  <2>1. ix.vec = was[g + 1].vec /\ (Applies(ix, m) <=> Applies(was[g + 1], m))
    BY <1>4, SameIs
  <2> QED BY <1>3, <2>1 DEF Made
<1>8. Same(ix', Apply(was[g + 1], m))   BY <1>3, <1>4, <1>5, SameApplied
<1>9. Content(ix) = Content(was[g + 1])   BY <1>4, SameIs
<1>10. Standing(was, b, g)'
  <2>1. Made(was[g + 1], m)'   BY <1>7 DEF Made
  <2>2. Same(ix, Apply(was[g + 1], m))'   BY <1>8 DEF Same
  <2> QED BY <1>3, <1>4, <1>9, <2>1, <2>2 DEF Standing
<1>11. SnapshotOk(was, b, g)'   BY <1>1, <1>3 DEF ChainAt, SnapshotOk, Same
<1>12. PromisesOk(was, b, g)'
  <2>1. Floor' = Floor   BY <1>3 DEF Floor
  <2>2. Durable' <=> Durable   BY DEF Durable, Trusted
  <2>3. PromisesOk(was, b, g)   BY <1>1 DEF ChainAt
  <2> HIDE DEF Floor
  <2> QED BY <2>1, <2>2, <2>3, <1>3 DEF PromisesOk
<1>13. Links(was, log, g)'
  <2>1. Links(was, log, g)   BY <1>1 DEF ChainAt
  <2> QED BY <2>1, <1>3 DEF Links, Made, Same
<1>14. GoodLen(log)' = g   BY <1>1, <1>3
<1> QED BY <1>10, <1>11, <1>12, <1>13, <1>14 DEF Chain

LEMMA LinksNext ==
  ASSUME setting' = setting, NEW was, NEW g, Links(was, log', g)
  PROVE  Links(was, log, g)'
BY DEF Links, Made, Same

\* An id names one row.
LEMMA OnePerId ==
  ASSUME NEW x, NEW p \in Content(x), NEW q \in Content(x), p[1] = q[1]
  PROVE  p = q
BY DEF Content, Pack

\* What callers are told of a call that returns is so in the index it leaves.
LEMMA Told ==
  ASSUME NEW x, pend.before = Content(x), owed \subseteq Content(x),
         gone \cap IdsOf(Content(x)) = {}, Acknowledge
  PROVE  owed' \subseteq Content(ix) /\ gone' \cap IdsOf(Content(ix)) = {}
<1>1. Lost = Content(x) \ Content(ix) /\ Gained = Content(ix) \ Content(x)
  BY DEF Lost, Gained
<1>2. owed' \subseteq Content(ix)   BY <1>1 DEF Acknowledge
<1>3. ASSUME NEW id \in IdsOf(Content(ix)), id \in gone' PROVE FALSE
  <2>1. PICK p \in Content(ix) : p[1] = id   BY <1>3 DEF IdsOf
  <2>2. id \in gone \cup IdsOf(Lost) /\ id \notin IdsOf(Gained)   BY <1>3 DEF Acknowledge
  <2>3. p \in Content(x)   BY <1>1, <2>1, <2>2 DEF IdsOf
  <2>4. id \notin gone   BY <2>1, <2>3 DEF IdsOf
  <2>5. PICK q \in Lost : q[1] = id   BY <2>2, <2>4 DEF IdsOf
  <2>6. p = q   BY <1>1, <2>1, <2>3, <2>5, OnePerId
  <2> QED BY <1>1, <2>1, <2>5, <2>6
<1> QED BY <1>2, <1>3

\* Nothing is promised of a call in doubt, neither in the index before nor after.
LEMMA Doubted ==
  ASSUME LeaveInDoubt
  PROVE  /\ owed' \subseteq owed /\ gone' \subseteq gone
         /\ \A x : /\ pend.before = Content(x) /\ owed \subseteq Content(x)
                   /\ gone \cap IdsOf(Content(x)) = {}
                   => owed' \subseteq Content(ix) /\ gone' \cap IdsOf(Content(ix)) = {}
<1>1. owed' \subseteq owed /\ gone' \subseteq gone   BY DEF LeaveInDoubt
<1>2. ASSUME NEW x, pend.before = Content(x), owed \subseteq Content(x),
             gone \cap IdsOf(Content(x)) = {}
      PROVE  owed' \subseteq Content(ix) /\ gone' \cap IdsOf(Content(ix)) = {}
  <2>1. Lost = Content(x) \ Content(ix) /\ Gained = Content(ix) \ Content(x)
    BY <1>2 DEF Lost, Gained
  <2>2. owed' \subseteq Content(ix)   BY <1>2, <2>1 DEF LeaveInDoubt
  <2>3. ASSUME NEW id \in IdsOf(Content(ix)), id \in gone' PROVE FALSE
    <3>1. PICK p \in Content(ix) : p[1] = id   BY <2>3 DEF IdsOf
    <3>2. id \in gone /\ id \notin IdsOf(Gained)   BY <2>3 DEF LeaveInDoubt
    <3>3. p \in Content(x)   BY <2>1, <3>1, <3>2 DEF IdsOf
    <3> QED BY <1>2, <3>1, <3>2, <3>3 DEF IdsOf
  <2> QED BY <2>2, <2>3
<1> QED BY <1>1, <1>2

LEMMA FloorIs ==
  ASSUME Sound, NEW was, NEW b, NEW g, g = GoodLen(log), ChainAt(was, b, g)
  PROVE  Floor \in Nat /\ Floor <= g /\ g + 1 \in Floor + 1 .. g + 1
<1>1. g \in Nat /\ synced \in Nat /\ synced <= g   BY DEF ChainAt, PromisesOk, Sound, RunInv
<1>2. Floor \in {synced, g}   BY DEF Floor
<1>3. Floor \in Nat /\ Floor <= g   BY <1>1, <1>2
<1> HIDE DEF Floor
<1> QED BY <1>1, <1>3

\* While a record is pending, the index it leaves is one more on the chain.
LEMMA PendingIs ==
  ASSUME Sound, NEW was, NEW b, NEW g, g = GoodLen(log), ChainAt(was, b, g), pc = "logging"
  PROVE  /\ attached /\ g = Len(log) /\ pend.rec # Torn
         /\ pend.before = Content(was[g + 1])
         /\ Content(ix) \in past /\ Content(ix) \subseteq given
         /\ \A w, q : /\ Longer(w, was, g, ix) /\ \A i \in 1 .. g : q[i] = log[i]
                      /\ q[g + 1] = pend.rec
                      => Links(w, q, g + 1)
<1>1. /\ attached /\ g = Len(log)
      /\ Made(was[g + 1], pend.rec) /\ Same(ix, Apply(was[g + 1], pend.rec))
      /\ pend.before = Content(was[g + 1])
      /\ Content(ix) \in past /\ Content(ix) \subseteq given
  BY DEF ChainAt, Standing
<1>2. pend.rec # Torn   BY <1>1 DEF Made
<1>3. g \in Nat /\ Links(was, log, g) /\ (~setting.reuse => Plain(ix))
  BY DEF ChainAt, GivenInv
<1>4. \A w, q : /\ Longer(w, was, g, ix) /\ \A i \in 1 .. g : q[i] = log[i]
                /\ q[g + 1] = pend.rec
                => Links(w, q, g + 1)
  BY <1>1, <1>3, LinksMore
<1> QED BY <1>1, <1>2, <1>4

LEMMA ChainAppend ==
  ASSUME Sound, NEW was, NEW b, Chain(was, b), setting' = setting,
         AppendRecord \/ WriteFails \/ FlushFails
  PROVE  \E w : Chain(w, b)'
<1>1. PICK g : g = GoodLen(log) /\ ChainAt(was, b, g)   BY ChainIs
<1>2. AppendRecord   BY TrustIs DEF WriteFails, FlushFails
<1>3. /\ pc = "logging" /\ pc' = "idle" /\ attached' = attached /\ ix' = ix
      /\ log' = IF attached THEN Append(log, pend.rec) ELSE log
      /\ synced' = IF attached /\ setting.fsync THEN Len(log') ELSE synced
      /\ snapshot' = snapshot /\ oldSnapshot' = oldSnapshot /\ past' = past /\ given' = given
      /\ Acknowledge
  BY <1>2 DEF AppendRecord, Returned
<1>4. /\ attached /\ g = Len(log) /\ g \in Nat /\ pend.rec # Torn
      /\ pend.before = Content(was[g + 1]) /\ Content(ix) \in past /\ Content(ix) \subseteq given
  BY <1>1, <1>3, PendingIs DEF ChainAt
<1>5. Extends(log', log, pend.rec)   BY <1>3, <1>4, Appended DEF Sound, RunInv
<1>6. Len(log') = g + 1 /\ log'[g + 1] = pend.rec /\ \A i \in 1 .. g : log'[i] = log[i]
  BY <1>4, <1>5 DEF Extends
<1>7. GoodLen(log') = g + 1   BY <1>4, <1>6, GoodOf
<1>8. PICK w : Longer(w, was, g, ix)   BY <1>4, LongerIs
<1>9. Links(w, log', g + 1)   BY <1>1, <1>3, <1>6, <1>8, PendingIs
<1>10. Links(w, log, g + 1)'   BY <1>9, LinksNext
<1>11. w[g + 2] = ix /\ g + 1 + 1 = g + 2 /\ \A k \in 1 .. g + 1 : w[k] = was[k]
  BY <1>4, <1>8 DEF Longer
<1>12. b \in 1 .. g + 1   BY <1>1 DEF ChainAt
<1>13. SnapshotOk(w, b, g + 1)'
  <2>1. Same(Load(snapshot), w[b]) /\ (setting.snapshots = 0 => b = 1 /\ oldSnapshot = snapshot)
    BY <1>1, <1>11, <1>12 DEF ChainAt, SnapshotOk
  <2>2. Same(Load(snapshot), w[b])'   BY <2>1, <1>3 DEF Same
  <2>3. b \in 1 .. g + 1 + 1   BY <1>4, <1>12
  <2> QED BY <2>1, <2>2, <2>3, <1>3 DEF SnapshotOk
<1>14. Standing(w, b, g + 1)'
  <2>1. Same(ix, w[g + 1 + 1])   BY <1>11, SameWay
  <2>2. Same(ix, w[g + 1 + 1])'   BY <2>1, <1>3 DEF Same
  <2> QED BY <2>2, <1>3, <1>4, <1>6 DEF Standing
<1>15. PromisesOk(w, b, g + 1)'
  <2>1. PromisesOk(was, b, g)   BY <1>1 DEF ChainAt
  <2>2. synced' \in Nat /\ synced' <= g + 1
    <3>1. synced \in Nat /\ synced <= g   BY <2>1 DEF PromisesOk, Sound, RunInv
    <3>2. synced' = g + 1 \/ synced' = synced   BY <1>3, <1>6
    <3> QED BY <3>1, <3>2, <1>4
  <2>3. ASSUME NEW k \in b .. g + 1 + 1
        PROVE  Content(w[k]) \in past /\ Content(w[k]) \subseteq given
    <3>1. CASE k = g + 2   BY <3>1, <1>4, <1>11
    <3>2. CASE k # g + 2
      <4>1. k \in b .. g + 1 /\ k \in 1 .. g + 1   BY <3>2, <1>4, <1>12
      <4> QED BY <4>1, <1>11, <2>1 DEF PromisesOk
    <3> QED BY <3>1, <3>2
  <2>4. ASSUME Durable, NEW k \in Floor' + 1 .. g + 1 + 1
        PROVE  owed' \subseteq Content(w[k]) /\ gone' \cap IdsOf(Content(w[k])) = {}
    <3>1. Floor' = g + 1   BY <2>4, <1>3, <1>4, <1>6, <1>7 DEF Floor, Durable
    <3>2. k = g + 2   BY <2>4, <3>1, <1>4
    <3>3. g + 1 \in Floor + 1 .. g + 1   BY <1>1, FloorIs
    <3>4. owed \subseteq Content(was[g + 1]) /\ gone \cap IdsOf(Content(was[g + 1])) = {}
      BY <3>3, <2>1, <2>4 DEF PromisesOk
    <3>5. owed' \subseteq Content(ix) /\ gone' \cap IdsOf(Content(ix)) = {}
      BY <3>4, <1>3, <1>4, Told
    <3> QED BY <3>2, <3>5, <1>11
  <2>5. Durable' <=> Durable   BY DEF Durable, Trusted
  <2> HIDE DEF Floor
  <2> QED BY <2>2, <2>3, <2>4, <2>5, <1>3 DEF PromisesOk
<1> QED BY <1>7, <1>10, <1>13, <1>14, <1>15 DEF Chain

LEMMA ChainSnapshot ==
  ASSUME Sound, NEW was, NEW b, Chain(was, b), setting' = setting, WriteSnapshot
  PROVE  \E c : Chain(was, c)'
<1>1. PICK g : g = GoodLen(log) /\ ChainAt(was, b, g)   BY ChainIs
<1>2. /\ pc = "idle" /\ pc' = "truncating" /\ snapshot' = Image(ix) /\ snapshots < setting.snapshots
      /\ log' = log /\ synced' = synced /\ attached' = attached /\ ix' = ix
      /\ past' = past /\ given' = given /\ owed' = owed /\ gone' = gone
  BY DEF WriteSnapshot, told
<1>3. setting.snapshots # 0 /\ ~setting.reuse   BY <1>2, TrustIs DEF Sound, RunInv
<1>4. g \in Nat /\ attached /\ g = Len(log) /\ Same(ix, was[g + 1])
  BY <1>1, <1>2 DEF ChainAt, Standing
<1>5. Same(Load(snapshot'), was[g + 1])   BY <1>2, <1>3, <1>4 DEF Same, Load, Image
<1>6. Links(was, log, g)'
  <2>1. Links(was, log, g)   BY <1>1 DEF ChainAt
  <2> QED BY <2>1, <1>2, LinksNext
<1>7. SnapshotOk(was, g + 1, g)'
  <2>1. Same(Load(snapshot), was[g + 1])'   BY <1>5 DEF Same
  <2> QED BY <2>1, <1>3, <1>4 DEF SnapshotOk
<1>8. Standing(was, g + 1, g)'
  <2>1. Same(ix, was[g + 1])'   BY <1>2, <1>4 DEF Same
  <2> QED BY <2>1, <1>2, <1>4 DEF Standing
<1>9. PromisesOk(was, g + 1, g)'
  <2>1. PromisesOk(was, b, g) /\ b \in 1 .. g + 1   BY <1>1 DEF ChainAt
  <2>2. \A k \in g + 1 .. g + 1 : k \in b .. g + 1   BY <2>1, <1>4
  <2>3. Floor' = Floor   BY <1>2 DEF Floor
  <2>4. Durable' <=> Durable   BY DEF Durable, Trusted
  <2> HIDE DEF Floor
  <2> QED BY <2>1, <2>2, <2>3, <2>4, <1>2 DEF PromisesOk
<1>10. GoodLen(log)' = g   BY <1>1, <1>2
<1> QED BY <1>6, <1>7, <1>8, <1>9, <1>10 DEF Chain

LEMMA ChainTruncate ==
  ASSUME Sound, NEW was, NEW b, Chain(was, b), setting' = setting, Truncate \/ TruncateFails
  PROVE  \E w : Chain(w, 1)'
<1>1. PICK g : g = GoodLen(log) /\ ChainAt(was, b, g)   BY ChainIs
<1>2. Truncate   BY TrustIs DEF TruncateFails
<1>3. /\ pc = "truncating" /\ pc' = "idle" /\ attached' = attached /\ ix' = ix
      /\ log' = IF attached THEN <<>> ELSE log
      /\ synced' = IF attached THEN 0 ELSE synced
      /\ snapshot' = snapshot /\ oldSnapshot' = oldSnapshot
      /\ past' = past /\ given' = given /\ owed' = owed /\ gone' = gone
  BY <1>2 DEF Truncate, Returned, told
<1>4. g \in Nat /\ attached /\ Same(ix, was[g + 1]) /\ b = g + 1
  BY <1>1, <1>3 DEF ChainAt, Standing
<1>5. PICK w : w = [k \in 1 .. 1 |-> ix]   OBVIOUS
<1>6. w[1] = ix /\ \A k \in 1 .. 0 + 1 : k = 1 /\ \A j \in k .. 0 + 1 : j = 1   BY <1>5
<1>7. log' = <<>> /\ synced' = 0 /\ Len(log') = 0 /\ GoodLen(log') = 0
  BY <1>3, <1>4, EmptyIs DEF GoodLen
<1>8. Links(w, log, 0)'
  <2>1. ~setting.reuse => Plain(w[1])   BY <1>1, <1>6 DEF ChainAt, GivenInv
  <2>2. ~setting.reuse => Kept(w[1], w[1], log', 1, 1)   BY <2>1, KeptHere
  <2>3. ~setting.reuse => \A k \in 1 .. 0 + 1 : Plain(w[k])   BY <2>1, <1>6
  <2>4. ~setting.reuse => \A k \in 1 .. 0 + 1 : \A j \in k .. 0 + 1 : Kept(w[k], w[j], log', k, j)
    BY <2>2, <1>6
  <2>5. \A k \in 1 .. 0 : FALSE   OBVIOUS
  <2>6. Links(w, log', 0)   BY <2>3, <2>4, <2>5 DEF Links
  <2> QED BY <2>6, LinksNext
<1>9. SnapshotOk(w, 1, 0)'
  <2>1. Same(Load(snapshot), was[g + 1]) /\ (setting.snapshots = 0 => oldSnapshot = snapshot)
    BY <1>1, <1>4 DEF ChainAt, SnapshotOk
  <2>2. Same(Load(snapshot), w[1])   BY <2>1, <1>4, <1>6, SameWay
  <2>3. Same(Load(snapshot), w[1])'   BY <2>2, <1>3 DEF Same
  <2> QED BY <2>1, <2>3, <1>3 DEF SnapshotOk
<1>10. Standing(w, 1, 0)'
  <2>1. Same(ix, w[0 + 1])   BY <1>6, SameWay
  <2>2. Same(ix, w[0 + 1])'   BY <2>1, <1>3 DEF Same
  <2> QED BY <2>2, <1>3, <1>4, <1>7 DEF Standing
<1>11. PromisesOk(w, 1, 0)'
  <2>1. PromisesOk(was, b, g)   BY <1>1 DEF ChainAt
  <2>2. Content(ix) = Content(was[g + 1])   BY <1>4, SameIs
  <2>3. g + 1 \in b .. g + 1 /\ g + 1 \in Floor + 1 .. g + 1   BY <1>1, <1>4, FloorIs
  <2>4. /\ Content(ix) \in past /\ Content(ix) \subseteq given
        /\ Durable => owed \subseteq Content(ix) /\ gone \cap IdsOf(Content(ix)) = {}
    BY <2>1, <2>2, <2>3 DEF PromisesOk
  <2>5. Durable' <=> Durable   BY DEF Durable, Trusted
  <2>6. Floor' = 0   BY <1>7 DEF Floor
  <2>7. \A k \in 1 .. 0 + 1 : w[k] = ix   BY <1>6
  <2> HIDE DEF Floor
  <2> QED BY <2>4, <2>5, <2>6, <2>7, <1>3, <1>7 DEF PromisesOk
<1> QED BY <1>7, <1>8, <1>9, <1>10, <1>11 DEF Chain

\* The chain of the full log, of which a crash leaves a part.
FullChain(w, h, b, g) ==
  /\ h \in Nat /\ h >= g /\ Links(w, Full, h)
  /\ h <= Len(Full) /\ (Len(Full) = h \/ (Len(Full) = h + 1 /\ Full[h + 1] = Torn))
  /\ \A k \in 1 .. h : Full[k] # Torn
  /\ h = g \/ h = Len(Full)
  /\ \A k \in b .. h + 1 : Content(w[k]) \in past /\ Content(w[k]) \subseteq given
  /\ Durable => \A k \in Floor + 1 .. h + 1 :
       owed' \subseteq Content(w[k]) /\ gone' \cap IdsOf(Content(w[k])) = {}

LEMMA FullChainIs ==
  ASSUME Sound, NEW was, NEW b, NEW g, g = GoodLen(log), ChainAt(was, b, g), Stop
  PROVE  \E w, h : FullChain(w, h, b, g) /\ \A k \in 1 .. g + 1 : w[k] = was[k]
<1>1. /\ g \in Nat /\ g <= Len(log) /\ Len(log) \in Nat /\ b \in 1 .. g + 1
      /\ Len(log) = g \/ (Len(log) = g + 1 /\ log[g + 1] = Torn)
      /\ Links(was, log, g) /\ \A k \in 1 .. g : log[k] # Torn
      /\ PromisesOk(was, b, g)
  BY DEF ChainAt
<1>2. CASE pc = "logging"
  <2>1. /\ attached /\ g = Len(log) /\ pend.rec # Torn
        /\ pend.before = Content(was[g + 1])
        /\ Content(ix) \in past /\ Content(ix) \subseteq given
    BY <1>2, PendingIs
  <2>2. LeaveInDoubt   BY <1>2 DEF Stop
  <2>3. Extends(Full, log, pend.rec)   BY <1>2, <2>1, Appended DEF Full, Sound, RunInv
  <2>4. PICK w : Longer(w, was, g, ix)   BY <1>1, LongerIs
  <2> HIDE DEF Full
  <2>5. Len(Full) = g + 1 /\ Full[g + 1] = pend.rec /\ \A k \in 1 .. g : Full[k] = log[k]
    BY <2>1, <2>3 DEF Extends
  <2>6. Links(w, Full, g + 1)   BY <1>2, <2>4, <2>5, PendingIs
  <2>7. w[g + 2] = ix /\ \A k \in 1 .. g + 1 : w[k] = was[k]   BY <2>4 DEF Longer
  <2>8. \A k \in 1 .. g + 1 : Full[k] # Torn
    <3>1. \A k \in 1 .. g + 1 : k \in 1 .. g \/ k = g + 1   BY <1>1
    <3> QED BY <1>1, <2>1, <2>5, <3>1
  <2>9. ASSUME NEW k \in b .. g + 1 + 1
        PROVE  Content(w[k]) \in past /\ Content(w[k]) \subseteq given
    <3>1. CASE k = g + 2   BY <3>1, <2>1, <2>7
    <3>2. CASE k # g + 2
      <4>1. k \in b .. g + 1 /\ k \in 1 .. g + 1   BY <3>2, <1>1
      <4> QED BY <4>1, <2>7, <1>1 DEF PromisesOk
    <3> QED BY <3>1, <3>2
  <2>10. ASSUME Durable, NEW k \in Floor + 1 .. g + 1 + 1
         PROVE  owed' \subseteq Content(w[k]) /\ gone' \cap IdsOf(Content(w[k])) = {}
    <3>1. Floor \in Nat /\ g + 1 \in Floor + 1 .. g + 1   BY FloorIs
    <3>2. \A i \in Floor + 1 .. g + 1 :
            owed \subseteq Content(was[i]) /\ gone \cap IdsOf(Content(was[i])) = {}
      BY <1>1, <2>10 DEF PromisesOk
    <3>3. CASE k = g + 2
      <4>1. owed' \subseteq Content(ix) /\ gone' \cap IdsOf(Content(ix)) = {}
        BY <3>1, <3>2, <2>1, <2>2, Doubted
      <4> QED BY <4>1, <3>3, <2>7
    <3>4. CASE k # g + 2
      <4>1. k \in Floor + 1 .. g + 1 /\ k \in 1 .. g + 1   BY <3>1, <3>4, <1>1
      <4>2. owed' \subseteq owed /\ gone' \subseteq gone   BY <2>2, Doubted
      <4>3. w[k] = was[k]   BY <4>1, <2>7
      <4> QED BY <4>1, <4>2, <4>3, <3>2
    <3> QED BY <3>3, <3>4
  <2>11. FullChain(w, g + 1, b, g)
    <3>1. g + 1 \in Nat /\ g + 1 >= g   BY <1>1
    <3> QED BY <3>1, <2>5, <2>6, <2>8, <2>9, <2>10 DEF FullChain
  <2> QED BY <2>7, <2>11
<1>3. CASE pc # "logging"
  <2>1. Full = log /\ owed' = owed /\ gone' = gone   BY <1>3 DEF Full, Stop, told
  <2> HIDE DEF Full
  <2>2. FullChain(was, g, b, g)   BY <1>1, <2>1 DEF FullChain, PromisesOk
  <2> QED BY <2>2
<1> QED BY <1>2, <1>3

LEMMA ChainStop ==
  ASSUME Sound, NEW was, NEW b, Chain(was, b), setting' = setting, ProcessCrash \/ PowerCut
  PROVE  \E w : Chain(w, b)'
<1>1. PICK g : g = GoodLen(log) /\ ChainAt(was, b, g)   BY ChainIs
<1>2. /\ Stop /\ pc' = "down" /\ synced' = synced /\ past' = past /\ given' = given
  BY DEF ProcessCrash, PowerCut, Stop
<1>3. g \in Nat /\ b \in 1 .. g + 1 /\ synced \in Nat /\ synced <= g /\ g <= Len(log)
      /\ Len(log) \in Nat
  BY <1>1 DEF ChainAt, PromisesOk, Sound, RunInv
<1>4. PICK w, h : FullChain(w, h, b, g) /\ \A k \in 1 .. g + 1 : w[k] = was[k]
  BY <1>1, <1>2, FullChainIs
<1>5. PICK n \in 0 .. Len(Full) :
        /\ n >= synced /\ Left(log', n)
        /\ "power" \notin setting.faults => n >= Len(log)
  BY StopLeaves, ProcessCrashLeaves DEF PowerCut, Sound
<1>6. PICK e : e = IF n <= h THEN n ELSE h   OBVIOUS
<1>7. /\ h \in Nat /\ h >= g /\ Links(w, Full, h) /\ \A k \in 1 .. h : Full[k] # Torn
      /\ h <= Len(Full) /\ (Len(Full) = h \/ (Len(Full) = h + 1 /\ Full[h + 1] = Torn))
      /\ h = g \/ h = Len(Full)
  BY <1>4 DEF FullChain
<1>8. /\ n \in Nat /\ n <= Len(Full) /\ \A k \in 1 .. n : log'[k] = Full[k]
      /\ Len(log') = n \/ (Len(log') = n + 1 /\ log'[n + 1] = Torn /\ n < Len(Full))
  BY <1>5 DEF Left
<1> HIDE DEF Full
<1>9. e \in Nat /\ e <= h /\ e <= n /\ e \in 0 .. h   BY <1>6, <1>7, <1>8
<1>10. GoodLen(log') = e
  <2>1. CASE n <= h
    <3>1. e = n /\ (n > 0 => n \in 1 .. n /\ n \in 1 .. h)   BY <2>1, <1>6, <1>8
    <3>2. n > 0 => log'[n] # Torn   BY <3>1, <1>7, <1>8
    <3> QED BY <3>1, <3>2, <1>8, GoodOf
  <2>2. CASE ~(n <= h)
    <3>1. e = h /\ n = h + 1 /\ Len(log') = h + 1   BY <2>2, <1>6, <1>7, <1>8
    <3>2. h + 1 \in 1 .. n /\ (h > 0 => h \in 1 .. n /\ h \in 1 .. h)   BY <3>1, <1>7
    <3>3. log'[h + 1] = Torn   BY <3>1, <3>2, <1>7, <1>8
    <3>4. h > 0 => log'[h] # Torn   BY <3>2, <1>7, <1>8
    <3> QED BY <3>1, <3>3, <3>4, <1>7, GoodOf
  <2> QED BY <2>1, <2>2
<1>11. Links(w, log, e)'
  <2>1. \A k \in 1 .. e : k \in 1 .. n   BY <1>8, <1>9
  <2>2. \A k \in 1 .. e : log'[k] = Full[k]   BY <2>1, <1>8
  <2>3. Links(w, log', e)   BY <2>2, <1>7, <1>9, LinksFewer
  <2> QED BY <2>3, LinksNext
<1>12. "power" \notin setting.faults => e >= g   BY <1>3, <1>5, <1>6, <1>7, <1>8
<1>13. e >= synced   BY <1>3, <1>5, <1>6, <1>7
<1>14. SnapshotOk(was, b, g)   BY <1>1 DEF ChainAt
<1>15. "power" \in setting.faults => setting.snapshots = 0   BY TrustIs
<1>16. snapshot' = snapshot /\ (setting.snapshots = 0 => oldSnapshot' = snapshot)
  BY <1>14, <1>15 DEF SnapshotOk, ProcessCrash, PowerCut
<1>17. SnapshotOk(w, b, e)'
  <2>1. b \in 1 .. e + 1
    <3>1. CASE setting.snapshots = 0   BY <3>1, <1>9, <1>14 DEF SnapshotOk
    <3>2. CASE setting.snapshots # 0   BY <3>2, <1>3, <1>9, <1>12, <1>15
    <3> QED BY <3>1, <3>2
  <2>2. Same(Load(snapshot), w[b])   BY <1>3, <1>4, <1>14 DEF SnapshotOk
  <2>3. Same(Load(snapshot), w[b])'   BY <2>2, <1>16 DEF Same
  <2> QED BY <2>1, <2>3, <1>14, <1>16 DEF SnapshotOk
<1>18. Standing(w, b, e)'   BY <1>2 DEF Standing
<1>19. PromisesOk(w, b, e)'
  <2>1. \A k \in b .. e + 1 : k \in b .. h + 1   BY <1>3, <1>7, <1>9
  <2>2. \A k \in b .. e + 1 : Content(w[k]) \in past /\ Content(w[k]) \subseteq given
    BY <2>1, <1>4 DEF FullChain
  <2>3. Floor \in Nat /\ Floor <= g   BY <1>1, FloorIs
  <2>4. \A k \in Floor' + 1 .. e + 1 : k \in Floor + 1 .. h + 1
    <3>1. CASE "power" \in setting.faults
      <4>1. Floor' = Floor   BY <3>1, <1>2 DEF Floor
      <4> HIDE DEF Floor
      <4> QED BY <4>1, <2>3, <1>7, <1>9
    <3>2. CASE "power" \notin setting.faults
      <4>1. Floor' = e   BY <3>2, <1>10 DEF Floor
      <4> HIDE DEF Floor
      <4> QED BY <4>1, <2>3, <3>2, <1>3, <1>7, <1>9, <1>12
    <3> QED BY <3>1, <3>2
  <2>5. Durable' <=> Durable   BY DEF Durable, Trusted
  <2>6. Durable => \A k \in Floor' + 1 .. e + 1 :
          owed' \subseteq Content(w[k]) /\ gone' \cap IdsOf(Content(w[k])) = {}
    BY <2>4, <1>4 DEF FullChain
  <2> HIDE DEF Floor
  <2> QED BY <2>2, <2>5, <2>6, <1>2, <1>13 DEF PromisesOk
<1> QED BY <1>10, <1>11, <1>17, <1>18, <1>19 DEF Chain

LEMMA ChainClose ==
  ASSUME Sound, NEW was, NEW b, Chain(was, b), setting' = setting, Close
  PROVE  Chain(was, b)'
<1>1. PICK g : g = GoodLen(log) /\ ChainAt(was, b, g)   BY ChainIs
<1>2. /\ pc = "idle" /\ pc' = "down" /\ log' = log /\ synced' \in {synced, Len(log)}
      /\ snapshot' = snapshot /\ oldSnapshot' = oldSnapshot
      /\ past' = past /\ given' = given /\ owed' = owed /\ gone' = gone
  BY DEF Close, Stop, told
<1>3. g \in Nat /\ g = Len(log) /\ synced \in Nat /\ synced <= g
  BY <1>1, <1>2 DEF ChainAt, Standing, PromisesOk, Sound, RunInv
<1>4. Links(was, log, g)'
  <2>1. Links(was, log, g)   BY <1>1 DEF ChainAt
  <2> QED BY <2>1, <1>2, LinksNext
<1>5. SnapshotOk(was, b, g)'   BY <1>1, <1>2 DEF ChainAt, SnapshotOk, Same
<1>6. Standing(was, b, g)'   BY <1>2 DEF Standing
<1>7. PromisesOk(was, b, g)'
  <2>1. PromisesOk(was, b, g)   BY <1>1 DEF ChainAt
  <2>2. Floor \in Nat /\ Floor <= g   BY <1>1, FloorIs
  <2>6. Floor' = Floor \/ Floor' = g   BY <1>1, <1>2, <1>3 DEF Floor
  <2>3. Durable' <=> Durable   BY DEF Durable, Trusted
  <2>4. synced' <= g   BY <1>2, <1>3
  <2> HIDE DEF Floor
  <2>5. \A k \in Floor' + 1 .. g + 1 : k \in Floor + 1 .. g + 1
    <3>1. CASE Floor' = Floor   BY <3>1
    <3>2. CASE Floor' = g   BY <3>2, <2>2, <1>3
    <3> QED BY <3>1, <3>2, <2>6
  <2> QED BY <2>1, <2>3, <2>4, <2>5, <1>2 DEF PromisesOk
<1>8. GoodLen(log)' = g   BY <1>1, <1>2
<1> QED BY <1>4, <1>5, <1>6, <1>7, <1>8 DEF Chain

LEMMA ChainOpen ==
  ASSUME Sound, NEW was, NEW b, Chain(was, b), setting' = setting, OpenLog
  PROVE  Chain(was, b)'
<1>1. PICK g : g = GoodLen(log) /\ ChainAt(was, b, g)   BY ChainIs
<1>2. /\ pc' = "replaying" /\ at' = 1 /\ ix' = Load(snapshot)
      /\ log' = log /\ synced' = synced /\ snapshot' = snapshot /\ oldSnapshot' = oldSnapshot
      /\ past' = past /\ given' = given /\ owed' = owed /\ gone' = gone
  BY DEF OpenLog, disk, told
<1>3. g \in Nat /\ b \in 1 .. g + 1 /\ Same(ix', was[b])
  BY <1>1, <1>2 DEF ChainAt, SnapshotOk
<1>4. Links(was, log, g)'
  <2>1. Links(was, log, g)   BY <1>1 DEF ChainAt
  <2> QED BY <2>1, <1>2, LinksNext
<1>5. SnapshotOk(was, b, g)'   BY <1>1, <1>2 DEF ChainAt, SnapshotOk, Same
<1>6. Standing(was, b, g)'
  <2>1. Catching(ix, was[b], 1, b)'
    <3>1. ix'.vec = was[b].vec /\ ix'.dead = was[b].dead   BY <1>3, SameIs
    <3> QED BY <3>1, <1>2 DEF Catching
  <2>2. ~(1 < b) => b = 1   BY <1>3
  <2>3. Same(ix, was[b])'   BY <1>3 DEF Same
  <2>4. 1 <= g + 1   BY <1>3
  <2>5. Catching(ix, was[b], at, b)'   BY <2>1, <1>2 DEF Catching
  <2> QED BY <2>2, <2>3, <2>4, <2>5, <1>2 DEF Standing
<1>7. PromisesOk(was, b, g)'
  <2>1. PromisesOk(was, b, g)   BY <1>1 DEF ChainAt
  <2>2. Floor' = Floor   BY <1>2 DEF Floor
  <2>3. Durable' <=> Durable   BY DEF Durable, Trusted
  <2> HIDE DEF Floor
  <2> QED BY <2>1, <2>2, <2>3, <1>2 DEF PromisesOk
<1>8. GoodLen(log)' = g   BY <1>1, <1>2
<1> QED BY <1>4, <1>5, <1>6, <1>7, <1>8 DEF Chain

\* A record that the snapshot holds already: it is refused, or brings the rows it names
\* to where the snapshot or a later record has them.
LEMMA CatchingOn ==
  ASSUME ~setting.reuse, NEW x, NEW y, NEW u, NEW v, NEW m, NEW a \in Nat, NEW b \in Nat, a < b,
         Plain(x), Plain(y), Plain(u), Plain(v),
         Made(u, m), Same(v, Apply(u, m)), Kept(v, y, log, a + 1, b), m = log[a],
         Catching(x, y, a, b)
  PROVE  Plain(Replayed(x, m)) /\ Catching(Replayed(x, m), y, a + 1, b)
<1> DEFINE n == Len(x.vec)
           rest == a + 1 .. b - 1
<1>1. /\ PlainRecord(m) /\ Applies(u, m)
      /\ m.type # "insertNoIds" => Named(m) \subseteq 1 .. Len(u.vec)
  BY DEF Made
<1>2. v.vec = Apply(u, m).vec /\ v.dead = Apply(u, m).dead   BY SameIs
<1>3. /\ n \in Nat /\ Len(y.vec) \in Nat /\ Len(u.vec) \in Nat /\ Len(v.vec) \in Nat
      /\ n = Len(y.vec) /\ Len(v.vec) <= Len(y.vec)
  BY DEF Plain, IsASeq, Catching, Kept
<1>4. \A i : i \in a .. b - 1 <=> i = a \/ i \in rest   OBVIOUS
<1>5. \A r \in 1 .. n :
        /\ x.vec[r] = y.vec[r] \/ r \in Updated(m) \/ \E i \in rest : r \in Updated(log[i])
        /\ (r \in x.dead <=> r \in y.dead) \/ r \in Named(m) \/ \E i \in rest : r \in Named(log[i])
  BY <1>4 DEF Catching
<1>6. \A r \in 1 .. Len(v.vec) :
        /\ v.vec[r] = y.vec[r] \/ \E i \in rest : r \in Updated(log[i])
        /\ (r \in v.dead <=> r \in y.dead) \/ \E i \in rest : r \in Named(log[i])
  BY DEF Kept
<1> SUFFICES /\ Plain(Replayed(x, m)) /\ Len(Replayed(x, m).vec) = n
             /\ \A r \in 1 .. n :
                  /\ \/ Replayed(x, m).vec[r] = y.vec[r]
                     \/ \E i \in rest : r \in Updated(log[i])
                  /\ \/ (r \in Replayed(x, m).dead <=> r \in y.dead)
                     \/ \E i \in rest : r \in Named(log[i])
  BY <1>3 DEF Catching
<1> HIDE DEF n, rest
<1>7. CASE m.type = "insertNoIds"
  <2>1. Joins(Apply(u, m).vec, u.vec, m.vecs)   BY <1>1, <1>7, InsertPlain
  <2>2. Len(v.vec) = Len(u.vec) + Len(m.vecs) /\ Len(m.vecs) \in Nat /\ Len(m.vecs) > 0
    BY <2>1, <1>1, <1>2, <1>7 DEF Joins, PlainRecord
  <2>3. m.rows = Len(u.vec)   BY <1>1, <1>7 DEF Applies
  <2>4. m.rows # Len(x.vec)
    <3>1. \A i, j, k \in Nat : j > 0 /\ i + j <= k => i # k   OBVIOUS
    <3> QED BY <3>1, <2>2, <2>3, <1>3 DEF n
  <2>5. Replayed(x, m) = x   BY <2>4, <1>7 DEF Replayed, Applies
  <2>6. Updated(m) = {} /\ Named(m) = {}   BY <1>1, <1>7 DEF Updated, Named, PlainRecord
  <2> QED BY <2>5, <2>6, <1>5 DEF n
<1>8. CASE m.type = "delete"
  <2>1. Named(m) \subseteq 1 .. Len(u.vec)   BY <1>1, <1>8
  <2>2. v.vec = u.vec /\ v.dead = u.dead \cup Named(m)   BY <2>1, <1>1, <1>2, <1>8, DeletePlain
  <2>3. Named(m) \subseteq 1 .. Len(v.vec) /\ Named(m) \subseteq 1 .. n
    <3>1. 1 .. Len(v.vec) \subseteq 1 .. n   BY <1>3
    <3> QED BY <3>1, <2>1, <2>2
  <2>4. Replayed(x, m) = Apply(x, m)   BY <1>8 DEF Replayed, Applies
  <2>5. Plain(Apply(x, m)) /\ Apply(x, m).vec = x.vec /\ Apply(x, m).dead = x.dead \cup Named(m)
    BY <2>3, <1>1, <1>8, DeletePlain DEF n
  <2>6. Updated(m) = {}   BY <1>8 DEF Updated
  <2>7. \A r \in Named(m) : r \in y.dead \/ \E i \in rest : r \in Named(log[i])
    BY <2>2, <2>3, <1>6
  <2> QED BY <2>4, <2>5, <2>6, <2>7, <1>5 DEF n
<1>9. CASE m.type = "update"
  <2>1. Named(m) \subseteq 1 .. Len(u.vec)   BY <1>1, <1>9
  <2>2. /\ Len(v.vec) = Len(u.vec) /\ v.dead = u.dead \ Named(m)
        /\ \A r \in Named(m) : v.vec[r] = Rewritten(m, r)
    BY <2>1, <1>1, <1>2, <1>9, UpdatePlain
  <2>3. Named(m) \subseteq 1 .. Len(v.vec) /\ Named(m) \subseteq 1 .. n
    <3>1. 1 .. Len(v.vec) \subseteq 1 .. n   BY <1>3
    <3> QED BY <3>1, <2>1, <2>2
  <2>4. Replayed(x, m) = Apply(x, m)   BY <1>9 DEF Replayed, Applies
  <2>5. /\ Plain(Apply(x, m)) /\ Len(Apply(x, m).vec) = n
        /\ Apply(x, m).dead = x.dead \ Named(m)
        /\ \A r \in 1 .. n :
             Apply(x, m).vec[r] = IF r \in Named(m) THEN Rewritten(m, r) ELSE x.vec[r]
    BY <2>3, <1>1, <1>9, UpdatePlain DEF n
  <2>6. Updated(m) = Named(m)   BY <1>9 DEF Updated
  <2>7. \A r \in Named(m) : /\ r \notin y.dead \/ \E i \in rest : r \in Named(log[i])
                            /\ \/ Rewritten(m, r) = y.vec[r]
                               \/ \E i \in rest : r \in Updated(log[i])
    BY <2>2, <2>3, <1>6
  <2> QED BY <2>4, <2>5, <2>6, <2>7, <1>5
<1> QED BY <1>1, <1>7, <1>8, <1>9 DEF PlainRecord

LEMMA ChainReplay ==
  ASSUME Sound, NEW was, NEW b, Chain(was, b), setting' = setting, ReplayRecord
  PROVE  Chain(was, b)'
<1>1. PICK g : g = GoodLen(log) /\ ChainAt(was, b, g)   BY ChainIs
<1>2. /\ pc = "replaying" /\ pc' = "replaying" /\ at' = at + 1
      /\ at \in DOMAIN log /\ log[at] # Torn
      /\ log' = log /\ synced' = synced /\ snapshot' = snapshot /\ oldSnapshot' = oldSnapshot
      /\ past' = past /\ given' = given /\ owed' = owed /\ gone' = gone
  BY DEF ReplayRecord, AtEnd, disk, told
<1>3. ix' = Replayed(ix, log[at])   BY TrustIs DEF ReplayRecord
<1>4. /\ g \in Nat /\ b \in 1 .. g + 1 /\ b \in Nat /\ at \in Nat \ {0} /\ Links(was, log, g)
      /\ Len(log) = g \/ (Len(log) = g + 1 /\ log[g + 1] = Torn)
  BY <1>1 DEF ChainAt, Sound, RunInv
<1>5. at \in 1 .. g
  <2>1. at \in 1 .. Len(log)   BY <1>2 DEF Sound, RunInv, IsASeq
  <2> QED BY <2>1, <1>2, <1>4
<1>6. Made(was[at], log[at]) /\ Same(was[at + 1], Apply(was[at], log[at]))
  BY <1>4, <1>5 DEF Links
<1>7. ~setting.reuse => /\ Plain(ix) /\ Plain(was[at]) /\ Plain(was[at + 1]) /\ Plain(was[b])
                        /\ at + 1 <= b => Kept(was[at + 1], was[b], log, at + 1, b)
  <2>1. at \in 1 .. g + 1 /\ at + 1 \in 1 .. g + 1 /\ (at + 1 <= b => b \in at + 1 .. g + 1)
    BY <1>4, <1>5
  <2> QED BY <2>1, <1>1, <1>4 DEF ChainAt, GivenInv, Links
<1>8. IF at + 1 < b THEN Catching(ix', was[b], at + 1, b)
      ELSE at + 1 <= g + 1 /\ Same(ix', was[at + 1])
  <2>1. CASE at < b
    <3>1. setting.snapshots # 0   BY <2>1, <1>1, <1>5 DEF ChainAt, SnapshotOk
    <3>2. ~setting.reuse   BY <3>1, TrustIs
    <3>3. Catching(ix, was[b], at, b)   BY <2>1, <1>1, <1>2 DEF ChainAt, Standing
    <3>4. Plain(ix') /\ Catching(ix', was[b], at + 1, b)
      BY <2>1, <3>2, <3>3, <1>3, <1>4, <1>6, <1>7, CatchingOn
    <3>5. ASSUME ~(at + 1 < b) PROVE at + 1 <= g + 1 /\ Same(ix', was[at + 1])
      <4>1. at + 1 = b /\ at + 1 <= g + 1   BY <3>5, <2>1, <1>4, <1>5
      <4>2. \A i \in at + 1 .. b - 1 : FALSE   BY <4>1, <1>4
      <4>3. /\ Len(ix'.vec) = Len(was[b].vec)
            /\ \A r \in 1 .. Len(ix'.vec) :
                 ix'.vec[r] = was[b].vec[r] /\ (r \in ix'.dead <=> r \in was[b].dead)
        BY <3>4, <4>2 DEF Catching
      <4>4. ix'.vec = was[b].vec   BY <4>3, <3>2, <3>4, <1>7 DEF Plain, IsASeq
      <4>5. ix'.gen = was[b].gen   BY <4>3, <3>2, <3>4, <1>7 DEF Plain
      <4>6. ix'.dead = was[b].dead
        <5>1. ix'.dead \subseteq 1 .. Len(ix'.vec) /\ was[b].dead \subseteq 1 .. Len(ix'.vec)
          BY <4>3, <3>2, <3>4, <1>7 DEF Plain
        <5> QED BY <5>1, <4>3
      <4> QED BY <4>1, <4>4, <4>5, <4>6, <3>2 DEF Same, Image
    <3> QED BY <3>4, <3>5
  <2>2. CASE ~(at < b)
    <3>1. Same(ix, was[at])   BY <2>2, <1>1, <1>2 DEF ChainAt, Standing
    <3>2. Same(was[at], ix)   BY <3>1, SameWay
    <3>3. Applies(ix, log[at])   BY <3>1, <1>6, SameIs DEF Made
    <3>4. ix' = Apply(ix, log[at])   BY <3>3, <1>3 DEF Replayed
    <3>5. Same(Apply(was[at], log[at]), ix')   BY <3>2, <3>4, <1>6, <1>7, SameApplied
    <3>6. Same(was[at + 1], ix')   BY <3>5, <1>6, SameWay
    <3>7. Same(ix', was[at + 1])   BY <3>6, SameWay
    <3>8. ~(at + 1 < b) /\ at + 1 <= g + 1   BY <2>2, <1>4, <1>5
    <3> QED BY <3>7, <3>8
  <2> QED BY <2>1, <2>2
<1>9. Links(was, log, g)'   BY <1>2, <1>4, LinksNext
<1>10. SnapshotOk(was, b, g)'   BY <1>1, <1>2 DEF ChainAt, SnapshotOk, Same
<1>11. Standing(was, b, g)'
  <2>1. at + 1 < b => Catching(ix, was[b], at, b)'   BY <1>2, <1>8 DEF Catching
  <2>2. ~(at + 1 < b) => Same(ix, was[at])' /\ at' <= g + 1   BY <1>2, <1>8 DEF Same
  <2> QED BY <2>1, <2>2, <1>2 DEF Standing
<1>12. PromisesOk(was, b, g)'
  <2>1. PromisesOk(was, b, g)   BY <1>1 DEF ChainAt
  <2>2. Floor' = Floor   BY <1>2 DEF Floor
  <2>3. Durable' <=> Durable   BY DEF Durable, Trusted
  <2> HIDE DEF Floor
  <2> QED BY <2>1, <2>2, <2>3, <1>2 DEF PromisesOk
<1>13. GoodLen(log)' = g   BY <1>1, <1>2
<1> QED BY <1>9, <1>10, <1>11, <1>12, <1>13 DEF Chain

\* Replay ends at the end of the chain.
LEMMA Recovered ==
  ASSUME Sound, NEW was, NEW b, NEW g, g = GoodLen(log), ChainAt(was, b, g), CutTail
  PROVE  at = g + 1 /\ Same(ix, was[g + 1]) /\ Content(ix) \in past
<1>1. /\ g \in Nat /\ b \in 1 .. g + 1 /\ g <= Len(log) /\ Len(log) \in Nat /\ at \in Nat \ {0}
      /\ \A k \in 1 .. g : log[k] # Torn
      /\ PromisesOk(was, b, g)
      /\ pc = "replaying" /\ (at \in DOMAIN log => log[at] = Torn)
  BY DEF ChainAt, Sound, RunInv, CutTail, AtEnd
<1>2. IF at < b THEN Catching(ix, was[b], at, b) ELSE at <= g + 1 /\ Same(ix, was[at])
  BY <1>1 DEF ChainAt, Standing
<1>3. ~(at \in 1 .. g)
  <2>1. \A k \in 1 .. g : k \in 1 .. Len(log)   BY <1>1
  <2>2. DOMAIN log = 1 .. Len(log)   BY DEF Sound, RunInv, IsASeq
  <2> QED BY <2>1, <2>2, <1>1
<1>4. at = g + 1 /\ ~(at < b)
  <2>1. at > g   BY <1>1, <1>3
  <2>2. ~(at < b)   BY <2>1, <1>1
  <2> QED BY <2>1, <2>2, <1>1, <1>2
<1>5. Same(ix, was[g + 1])   BY <1>2, <1>4
<1>6. Content(ix) = Content(was[g + 1])   BY <1>5, SameIs
<1>7. g + 1 \in b .. g + 1   BY <1>1
<1> QED BY <1>1, <1>4, <1>5, <1>6, <1>7 DEF PromisesOk

LEMMA ChainCut ==
  ASSUME Sound, NEW was, NEW b, Chain(was, b), setting' = setting, CutTail
  PROVE  Chain(was, b)'
<1>1. PICK g : g = GoodLen(log) /\ ChainAt(was, b, g)   BY ChainIs
<1>2. /\ pc' = "idle" /\ attached' = TRUE /\ ix' = ix /\ log' = SubSeq(log, 1, Good)
      /\ synced' = IF synced <= Good THEN synced ELSE Good
      /\ snapshot' = snapshot /\ oldSnapshot' = oldSnapshot
      /\ past' = past \cup {Content(ix)} /\ given' = given /\ owed' = owed /\ gone' = gone
  BY DEF CutTail, told
<1>3. /\ g \in Nat /\ g <= Len(log) /\ Len(log) \in Nat /\ b \in 1 .. g + 1
      /\ synced \in Nat /\ synced <= g /\ Links(was, log, g) /\ \A k \in 1 .. g : log[k] # Torn
  BY <1>1 DEF ChainAt, PromisesOk, Sound, RunInv
<1>4. at = g + 1 /\ Same(ix, was[g + 1])   BY <1>1, Recovered
<1>5. Good = g   BY <1>3, <1>4 DEF Good
<1>6. Begins(log', log, g)
  <2>1. g \in 0 .. Len(log)   BY <1>3
  <2> QED BY <2>1, <1>2, <1>5, CutOff DEF Sound, RunInv
<1>7. Len(log') = g /\ \A i \in 1 .. g : log'[i] = log[i]   BY <1>6 DEF Begins
<1>8. synced' = synced   BY <1>2, <1>3, <1>5
<1>9. GoodLen(log') = g
  <2>1. g > 0 => g \in 1 .. g   BY <1>3
  <2> QED BY <2>1, <1>3, <1>7, GoodOf
<1>10. Links(was, log, g)'
  <2>1. g \in 0 .. g   BY <1>3
  <2>2. Links(was, log', g)   BY <2>1, <1>3, <1>7, LinksFewer
  <2> QED BY <2>2, LinksNext
<1>11. SnapshotOk(was, b, g)'   BY <1>1, <1>2 DEF ChainAt, SnapshotOk, Same
<1>12. Standing(was, b, g)'
  <2>1. Same(ix, was[g + 1])'   BY <1>2, <1>4 DEF Same
  <2> QED BY <2>1, <1>2, <1>7 DEF Standing
<1>13. PromisesOk(was, b, g)'
  <2>1. PromisesOk(was, b, g)   BY <1>1 DEF ChainAt
  <2>2. Floor' = Floor   BY <1>1, <1>8, <1>9 DEF Floor
  <2>3. Durable' <=> Durable   BY DEF Durable, Trusted
  <2> HIDE DEF Floor
  <2> QED BY <2>1, <2>2, <2>3, <1>2, <1>8 DEF PromisesOk
<1> QED BY <1>9, <1>10, <1>11, <1>12, <1>13 DEF Chain

LEMMA ChainStep ==
  ASSUME Sound, NEW was, NEW b, Chain(was, b), [Next]_vars
  PROVE  (\E w, c : Chain(w, c))'
<1>1. CASE UNCHANGED vars
  <2>1. Chain(was, b)'
    BY <1>1 DEF vars, disk, told, counters, Chain, Links, Made, Same, SnapshotOk, Standing,
       Catching, PromisesOk, Floor, Durable, Trusted
  <2> QED BY <2>1
<1>2. CASE Next
  <2>1. setting' = setting   BY <1>2 DEF Next
  <2>2. CASE Delete \/ Update \/ Insert   BY <2>1, <2>2, ChainMutate
  <2>3. CASE AppendRecord \/ WriteFails \/ FlushFails   BY <2>1, <2>3, ChainAppend
  <2>4. CASE WriteSnapshot   BY <2>1, <2>4, ChainSnapshot
  <2>5. CASE Truncate \/ TruncateFails   BY <2>1, <2>5, ChainTruncate
  <2>6. CASE ProcessCrash \/ PowerCut   BY <2>1, <2>6, ChainStop
  <2>10. CASE Close   BY <2>1, <2>10, ChainClose
  <2>7. CASE OpenLog   BY <2>1, <2>7, ChainOpen
  <2>8. CASE ReplayRecord   BY <2>1, <2>8, ChainReplay
  <2>9. CASE CutTail   BY <2>1, <2>9, ChainCut
  <2> QED BY <1>2, <2>2, <2>3, <2>4, <2>5, <2>6, <2>7, <2>8, <2>9, <2>10 DEF Next
<1> QED BY <1>1, <1>2

LEMMA InvariantInit == Init => IInv
BY RunInit, GivenInit, ChainInit DEF IInv

LEMMA InvariantStep == IInv /\ [Next]_vars => IInv'
<1> SUFFICES ASSUME IInv, [Next]_vars PROVE IInv'
  OBVIOUS
<1>1. setting' = setting   BY DEF Next, vars
<1>2. RunInv'   BY RunStep DEF IInv
<1>3. ~setting.reuse => GivenInv'   BY GivenStep DEF IInv
<1>4. Trusted => (\E was, b : Chain(was, b))'
  <2> SUFFICES ASSUME Trusted PROVE (\E was, b : Chain(was, b))'
    OBVIOUS
  <2>1. Sound   BY DEF IInv, Sound
  <2>2. PICK was, b : Chain(was, b)   BY DEF IInv
  <2> QED BY <2>1, <2>2, ChainStep
<1>5. Trusted' <=> Trusted   BY <1>1 DEF Trusted
<1> QED BY <1>1, <1>2, <1>3, <1>4, <1>5 DEF IInv

LEMMA Invariant == Spec => []IInv
<1> QED BY InvariantInit, InvariantStep, PTL DEF Spec

-----------------------------------------------------------------------------
(* Theorems.                                                               *)

\* While the index is up, the end of the log says what it holds.
LEMMA UpIs ==
  ASSUME IInv, Trusted, pc = "idle"
  PROVE  Durable => owed \subseteq Content(ix) /\ gone \cap IdsOf(Content(ix)) = {}
<1>1. PICK was, b : Chain(was, b)   BY DEF IInv
<1>2. Sound   BY DEF Sound, IInv
<1>3. PICK g : g = GoodLen(log) /\ ChainAt(was, b, g)   BY <1>1, <1>2, ChainIs
<1>4. Same(ix, was[g + 1]) /\ PromisesOk(was, b, g)   BY <1>3 DEF ChainAt, Standing
<1>5. Content(ix) = Content(was[g + 1])   BY <1>4, SameIs
<1>6. g + 1 \in Floor + 1 .. g + 1   BY <1>2, <1>3, FloorIs
<1> QED BY <1>4, <1>5, <1>6 DEF PromisesOk

\* Any contents a trusted chain leads through were given.
LEMMA ReplayIs ==
  ASSUME IInv, Trusted, setting.reuse
  PROVE  NothingEverInvented
<1>1. PICK was, b : Chain(was, b)   BY DEF IInv
<1>2. Sound   BY DEF Sound, IInv
<1>3. PICK g : g = GoodLen(log) /\ ChainAt(was, b, g)   BY <1>1, <1>2, ChainIs
<1>4. b = 1 /\ g \in Nat   BY <1>2, <1>3, TrustIs DEF ChainAt, SnapshotOk
<1>5. \A k \in 1 .. g + 1 : Content(was[k]) \subseteq given
  BY <1>3, <1>4 DEF ChainAt, PromisesOk
<1>6. CASE pc \in {"idle", "truncating"}
  <2>1. Same(ix, was[g + 1])   BY <1>3, <1>6 DEF ChainAt, Standing
  <2>2. Content(ix) = Content(was[g + 1]) /\ g + 1 \in 1 .. g + 1   BY <2>1, <1>4, SameIs
  <2> QED BY <2>2, <1>5 DEF NothingEverInvented
<1>7. CASE pc = "logging"   BY <1>3, <1>7 DEF ChainAt, Standing, NothingEverInvented
<1>8. CASE pc = "down"   BY <1>8 DEF IInv, RunInv, NothingEverInvented
<1>9. CASE pc = "replaying"
  <2>1. at \in 1 .. g + 1 /\ Same(ix, was[at])
    <3>1. at \in Nat \ {0} /\ ~(at < b)   BY <1>4 DEF IInv, RunInv
    <3>2. at <= g + 1 /\ Same(ix, was[at])   BY <3>1, <1>3, <1>9 DEF ChainAt, Standing
    <3> QED BY <3>1, <3>2, <1>4
  <2>2. Content(ix) = Content(was[at])   BY <2>1, SameIs
  <2> QED BY <2>1, <2>2, <1>5 DEF NothingEverInvented
<1> QED BY <1>6, <1>7, <1>8, <1>9 DEF IInv, RunInv

\* What was acknowledged survives every crash (wal_append before the call returns,
\* ovvsCagraWalOpen after the restart), whatever the callers do, as often as it
\* crashes, if the log and the snapshots can be trusted.
THEOREM AckedAlwaysThere == Spec => []AckedSurvive
<1>1. IInv => AckedSurvive   BY UpIs DEF AckedSurvive, AckedAlwaysSurvive, Durable
<1> QED BY <1>1, Invariant, PTL

\* What was deleted and acknowledged does not come back under its id
\* (ovvsCagraDelete, replayed by ovvsCagraWalOpen).
THEOREM DeletedNeverBack == Spec => []DeletedStayGone
<1>1. IInv => DeletedStayGone   BY UpIs DEF DeletedStayGone, Durable
<1> QED BY <1>1, Invariant, PTL

\* No id gets a vector it never had: whatever fails if no row is reused, and where the
\* log can be trusted if rows are (the record's counts, checked by the replay).
THEOREM InventsNothing == Spec => []NothingInvented
<1>1. IInv => NothingInvented   BY GivenSafe, ReplayIs DEF NothingInvented, IInv
<1> QED BY <1>1, Invariant, PTL

\* The index that ovvsCagraWalOpen returns is one that was there before the crash.
THEOREM RecoversThePast == Spec => RecoversAPastState
<1>1. ASSUME IInv, [Next]_vars, Trusted, pc = "replaying", pc' = "idle"
      PROVE  Content(ix') \in past
  <2>1. CutTail /\ ix' = ix
    BY <1>1 DEF Next, vars, Delete, Update, Insert, Mutate, AppendRecord, WriteFails, FlushFails,
       WriteSnapshot, Truncate, TruncateFails, ProcessCrash, PowerCut, Close, Stop,
       OpenLog, ReplayRecord, CutTail
  <2>2. PICK was, b : Chain(was, b)   BY <1>1 DEF IInv
  <2>3. Sound   BY <1>1 DEF Sound, IInv
  <2>4. PICK g : g = GoodLen(log) /\ ChainAt(was, b, g)   BY <2>2, <2>3, ChainIs
  <2> QED BY <2>1, <2>3, <2>4, Recovered
<1>2. IInv /\ [Next]_vars =>
        [Trusted /\ pc = "replaying" /\ pc' = "idle" => Content(ix') \in past]_vars
  BY <1>1
<1> QED BY <1>2, Invariant, PTL DEF Spec, RecoversAPastState
=============================================================================
