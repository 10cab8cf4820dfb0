------------------------------ MODULE CagraWal ------------------------------
(***************************************************************************)
(* Durability of a CAGRA index (src/neighbors/graphs.cpp): a mutation      *)
(* changes the rows in memory and then appends one record to the           *)
(* write-ahead log; ovvsCagraSerialize writes a snapshot and then empties  *)
(* the log; after a crash the caller loads the last snapshot and           *)
(* ovvsCagraWalOpen replays the log over it, record by record.             *)
(*                                                                         *)
(* Mutations are whole calls here (CagraSlots has their phases) and their  *)
(* repairs succeed.  Rows are numbered from 1, edges and PQ codes are left *)
(* out.  The log is the sequence of records in the file as the operating   *)
(* system has it, the first `synced` of them on stable storage; a record   *)
(* whose CRC does not match is Torn.                                       *)
(***************************************************************************)
EXTENDS Integers, Sequences, FiniteSets
LOCAL INSTANCE SequencesExt

CONSTANTS
  Vec,           \* the vectors callers store
  InitRows,      \* rows of the index the first snapshot holds
  Batch,         \* bound: ids or vectors in one call
  Settings       \* how the index may be used and what may go wrong with it

\* mutations, snapshots, crashes: bounds on what happens to the index;
\* reuse: inserts ask for ids (ExtendEx) or not (Extend);
\* fsync: fsync_every > 0;
\* window: a crash may fall between a snapshot and the truncation;
\* faults: "power": crashes may be power cuts; "disk": writes may fail;
\* "reopen": the log may fail to reopen; "replay": a replayed mutation may fail.
ASSUME CagraWalAssumption ==
  /\ InitRows \in Nat \ {0} /\ Batch \in Nat \ {0}
  /\ Settings \subseteq [mutations : Nat, snapshots : Nat, crashes : Nat,
                         reuse : BOOLEAN, fsync : BOOLEAN, window : BOOLEAN,
                         faults : SUBSET {"power", "disk", "reopen", "replay"}]

VARIABLES
  setting,      \* one of Settings
  ix,           \* the index in memory: vec, gen, dead, free
  log, synced,  \* the log file
  attached,     \* whether CagraWal::f is open
  snapshot,     \* the last snapshot file
  oldSnapshot,  \* what a power cut may leave of it
  pc,           \* where the running call stands
  pend,         \* the mutation applied but not yet logged
  at,           \* the record that replay reads next
  \* History: contents of the index so far; pairs <<id, vector>> callers were
  \* told are stored; ids they were told are deleted; pairs ever stored, also
  \* by calls that failed or never returned.
  past, owed, gone, given,
  mutations, snapshots, crashes

disk == <<log, synced, attached, snapshot, oldSnapshot>>
told == <<owed, gone>>
counters == <<mutations, snapshots, crashes>>
vars == <<setting, ix, disk, pc, pend, at, past, told, given, counters>>

-----------------------------------------------------------------------------
(* The index as a value.                                                   *)

Pack(x, r) == <<r, x.gen[r]>>

Content(x) == {<<Pack(x, r), x.vec[r]>> : r \in DOMAIN x.vec \ x.dead}

IdsOf(c) == {p[1] : p \in c}

Resolves(x, id) == id[1] \in DOMAIN x.vec /\ x.gen[id[1]] = id[2]

\* What a snapshot holds: generations and tombstones, not the free list.
Image(x) == [vec |-> x.vec, gen |-> x.gen, dead |-> x.dead]

\* ovvsCagraDeserialize derives the free list from the tombstones, by row.
Load(s) == [vec |-> s.vec, gen |-> s.gen, dead |-> s.dead,
            free |-> SetToSortSeq(s.dead, <)]

Down == [vec |-> <<>>, gen |-> <<>>, dead |-> {}, free |-> <<>>]

\* The rows a mutation names.
Named(m) == {m.ids[k][1] : k \in DOMAIN m.ids}

\* Delete pushes the rows it buries in the order of the call, each once.
Buried(x, m) ==
  LET first == {k \in DOMAIN m.ids :
                  m.ids[k][1] \notin x.dead /\ \A j \in 1 .. k - 1 : m.ids[j] # m.ids[k]}
  IN  [i \in 1 .. Cardinality(first) |-> m.ids[SetToSortSeq(first, <)[i]][1]]

\* The vector an update leaves in a row it names: that of the last mention.
Rewritten(m, r) ==
  m.vecs[CHOOSE k \in DOMAIN m.ids :
           m.ids[k][1] = r /\ \A j \in DOMAIN m.ids : m.ids[j][1] = r => j <= k]

Usable(x) == {k \in DOMAIN x.free : x.free[k] \in x.dead}

\* The last usable entry of the free list; the stale ones behind it are dropped.
Claim(x, v) ==
  LET k == CHOOSE j \in Usable(x) : \A l \in Usable(x) : l <= j
      r == x.free[k]
  IN  [vec  |-> [x.vec EXCEPT ![r] = v],
       gen  |-> [x.gen EXCEPT ![r] = @ + 1],
       dead |-> x.dead \ {r},
       free |-> SubSeq(x.free, 1, k - 1)]

Put(x, v) ==
  IF Usable(x) # {} THEN Claim(x, v)
  ELSE [vec |-> Append(x.vec, v), gen |-> Append(x.gen, 0), dead |-> x.dead, free |-> <<>>]

\* The mutation m as its public entry point performs it; one that names an id
\* that does not resolve is rejected whole.  Update revives the rows it overwrites
\* and leaves their entries on the free list.
Apply(x, m) ==
  IF \E k \in DOMAIN m.ids : ~Resolves(x, m.ids[k]) THEN x
  ELSE CASE m.type = "delete" ->
              [x EXCEPT !.dead = @ \cup Named(m), !.free = @ \o Buried(x, m)]
         [] m.type = "update" ->
              [x EXCEPT !.vec = [r \in DOMAIN @ |->
                                   IF r \in Named(m) THEN Rewritten(m, r) ELSE @[r]],
                        !.dead = @ \ Named(m)]
         [] m.type = "insert" -> FoldLeft(Put, x, m.vecs)
         [] m.type = "insertNoIds" ->
              [x EXCEPT !.vec = @ \o m.vecs,
                        !.gen = @ \o [k \in DOMAIN m.vecs |-> 0]]

\* Mutant: an insert is replayed without its precondition.
AlwaysApplies(x, m) == TRUE

\* An insert is replayed only over the counts it was made on.
Applies(x, m) ==
  m.type \in {"insert", "insertNoIds"} =>
    m.rows = Len(x.vec) /\ m.deleted = Cardinality(x.dead)

Torn == [type |-> "torn", rows |-> 0, deleted |-> 0, ids |-> <<>>, vecs |-> <<>>]

\* Mutant: inserts are replayed without asking for ids, so they reuse no row.
ReplayedWithoutReuse(x, m) ==
  IF Applies(x, m)
  THEN Apply(x, IF m.type = "insert" THEN [m EXCEPT !.type = "insertNoIds"] ELSE m)
  ELSE x

\* What a replayed record makes of the index.
Replayed(x, m) == IF Applies(x, m) THEN Apply(x, m) ELSE x

-----------------------------------------------------------------------------
(* Calls.                                                                  *)

Requests(S) == UNION {[1 .. k -> S] : k \in 1 .. Batch}

None == [rec |-> Torn, before |-> {}]

Init ==
  /\ setting \in Settings
  /\ \E v \in [1 .. InitRows -> Vec] :
       snapshot = [vec |-> v, gen |-> [r \in 1 .. InitRows |-> 0], dead |-> {}]
  /\ oldSnapshot = snapshot
  /\ ix = Load(snapshot)
  /\ log = <<>> /\ synced = 0 /\ attached = TRUE
  /\ pc = "idle" /\ pend = None /\ at = 1
  /\ past = {Content(ix)} /\ owed = Content(ix) /\ gone = {} /\ given = Content(ix)
  /\ mutations = 0 /\ snapshots = 0 /\ crashes = 0

\* A mutation takes effect in memory; its record holds the counts from before.
Mutate(type, ids, vecs) ==
  LET m == [type |-> type, rows |-> Len(ix.vec), deleted |-> Cardinality(ix.dead),
            ids |-> ids, vecs |-> vecs]
  IN  /\ pc = "idle" /\ mutations < setting.mutations
      /\ pc' = "logging"
      /\ pend' = [rec |-> m, before |-> Content(ix)]
      /\ ix' = Apply(ix, m)
      /\ past' = past \cup {Content(ix')}
      /\ given' = given \cup Content(ix')
      /\ mutations' = mutations + 1
      /\ UNCHANGED <<disk, at, told, snapshots, crashes>>

\* The ids a caller holds that still name a row.
Resolvable == {Pack(ix, r) : r \in DOMAIN ix.vec}

Delete == \E ids \in Requests(Resolvable) : Mutate("delete", ids, <<>>)

Update == \E ids \in Requests(Resolvable) : \E vecs \in [DOMAIN ids -> Vec] :
            Mutate("update", ids, vecs)

Insert == \E vecs \in Requests(Vec) :
            Mutate(IF setting.reuse THEN "insert" ELSE "insertNoIds", <<>>, vecs)

Gained == Content(ix) \ pend.before
Lost == pend.before \ Content(ix)

\* The call returns OVVS_STATUS_SUCCESS.
Acknowledge ==
  /\ owed' = (owed \ Lost) \cup Gained
  /\ gone' = (gone \cup IdsOf(Lost)) \ IdsOf(Gained)

\* The call returns an error, or never: nothing is promised of what it touched.
LeaveInDoubt ==
  /\ owed' = owed \ Lost
  /\ gone' = gone \ IdsOf(Gained)

Returned == pc' = "idle" /\ pend' = None

\* wal_append, then wal_flush.  Without a file it succeeds and writes nothing.
AppendRecord ==
  /\ pc = "logging"
  /\ log' = IF attached THEN Append(log, pend.rec) ELSE log
  /\ synced' = IF attached /\ setting.fsync THEN Len(log') ELSE synced
  /\ Acknowledge /\ Returned
  /\ UNCHANGED <<ix, attached, snapshot, oldSnapshot, at, past, given, counters>>

\* The record does not fit on the disk: fwrite fails and the call reports it.
WriteFails ==
  /\ pc = "logging" /\ attached /\ "disk" \in setting.faults
  /\ log' \in {log, Append(log, Torn)}
  /\ LeaveInDoubt /\ Returned
  /\ UNCHANGED <<ix, synced, attached, snapshot, oldSnapshot, at, past, given, counters>>

\* The same, but the record fitted into the stdio buffer: it is fflush that
\* fails, and wal_flush does not look.
FlushFails ==
  /\ pc = "logging" /\ attached /\ "disk" \in setting.faults
  /\ log' \in {log, Append(log, Torn)}
  /\ Acknowledge /\ Returned
  /\ UNCHANGED <<ix, synced, attached, snapshot, oldSnapshot, at, past, given, counters>>

\* ovvsCagraSerializeEx writes and closes the file (and does not sync it) ...
WriteSnapshot ==
  /\ pc = "idle" /\ snapshots < setting.snapshots
  /\ snapshot' = Image(ix) /\ oldSnapshot' = snapshot
  /\ pc' = "truncating"
  /\ snapshots' = snapshots + 1
  /\ UNCHANGED <<ix, log, synced, attached, pend, at, past, told, given, mutations, crashes>>

\* ... and then empties the log.
Truncate ==
  /\ pc = "truncating"
  /\ log' = IF attached THEN <<>> ELSE log
  /\ synced' = IF attached THEN 0 ELSE synced
  /\ Returned
  /\ UNCHANGED <<ix, attached, snapshot, oldSnapshot, at, past, told, given, counters>>

\* wal_truncate closes the file and cannot open it again; nobody is told.
TruncateFails ==
  /\ pc = "truncating" /\ attached /\ "reopen" \in setting.faults
  /\ attached' = FALSE
  /\ Returned
  /\ UNCHANGED <<ix, log, synced, snapshot, oldSnapshot, at, past, told, given, counters>>

-----------------------------------------------------------------------------
(* Crashes and recovery.                                                   *)

\* What the file may hold when the crash falls into an append.
LogAtCrash ==
  IF pc = "logging" /\ attached
    THEN {log, Append(log, Torn), Append(log, pend.rec)}
    ELSE {log}

Stop ==
  /\ pc # "down" /\ crashes < setting.crashes
  /\ pc = "truncating" => setting.window
  /\ pc' = "down" /\ ix' = Down /\ pend' = None /\ at' = 1
  /\ attached' = FALSE
  /\ IF pc = "logging" THEN LeaveInDoubt ELSE UNCHANGED told
  /\ crashes' = crashes + 1
  /\ UNCHANGED <<past, given, mutations, snapshots>>

\* The process dies: the files stay as the operating system has them.
ProcessCrash ==
  /\ Stop
  /\ log' \in LogAtCrash
  /\ UNCHANGED <<synced, snapshot, oldSnapshot>>

\* The machine dies: of the log at least what was synced survives, of the
\* snapshot perhaps nothing.  (An unsynced truncation counts as done.)
PowerCut ==
  /\ "power" \in setting.faults
  /\ Stop
  /\ \E l \in LogAtCrash : \E k \in synced .. Len(l) :
       \/ log' = SubSeq(l, 1, k)
       \/ k < Len(l) /\ log' = Append(SubSeq(l, 1, k), Torn)
  /\ snapshot' \in {snapshot, oldSnapshot}
  /\ oldSnapshot' = snapshot'
  /\ synced' = synced

\* The log is flushed and closed, and the caller lets go of the index.  (What is
\* done to an index after that is logged nowhere, as agreed, and left out.)
Close ==
  /\ pc = "idle" /\ attached
  /\ Stop
  /\ synced' = IF setting.fsync THEN Len(log) ELSE synced
  /\ UNCHANGED <<log, snapshot, oldSnapshot>>

\* The caller loads the snapshot and opens the log ...
OpenLog ==
  /\ pc = "down"
  /\ ix' = Load(snapshot)
  /\ pc' = "replaying" /\ at' = 1
  /\ UNCHANGED <<disk, pend, past, told, given, counters>>

\* Replay stops at the end of the file, or at a record whose CRC is wrong.
AtEnd == at \in DOMAIN log => log[at] = Torn

\* ... which is replayed; nobody looks at the status of the replayed call.
ReplayRecord ==
  /\ pc = "replaying" /\ ~AtEnd
  /\ \/ ix' = Replayed(ix, log[at])
     \/ "replay" \in setting.faults /\ ix' = ix
  /\ at' = at + 1
  /\ UNCHANGED <<disk, pc, pend, past, told, given, counters>>

\* Mutant: the end of the last good record is taken before it is read.
GoodBeforeLast == IF at < 2 THEN 0 ELSE at - 2

\* The end of the last good record.
Good == at - 1

\* The log is cut there, and appends go on.  Left out: when the file that was just
\* read does not open for update, it is created anew (graphs.cpp 2579), empty.
CutTail ==
  /\ pc = "replaying" /\ AtEnd
  /\ log' = SubSeq(log, 1, Good)
  /\ synced' = IF synced <= Good THEN synced ELSE Good
  /\ attached' = TRUE
  /\ pc' = "idle" /\ at' = 1
  /\ past' = past \cup {Content(ix)}
  /\ UNCHANGED <<ix, snapshot, oldSnapshot, pend, told, given, counters>>

Next ==
  /\ \/ Delete \/ Update \/ Insert
     \/ AppendRecord \/ WriteFails \/ FlushFails
     \/ WriteSnapshot \/ Truncate \/ TruncateFails
     \/ ProcessCrash \/ PowerCut \/ Close
     \/ OpenLog \/ ReplayRecord \/ CutTail
  /\ UNCHANGED setting

Spec == Init /\ [][Next]_vars

-----------------------------------------------------------------------------
(* Properties.                                                             *)

\* Rows, tombstones and free list stay within the index; the log is synced at
\* most to its end; a record is pending only while a call appends it.
TypeOK ==
  /\ DOMAIN ix.gen = DOMAIN ix.vec /\ ix.dead \subseteq DOMAIN ix.vec
  /\ \A k \in DOMAIN ix.free : ix.free[k] \in DOMAIN ix.vec
  /\ synced \in 0 .. Len(log) /\ attached \in BOOLEAN
  /\ pc \in {"idle", "logging", "truncating", "down", "replaying"}
  /\ at \in 1 .. Len(log) + 1
  /\ pc = "logging" <=> pend # None
  /\ mutations \in 0 .. setting.mutations /\ snapshots \in 0 .. setting.snapshots
  /\ crashes \in 0 .. setting.crashes

\* Where writes and replays succeed, and a snapshot is on stable storage and
\* keeps all that inserts depend on (it drops the order of the free list).
Trusted ==
  /\ setting.faults \subseteq {"power"}
  /\ setting.snapshots > 0 => setting.faults = {} /\ ~setting.reuse

\* Where moreover each record reaches stable storage before its call returns.
Durable == Trusted /\ ("power" \in setting.faults => setting.fsync)

\* Whatever crashes: the vector of every acknowledged insert or update is there,
\* under the id the caller was told.
AckedAlwaysSurvive == pc = "idle" => owed \subseteq Content(ix)
\* The same, where the log and the snapshots can be trusted.
AckedSurvive == Durable => AckedAlwaysSurvive

\* An acknowledged delete is not undone by a recovery, where the log and the
\* snapshots can be trusted.
DeletedStayGone == Durable /\ pc = "idle" => gone \cap IdsOf(Content(ix)) = {}

\* Recovery invents nothing: each row holds a vector that was once stored under
\* that id, whatever fails, unless rows are reused ...
NothingEverInvented == Content(ix) \subseteq given
\* ... and then as well where the log can be trusted.
NothingInvented == ~setting.reuse \/ Trusted => NothingEverInvented

\* A recovery brings the index back to a state it was in: no mutation is applied
\* twice, half, or over others it did not follow.
RecoversAlwaysAPastState ==
  [][pc = "replaying" /\ pc' = "idle" => Content(ix') \in past]_vars
\* A recovery brings the index back to a state it was in, where the log and the
\* snapshots can be trusted.
RecoversAPastState ==
  [][Trusted /\ pc = "replaying" /\ pc' = "idle" => Content(ix') \in past]_vars

=============================================================================
