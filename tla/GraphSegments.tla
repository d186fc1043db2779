--------------------------- MODULE GraphSegments ---------------------------
(***************************************************************************)
(* How a domain store keeps its promise on disk (internal/graph/storage):  *)
(* three append-only segments for transactions, nodes and edges, the order *)
(* in which CommitWithInfo appends and syncs them, checkpoints that record *)
(* how much of each segment they cover, and the replay of checkpoint and   *)
(* segment tails when the store is opened.                                 *)
(*                                                                         *)
(* The store's lock is held for a whole commit and a whole checkpoint, so  *)
(* only a crash comes between the steps of a commit.  A segment is a       *)
(* sequence of records, and a crash leaves a prefix of it, which may end   *)
(* in half a record.  When the daemon is killed, all it has written stays; *)
(* when the machine loses power, no more than the synced records is sure   *)
(* to.  Opening a store syncs nothing: it shows records that only a killed *)
(* daemon's writes hold, and a later power loss may still take them.  The  *)
(* history variable lost says that one did; the properties hold until then.*)
(***************************************************************************)
EXTENDS GraphStore, Sequences, SequencesExt

CONSTANTS MaxTxns,     \* bound: storage transactions
          MaxCrashes,  \* bound: crashes
          Faults,      \* the faults of the environment the run allows
          Faulty       \* the incarnations of the daemon they may happen in

\* There are finitely many ids, and None is no commit in progress.
ASSUME SegmentsAssumption ==
    /\ MaxTxns \in Nat
    /\ MaxCrashes \in Nat
    /\ Faults \subseteq {"torn", "data_error", "commit_error"}
    /\ Faulty \subseteq 0 .. MaxCrashes
    /\ IsFiniteSet(Nodes) /\ IsFiniteSet(Edges)
    /\ None \notin [txn : Nat, writes : WriteRecords, step : {"data", "commit", "sync"}]

VARIABLES
    disk,        \* disk[k]: the records written to segment k
    synced,      \* synced[k]: how many of them are durable
    checkpoint,  \* the checkpoint that latest points to, or None
    status,      \* "up", "down", or "failed" to open
    mem,         \* the LocalStore in memory; when down, as it was at the crash
    cur,         \* the commit in progress, or None; when down, the one cut off
    used,        \* storage transactions begun so far
    crashes,     \* crashes so far: the incarnation of the daemon
    found,       \* history: how many records of each segment this incarnation found
    lost         \* history: a power loss took some that an incarnation had found

vars == <<disk, synced, checkpoint, status, mem, cur, used, crashes, found, lost>>

Kinds == {"txn", "node", "edge"}

\* A record cut short: its header or its payload is incomplete.
Torn == [kind |-> "torn"]

Init ==
    /\ disk = [k \in Kinds |-> <<>>]
    /\ synced = [k \in Kinds |-> 0]
    /\ checkpoint = None
    /\ status = "up"
    /\ mem = EmptyStore
    /\ cur = None
    /\ used = 0
    /\ crashes = 0
    /\ found = [k \in Kinds |-> 0]
    /\ lost = FALSE

May(fault) == fault \in Faults /\ crashes \in Faulty

-----------------------------------------------------------------------------
(* CommitWithInfo.                                                         *)

\* The records of a transaction in one data segment: puts, then tombstones.
NodeRecords(t, w) ==
    SetToSeq({[kind |-> "put", txn |-> t, id |-> n, val |-> w.nodePuts[n]] :
                  n \in {m \in Nodes : w.nodePuts[m] # None}})
    \o SetToSeq({[kind |-> "tombstone", txn |-> t, id |-> n] : n \in w.nodeDeletes})

EdgeDataRecords(t, w) ==
    SetToSeq({[kind |-> "put", txn |-> t, id |-> e, val |-> w.edgePuts[e]] :
                  e \in {f \in Edges : w.edgePuts[f] # None}})
    \o SetToSeq({[kind |-> "tombstone", txn |-> t, id |-> e] : e \in w.edgeDeletes})

\* The conflict checks, then the begin record and the data records.  A base
\* revision older than the store's only refuses more commits.
BeginCommit(w) ==
    /\ status = "up" /\ cur = None
    /\ used < MaxTxns
    /\ w # NoWrites
    /\ ~Conflict(mem, w, mem.revision)
    /\ used' = used + 1
    /\ cur' = [txn |-> used', writes |-> w, step |-> "data"]
    /\ disk' = [txn  |-> Append(disk.txn, [kind |-> "begin", txn |-> used']),
                node |-> disk.node \o NodeRecords(used', w),
                edge |-> disk.edge \o EdgeDataRecords(used', w)]
    /\ UNCHANGED <<synced, checkpoint, status, mem, crashes, found, lost>>

\* Fault: the commit record is written without waiting for the data.
DataSyncedNone(w) == synced

\* syncDataSegments syncs the data segments the transaction wrote to.
DataSynced(w) ==
    [synced EXCEPT !.node = IF WrittenNodes(w) # {} THEN Len(disk.node) ELSE @,
                   !.edge = IF WrittenEdges(w) # {} THEN Len(disk.edge) ELSE @]

SyncData ==
    /\ status = "up" /\ cur # None /\ cur.step = "data"
    /\ synced' = DataSynced(cur.writes)
    /\ cur' = [cur EXCEPT !.step = "commit"]
    /\ UNCHANGED <<disk, checkpoint, status, mem, used, crashes, found, lost>>

\* The commit record, with the revision that an idempotency key makes it carry:
\* a commit without one gives open less to check.
AppendCommit ==
    /\ status = "up" /\ cur # None /\ cur.step = "commit"
    /\ disk' = [disk EXCEPT !.txn = Append(@, [kind |-> "commit", txn |-> cur.txn,
                                                  rev |-> mem.revision + 1])]
    /\ cur' = [cur EXCEPT !.step = "sync"]
    /\ UNCHANGED <<synced, checkpoint, status, mem, used, crashes, found, lost>>

\* Fault: the commit is acknowledged before its record is synced.
CommitSyncedNone == synced

\* The sync of the transaction segment.
CommitSynced == [synced EXCEPT !.txn = Len(disk.txn)]

\* That sync, the in-memory application and the acknowledgement.
FinishCommit ==
    /\ status = "up" /\ cur # None /\ cur.step = "sync"
    /\ synced' = CommitSynced
    /\ mem' = ApplyWrites(mem, cur.writes)
    /\ cur' = None
    /\ UNCHANGED <<disk, checkpoint, status, used, crashes, found, lost>>

\* An error while the data is synced or in the commit hook that follows, or
\* while the commit record is synced: the caller gets it, the records stay and
\* the store goes on.
FailCommit ==
    /\ status = "up" /\ cur # None
    /\ \/ cur.step \in {"data", "commit"} /\ May("data_error")
       \/ cur.step = "sync" /\ May("commit_error")
    /\ cur' = None
    /\ UNCHANGED <<disk, synced, checkpoint, status, mem, used, crashes, found, lost>>

-----------------------------------------------------------------------------
(* Checkpoints.                                                            *)

\* captureCheckpointSegmentOffsetsLocked: the sizes of the files.
CapturedOffsets == [k \in Kinds |-> Len(disk[k])]

\* The payloads and the manifest are synced before the pointer is renamed.
WriteCheckpoint ==
    /\ status = "up" /\ cur = None
    /\ checkpoint' = [nodes |-> mem.nodes, edges |-> mem.edges,
                      revision |-> mem.revision, offsets |-> CapturedOffsets]
    /\ UNCHANGED <<disk, synced, status, mem, cur, used, crashes, found, lost>>

-----------------------------------------------------------------------------
(* Opening a store.                                                        *)

Failed == [ok |-> FALSE, store |-> EmptyStore]

\* scanSegmentFrom: half a record at the end of the file ends the scan.  In
\* front of other records it makes the reader take their bytes for its own:
\* the checksum fails, or the file ends and the scan with it.
Scan(records, from) ==
    LET cuts == {i \in from + 1 .. Len(records) : records[i].kind = "torn"}
        upTo(i) == [ok |-> TRUE, records |-> SubSeq(records, from + 1, i)] IN
    IF cuts = {} THEN {upTo(Len(records))}
    ELSE IF Min(cuts) = Len(records) THEN {upTo(Min(cuts) - 1)}
    ELSE {upTo(Min(cuts) - 1), [ok |-> FALSE, records |-> <<>>]}

\* The transactions that have a commit record among the first i.
CommittedIn(records, i) == {records[j].txn : j \in {k \in 1 .. i : records[k].kind = "commit"}}

\* commitRevision: a transaction's first commit record gives its revision.
CommitRevisions(records, base) ==
    [t \in CommittedIn(records, Len(records)) |->
        LET first == Min({i \in DOMAIN records : records[i].kind = "commit" /\ records[i].txn = t})
        IN  base + Cardinality(CommittedIn(records, first))]

\* One data record as a write set.
NodeWrite(r) == IF r.kind = "put" THEN [NoWrites EXCEPT !.nodePuts[r.id] = r.val]
                ELSE [NoWrites EXCEPT !.nodeDeletes = {r.id}]
EdgeWrite(r) == IF r.kind = "put" THEN [NoWrites EXCEPT !.edgePuts[r.id] = r.val]
                ELSE [NoWrites EXCEPT !.edgeDeletes = {r.id}]

NodeReplayed(s, r, rev) == [s EXCEPT !.nodes = ApplyNodes(s, NodeWrite(r)),
                                     !.nodeMod[r.id] = rev]
EdgeReplayed(s, r, rev) == [s EXCEPT !.edges = ApplyEdges(s, EdgeWrite(r)),
                                     !.parent = ApplyParents(s, EdgeWrite(r)),
                                     !.edgeMod[r.id] = rev]

\* replayNodeSegmentFrom and replayEdgeSegmentFrom: records of a transaction
\* without a revision are passed over.
SegmentReplayed(k, s, revisions, records) ==
    LET after[i \in 0 .. Len(records)] ==
          IF i = 0 THEN s
          ELSE IF records[i].txn \notin DOMAIN revisions THEN after[i - 1]
          ELSE IF k = "node" THEN NodeReplayed(after[i - 1], records[i], revisions[records[i].txn])
          ELSE EdgeReplayed(after[i - 1], records[i], revisions[records[i].txn])
    IN  after[Len(records)]

\* The three segments replayed: nodes and edges fill maps of their own.
Replay(s, txns, nodes, edges) ==
    LET revisions == CommitRevisions(txns, s.revision)
        byNodes == SegmentReplayed("node", s, revisions, nodes)
        byEdges == SegmentReplayed("edge", s, revisions, edges)
    IN  [nodes    |-> byNodes.nodes,
         edges    |-> byEdges.edges,
         parent   |-> byEdges.parent,
         nodeMod  |-> byNodes.nodeMod,
         edgeMod  |-> byEdges.edgeMod,
         revision |-> s.revision + Cardinality(DOMAIN revisions)]

\* Fault: entities of a checkpoint come without modification revisions.
HydratedUnmodified(c) ==
    [nodes    |-> c.nodes,
     edges    |-> c.edges,
     parent   |-> ApplyParents(EmptyStore, [NoWrites EXCEPT !.edgePuts = c.edges]),
     nodeMod  |-> [n \in Nodes |-> 0],
     edgeMod  |-> [e \in Edges |-> 0],
     revision |-> c.revision]

\* hydrateCheckpointFull: every entity counts as written at the checkpoint.
Hydrated(c) ==
    [nodes    |-> c.nodes,
     edges    |-> c.edges,
     parent   |-> ApplyParents(EmptyStore, [NoWrites EXCEPT !.edgePuts = c.edges]),
     nodeMod  |-> [n \in Nodes |-> IF c.nodes[n] # None THEN c.revision ELSE 0],
     edgeMod  |-> [e \in Edges |-> IF c.edges[e] # None THEN c.revision ELSE 0],
     revision |-> c.revision]

\* What opening the segments from the given offsets can come to.
Replayed(d, start, from) ==
    {IF t.ok /\ n.ok /\ e.ok
     THEN [ok |-> TRUE, store |-> Replay(start, t.records, n.records, e.records)] ELSE Failed :
        t \in Scan(d.txn, from.txn), n \in Scan(d.node, from.node), e \in Scan(d.edge, from.edge)}

FullReplay(d) == Replayed(d, EmptyStore, [k \in Kinds |-> 0])

\* loadCheckpoint: a checkpoint whose tail cannot be read is put aside for the
\* full replay.
Loaded(d, c) ==
    IF c = None THEN FullReplay(d)
    ELSE UNION {IF o.ok THEN {o} ELSE FullReplay(d) : o \in Replayed(d, Hydrated(c), c.offsets)}

\* loadIdempotencyRecords counts the commit records of the whole transaction
\* segment again: the count must be the store's revision, and every commit must
\* be where its record says.
Consistent(s, records) ==
    /\ Cardinality(CommittedIn(records, Len(records))) = s.revision
    /\ \A i \in DOMAIN records :
          records[i].kind = "commit" => records[i].rev = Cardinality(CommittedIn(records, i))

\* Everything open can come to on disk d with checkpoint c.
Reopened(d, c) ==
    {IF o.ok /\ t.ok /\ Consistent(o.store, t.records) THEN o ELSE Failed :
        o \in Loaded(d, c), t \in Scan(d.txn, 0)}

\* A checkpoint that fails validation is put aside as well.
Open ==
    /\ status = "down"
    /\ \E c \in {checkpoint, None} : \E o \in Reopened(disk, c) :
          \/ /\ o.ok
             /\ status' = "up"
             /\ mem' = o.store
             /\ cur' = None
          \/ /\ ~o.ok
             /\ status' = "failed"
             /\ UNCHANGED <<mem, cur>>
    /\ UNCHANGED <<disk, synced, checkpoint, used, crashes, found, lost>>

\* Records of the append in progress, which a stop may find half done.
Pending(r) ==
    /\ cur # None /\ r.kind # "torn" /\ r.txn = cur.txn
    /\ cur.step = "data" \/ (cur.step = "sync" /\ r.kind = "commit")

\* How many records of segment k can stay: the written ones when the daemon is
\* killed, the synced ones and any more when the power fails.
Staying(k, power) ==
    {i \in synced[k] .. Len(disk[k]) : power \/ i >= Len(SelectSeq(disk[k], LAMBDA r : ~Pending(r)))}

\* What a crash can leave of segment k.
Remains(k, power) ==
    {SubSeq(disk[k], 1, i) : i \in Staying(k, power)}
    \cup (IF May("torn")
          THEN {Append(SubSeq(disk[k], 1, i), Torn) : i \in Staying(k, power) \ {Len(disk[k])}}
          ELSE {})

\* The daemon is killed or its machine loses power.  A power loss while the
\* daemon is down leaves no more than one in place of the kill.
Crash(power) ==
    /\ status = "up"
    /\ crashes < MaxCrashes
    /\ \E t \in Remains("txn", power), n \in Remains("node", power), e \in Remains("edge", power) :
          disk' = [txn |-> t, node |-> n, edge |-> e]
    /\ synced' = IF power THEN [k \in Kinds |-> Len(disk'[k])] ELSE synced
    /\ found' = [k \in Kinds |-> Len(disk'[k])]
    /\ lost' = (lost \/ \E k \in Kinds : ~IsPrefix(SubSeq(disk[k], 1, found[k]), disk'[k]))
    /\ status' = "down"
    /\ crashes' = crashes + 1
    /\ UNCHANGED <<checkpoint, mem, cur, used>>

Next ==
    \/ \E w \in WriteSets : BeginCommit(w)
    \/ SyncData
    \/ AppendCommit
    \/ FinishCommit
    \/ FailCommit
    \/ WriteCheckpoint
    \/ Open
    \/ \E power \in BOOLEAN : Crash(power)

Spec == Init /\ [][Next]_vars

-----------------------------------------------------------------------------
(* Properties.                                                             *)

\* What a reader sees of a store.
AtomicView(s) == [nodes |-> s.nodes, edges |-> s.edges, parent |-> s.parent, revision |-> s.revision]

\* The commit record of the commit that the crash cut off is on disk.
CommitOnDisk ==
    /\ cur # None
    /\ \E i \in DOMAIN disk.txn : disk.txn[i].kind = "commit" /\ disk.txn[i].txn = cur.txn

\* The graph readers see, or will see once the store is open again.
Graph == AtomicView(IF status # "up" /\ CommitOnDisk THEN ApplyWrites(mem, cur.writes) ELSE mem)

\* As long as no power loss took what an incarnation had found, the files hold,
\* after a crash, exactly the acknowledged commits, and the one that was cut off
\* as a whole or not at all: opening succeeds and shows that graph, from the
\* checkpoint as from the segments alone.
RecoveryExact ==
    status = "down" /\ ~lost =>
        \A c \in {checkpoint, None} : \A o \in Reopened(disk, c) :
            o.ok /\ AtomicView(o.store) = Graph

\* Opening from a checkpoint never makes a live entity look older than its
\* last commit, which would let a stale write pass writeSetConflict (as long as
\* no power loss took what an incarnation had found).
ModRevisionsKept ==
    status = "down" /\ ~lost =>
        \A o \in Reopened(disk, checkpoint), p \in FullReplay(disk) : o.ok /\ p.ok =>
            /\ \A n \in Nodes : o.store.nodes[n] # None =>
                                     o.store.nodeMod[n] >= p.store.nodeMod[n]
            /\ \A e \in Edges : o.store.edges[e] # None =>
                                     o.store.edgeMod[e] >= p.store.edgeMod[e]

Atomic == INSTANCE AtomicGraph WITH graph <- Graph

\* Across appends, syncs, checkpoints, crashes and replays the store behaves
\* as one graph that changes by whole commits and loses none, until a power
\* loss takes what an incarnation had found and shown.
ImplementsAtomicGraph == Atomic!Init /\ [][Atomic!Next \/ lost']_Graph
=============================================================================
