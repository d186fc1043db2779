-------------------------- MODULE PartitionReplica --------------------------
(***************************************************************************)
(* The graph state machine of one partition on the members of its Raft     *)
(* group (internal/graph/service/raft*.go): commits as commands of one     *)
(* committed log, their application, the markers of applied commands,      *)
(* partition snapshots, and the restart of a member, which restores the    *)
(* stored snapshot and replays every committed entry after it on top of    *)
(* the graph that its disk still holds.                                    *)
(*                                                                         *)
(* A member holds replicas of several partitions in one module, which has  *)
(* one set of markers for all of them: the snapshot of one partition takes *)
(* along, and its restore adds, the markers of the others.  The model has  *)
(* one partition and the markers that snapshots of another one bring.      *)
(*                                                                         *)
(* The group is its committed log (RaftGroup has the group itself).  A     *)
(* member of Values stands for the updated_at of an entity, the part of    *)
(* an entity that the replay of a command compares.                        *)
(***************************************************************************)
EXTENDS GraphStore, Sequences

CONSTANTS Members,
          GraphCommands,    \* command ids; one transaction commits each
          CommandWrites,    \* the write set of each command
          CommandKey,       \* its idempotency key, or None
          KeyNames,
          Unreachable,      \* <<member, command>>: a blob it refers to is out of reach there
          Displaced,        \* commands of automation attempts displaced before their commit
          OtherPartitions,  \* whether the members hold replicas of another partition too
          MaxLog,           \* bound on committed entries
          MaxMemberCrashes, \* bound on crashes
          MaxSnapshots,     \* bound on snapshots taken, of this partition and the other
          MaxCheckpoints,   \* bound on store checkpoints
          MaxEvents         \* bound on all three together

ASSUME PartitionAssumption ==
    /\ Values \subseteq Nat
    /\ CommandWrites \in [GraphCommands -> WriteSets \ {NoWrites}]
    /\ CommandKey \in [GraphCommands -> KeyNames \cup {None}]
    /\ None \notin KeyNames
    /\ Unreachable \subseteq Members \X GraphCommands
    /\ Displaced \subseteq GraphCommands
    /\ OtherPartitions \in BOOLEAN
    /\ {MaxLog, MaxMemberCrashes, MaxSnapshots, MaxCheckpoints, MaxEvents} \subseteq Nat

VARIABLES prLog,        \* the committed entries: command and base revision
          prBase,       \* the base revision of each command's transaction
          prStore,      \* each member's graph store
          prKeys,       \* its idempotency records: the command kept for a key
          prMarks,      \* its raft-applied-commands.json
          prCommit,     \* the commit index in its hard state
          prApplied,    \* its applied index
          prReplayTo,   \* entries up to here are applied with Replay set
          prPhase,      \* "up", "marking" or "down"
          prSnapshot,   \* its stored partition snapshot
          prCheckpoint, \* the revision of its store's last checkpoint
          prHeld,       \* the entries whose writes entered its graph, in order
          prElsewhere,  \* the markers in its stored snapshot of the other partition
          prMisled,     \* members that such a snapshot has given markers they had not
          prRebuilt,    \* members whose modification revisions were rebuilt
          prCount       \* crashes, snapshots and checkpoints so far

prVars == <<prLog, prBase, prStore, prKeys, prMarks, prCommit, prApplied, prReplayTo, prPhase,
            prSnapshot, prCheckpoint, prHeld, prElsewhere, prMisled, prRebuilt, prCount>>
prGraphVars == <<prStore, prKeys, prHeld>>
prIndexVars == <<prCommit, prApplied, prReplayTo>>
prOtherVars == <<prElsewhere, prMisled>>
prGhosts == <<prOtherVars, prRebuilt, prCount>>

PrInit ==
    /\ prLog = <<>>
    /\ prBase = [c \in GraphCommands |-> None]
    /\ prStore = [r \in Members |-> EmptyStore]
    /\ prKeys = [r \in Members |-> [k \in KeyNames |-> None]]
    /\ prMarks = [r \in Members |-> {}]
    /\ prCommit = [r \in Members |-> 0]
    /\ prApplied = [r \in Members |-> 0]
    /\ prReplayTo = [r \in Members |-> 0]
    /\ prPhase = [r \in Members |-> "up"]
    /\ prSnapshot = [r \in Members |-> None]
    /\ prCheckpoint = [r \in Members |-> 0]
    /\ prHeld = [r \in Members |-> <<>>]
    /\ prElsewhere = [r \in Members |-> {}]
    /\ prMisled = {}
    /\ prRebuilt = {}
    /\ prCount = [crashes |-> 0, snapshots |-> 0, checkpoints |-> 0]

\* One more crash, snapshot or checkpoint.
Counted(kind, bound) ==
    /\ prCount[kind] < bound
    /\ prCount.crashes + prCount.snapshots + prCount.checkpoints < MaxEvents
    /\ prCount' = [prCount EXCEPT ![kind] = @ + 1]

-----------------------------------------------------------------------------
(* Transactions and the group.                                             *)

\* The transaction of a command begins on a member, at its store's revision.
TxBegin(c, r) ==
    /\ prPhase[r] = "up"
    /\ prApplied[r] >= prReplayTo[r]
    /\ prBase[c] = None
    /\ prBase' = [prBase EXCEPT ![c] = prStore[r].revision]
    /\ UNCHANGED <<prLog, prGraphVars, prMarks, prIndexVars, prPhase, prSnapshot, prCheckpoint, prGhosts>>

\* Its command is committed; a retry whose first proposal was committed after
\* all is committed a second time under the same command id.
GroupCommit(c) ==
    /\ prBase[c] # None
    /\ Len(prLog) < MaxLog
    /\ prLog' = Append(prLog, [cmd |-> c, base |-> prBase[c]])
    /\ UNCHANGED <<prBase, prGraphVars, prMarks, prIndexVars, prPhase, prSnapshot, prCheckpoint, prGhosts>>

\* A member's hard state has the commit index before an entry is applied.
LearnCommit(r) ==
    /\ prPhase[r] = "up"
    /\ prCommit[r] < Len(prLog)
    /\ prCommit' = [prCommit EXCEPT ![r] = Len(prLog)]
    /\ UNCHANGED <<prLog, prBase, prGraphVars, prMarks, prApplied, prReplayTo, prPhase, prSnapshot,
                   prCheckpoint, prGhosts>>

-----------------------------------------------------------------------------
(* applyGraphRaftCommand.                                                  *)

\* graphCommitRecordEffectsPresent: the graph holds what the command writes.
EffectsPresent(s, w) ==
    /\ \A n \in Nodes : w.nodePuts[n] # None => s.nodes[n] = w.nodePuts[n]
    /\ \A e \in Edges : w.edgePuts[e] # None => s.edges[e] = w.edgePuts[e]
    /\ \A n \in w.nodeDeletes : s.nodes[n] = None
    /\ \A e \in w.edgeDeletes : s.edges[e] = None

\* graphCommitRecordEffectsSuperseded: all it writes has been updated since.
EffectsSuperseded(s, w) ==
    /\ \A n \in Nodes : w.nodePuts[n] # None =>
           s.nodes[n] # None /\ s.nodes[n] > w.nodePuts[n]
    /\ \A e \in Edges : w.edgePuts[e] # None =>
           /\ s.edges[e] # None
           /\ s.edges[e].from = w.edgePuts[e].from /\ s.edges[e].to = w.edgePuts[e].to
           /\ s.edges[e].val > w.edgePuts[e].val
    /\ \A n \in w.nodeDeletes : s.nodes[n] = None
    /\ \A e \in w.edgeDeletes : s.edges[e] = None

\* Fault: the store is not told which revision the transaction started from.
ExpectedRevisionLatest(r, entry) == prStore[r].revision

\* ExpectRevision of the record.
ExpectedRevision(r, entry) == entry.base

\* What becomes of an entry.  The fence of a displaced attempt rejects its
\* output, at a replay for good; an idempotency key that is taken makes it a
\* no-op, for the same request and for another one; "skip" and "refuse" leave no
\* trace, "mark" leaves a marker only, "commit" changes the graph and then leaves
\* a marker.
Verdict(r, entry, replay) ==
    LET c == entry.cmd
        w == CommandWrites[c]
        k == CommandKey[c]
    IN  IF c \in prMarks[r] THEN "skip"
        ELSE IF <<r, c>> \in Unreachable THEN "refuse"
        ELSE IF c \in Displaced THEN (IF replay THEN "mark" ELSE "refuse")
        ELSE IF k \in KeyNames /\ prKeys[r][k] # None THEN "mark"
        ELSE IF ~Conflict(prStore[r], w, ExpectedRevision(r, entry)) THEN "commit"
        ELSE IF EffectsPresent(prStore[r], w) THEN "mark"
        ELSE IF replay /\ EffectsSuperseded(prStore[r], w) THEN "mark"
        ELSE "refuse"

NextEntry(r) == prLog[prApplied[r] + 1]
NextVerdict(r) == Verdict(r, NextEntry(r), prApplied[r] < prReplayTo[r])
CanApply(r) == prPhase[r] = "up" /\ prApplied[r] < prCommit[r]

\* The store commit, with its idempotency record.
ApplyCommit(r) ==
    LET c == NextEntry(r).cmd IN
    /\ CanApply(r)
    /\ NextVerdict(r) = "commit"
    /\ prStore' = [prStore EXCEPT ![r] = ApplyWrites(@, CommandWrites[c])]
    /\ prKeys' = [prKeys EXCEPT ![r] = [k \in KeyNames |-> IF k = CommandKey[c] THEN c ELSE @[k]]]
    /\ prHeld' = [prHeld EXCEPT ![r] = Append(@, prApplied[r] + 1)]
    /\ prPhase' = [prPhase EXCEPT ![r] = "marking"]
    /\ UNCHANGED <<prLog, prBase, prMarks, prIndexVars, prSnapshot, prCheckpoint, prGhosts>>

\* rememberRaftAppliedCommand after the store commit, then markApplied.
ApplyMark(r) ==
    /\ prPhase[r] = "marking"
    /\ prMarks' = [prMarks EXCEPT ![r] = @ \cup {NextEntry(r).cmd}]
    /\ prApplied' = [prApplied EXCEPT ![r] = @ + 1]
    /\ prPhase' = [prPhase EXCEPT ![r] = "up"]
    /\ UNCHANGED <<prLog, prBase, prGraphVars, prCommit, prReplayTo, prSnapshot, prCheckpoint, prGhosts>>

\* An entry that does not change the graph.
ApplyNoop(r) ==
    /\ CanApply(r)
    /\ NextVerdict(r) # "commit"
    /\ prMarks' = [prMarks EXCEPT ![r] = IF NextVerdict(r) = "mark" THEN @ \cup {NextEntry(r).cmd} ELSE @]
    /\ prApplied' = [prApplied EXCEPT ![r] = @ + 1]
    /\ UNCHANGED <<prLog, prBase, prGraphVars, prCommit, prReplayTo, prPhase, prSnapshot, prCheckpoint, prGhosts>>

-----------------------------------------------------------------------------
(* Snapshots, checkpoints, crash and restart.                              *)

\* snapshotRaftPartition, as Group.CreateSnapshot stores it between two Readys.
SnapshotOf(r) ==
    [at |-> prApplied[r], store |-> prStore[r], keys |-> prKeys[r], marks |-> prMarks[r], held |-> prHeld[r]]

TakeSnapshot(r) ==
    /\ prPhase[r] = "up"
    /\ prApplied[r] > 0
    /\ prApplied[r] >= prReplayTo[r]
    /\ Counted("snapshots", MaxSnapshots)
    /\ prSnapshot' = [prSnapshot EXCEPT ![r] = SnapshotOf(r)]
    /\ UNCHANGED <<prLog, prBase, prGraphVars, prMarks, prIndexVars, prPhase, prCheckpoint, prOtherVars, prRebuilt>>

\* restoreGraphSpace puts all entities in one commit on an empty store, then
\* commits nothing until the revision is the snapshot's.
RestoredStore(s) ==
    [s EXCEPT !.nodeMod = [n \in Nodes |-> IF s.nodes[n] = None THEN 0 ELSE 1],
              !.edgeMod = [e \in Edges |-> IF s.edges[e] = None THEN 0 ELSE 1]]

\* The store as it is opened again: entities of the checkpoint count as
\* modified at its revision, and what was deleted before it is forgotten.
ReopenedStore(s, at) ==
    LET Mod(mod, present) == IF mod > at THEN mod ELSE IF present THEN at ELSE 0
    IN  [s EXCEPT !.nodeMod = [n \in Nodes |-> Mod(s.nodeMod[n], s.nodes[n] # None)],
                  !.edgeMod = [e \in Edges |-> Mod(s.edgeMod[e], s.edges[e] # None)]]

\* restoreRaftPartition: the graph is replaced, the markers are added to those
\* that are there.
Restore(r, snap) ==
    /\ prStore' = [prStore EXCEPT ![r] = RestoredStore(snap.store)]
    /\ prKeys' = [prKeys EXCEPT ![r] = snap.keys]
    /\ prHeld' = [prHeld EXCEPT ![r] = snap.held]
    /\ prMarks' = [prMarks EXCEPT ![r] = @ \cup snap.marks]
    /\ prApplied' = [prApplied EXCEPT ![r] = snap.at]
    /\ prCheckpoint' = [prCheckpoint EXCEPT ![r] = 0]
    /\ prRebuilt' = prRebuilt \cup {r}

\* A member that lags behind installs the snapshot of another one.
InstallSnapshot(r, q) ==
    /\ prPhase[r] = "up"
    /\ prApplied[r] >= prReplayTo[r]
    /\ prSnapshot[q] # None
    /\ prSnapshot[q].at > prApplied[r]
    /\ Restore(r, prSnapshot[q])
    /\ prSnapshot' = [prSnapshot EXCEPT ![r] = prSnapshot[q]]
    /\ prCommit' = [prCommit EXCEPT ![r] = IF @ < prSnapshot[q].at THEN prSnapshot[q].at ELSE @]
    /\ UNCHANGED <<prLog, prBase, prReplayTo, prPhase, prOtherVars, prCount>>

\* snapshotRaftPartition of the other partition: with its graph go the markers of
\* both partitions.
SnapshotElsewhere(q) ==
    /\ OtherPartitions
    /\ prPhase[q] # "down"
    /\ Counted("snapshots", MaxSnapshots)
    /\ prElsewhere' = [prElsewhere EXCEPT ![q] = prMarks[q]]
    /\ UNCHANGED <<prLog, prBase, prGraphVars, prMarks, prIndexVars, prPhase, prSnapshot, prCheckpoint,
                   prMisled, prRebuilt>>

\* restoreRaftPartition of the other partition on a member that lags behind
\* there: this partition's graph stays, its markers are added all the same.  At a
\* restart the restored snapshot is the member's own or one it has installed: its
\* markers are there.
InstallElsewhere(r, q) ==
    /\ prPhase[r] # "down"
    /\ ~(prElsewhere[q] \subseteq prMarks[r])
    /\ prMarks' = [prMarks EXCEPT ![r] = @ \cup prElsewhere[q]]
    /\ prMisled' = prMisled \cup {r}
    /\ UNCHANGED <<prLog, prBase, prGraphVars, prIndexVars, prPhase, prSnapshot, prCheckpoint,
                   prElsewhere, prRebuilt, prCount>>

\* Checkpoints are written beside the application of commands, also between the
\* store commit of one and its marker.
TakeCheckpoint(r) ==
    /\ prPhase[r] # "down"
    /\ prStore[r].revision > prCheckpoint[r]
    /\ Counted("checkpoints", MaxCheckpoints)
    /\ prCheckpoint' = [prCheckpoint EXCEPT ![r] = prStore[r].revision]
    /\ UNCHANGED <<prLog, prBase, prGraphVars, prMarks, prIndexVars, prPhase, prSnapshot, prOtherVars, prRebuilt>>

\* Graph and markers are on disk; between the store commit and the marker a
\* crash leaves the one without the other.
MemberCrash(r) ==
    /\ prPhase[r] # "down"
    /\ Counted("crashes", MaxMemberCrashes)
    /\ prPhase' = [prPhase EXCEPT ![r] = "down"]
    /\ UNCHANGED <<prLog, prBase, prGraphVars, prMarks, prIndexVars, prSnapshot, prCheckpoint, prOtherVars, prRebuilt>>

\* Fault: the applied index starts from the commit index of the hard state.
ReplayStartCommitted(r) == prCommit[r]

\* The applied index from which the replay of a member without a snapshot starts.
ReplayStart(r) == 0

\* restoreSnapshotAndReplayCommittedEntries, up to the replay.
MemberRestart(r) ==
    /\ prPhase[r] = "down"
    /\ prPhase' = [prPhase EXCEPT ![r] = "up"]
    /\ prReplayTo' = [prReplayTo EXCEPT ![r] = prCommit[r]]
    /\ IF prSnapshot[r] # None
       THEN Restore(r, prSnapshot[r])
       ELSE /\ prStore' = [prStore EXCEPT ![r] = ReopenedStore(@, prCheckpoint[r])]
            /\ prApplied' = [prApplied EXCEPT ![r] = ReplayStart(r)]
            /\ prRebuilt' = IF prCheckpoint[r] > 0 THEN prRebuilt \cup {r} ELSE prRebuilt
            /\ UNCHANGED <<prKeys, prHeld, prMarks, prCheckpoint>>
    /\ UNCHANGED <<prLog, prBase, prCommit, prSnapshot, prOtherVars, prCount>>

PrNext ==
    \/ \E c \in GraphCommands : GroupCommit(c) \/ \E r \in Members : TxBegin(c, r)
    \/ \E r \in Members :
        \/ LearnCommit(r) \/ ApplyCommit(r) \/ ApplyMark(r) \/ ApplyNoop(r)
        \/ TakeSnapshot(r) \/ TakeCheckpoint(r) \/ MemberCrash(r) \/ MemberRestart(r)
        \/ SnapshotElsewhere(r)
        \/ \E q \in Members : InstallSnapshot(r, q) \/ InstallElsewhere(r, q)

PrSpec == PrInit /\ [][PrNext]_prVars

-----------------------------------------------------------------------------
(* Properties.                                                             *)

Snapshots == [at : Nat, store : Stores, keys : [KeyNames -> GraphCommands \cup {None}],
              marks : SUBSET GraphCommands, held : Seq(Nat)]

PrTypeOK ==
    /\ prLog \in Seq([cmd : GraphCommands, base : Nat])
    /\ prBase \in [GraphCommands -> Nat \cup {None}]
    /\ prStore \in [Members -> Stores]
    /\ prKeys \in [Members -> [KeyNames -> GraphCommands \cup {None}]]
    /\ prMarks \in [Members -> SUBSET GraphCommands]
    /\ prCommit \in [Members -> Nat] /\ prApplied \in [Members -> Nat] /\ prReplayTo \in [Members -> Nat]
    /\ prPhase \in [Members -> {"up", "marking", "down"}]
    /\ prSnapshot \in [Members -> Snapshots \cup {None}]
    /\ prCheckpoint \in [Members -> Nat]
    /\ prHeld \in [Members -> Seq(Nat)]
    /\ prElsewhere \in [Members -> SUBSET GraphCommands]
    /\ prMisled \subseteq Members /\ prRebuilt \subseteq Members
    /\ \A r \in Members :
        /\ prApplied[r] <= prCommit[r] /\ prReplayTo[r] <= prCommit[r] /\ prCommit[r] <= Len(prLog)
        /\ prPhase[r] = "marking" => prApplied[r] < prCommit[r]
        /\ prSnapshot[r] # None => prSnapshot[r].at <= prCommit[r]
        /\ \A i \in DOMAIN prHeld[r] : prHeld[r][i] \in 1..Len(prLog)

\* The writes of a command enter a member's graph once, however often it was
\* committed, and although its marker may be missing when it is replayed after a
\* restart (the marker check, and the write-set conflict of a command with
\* itself).  Excepted are members whose modification revisions were rebuilt: a
\* checkpoint forgets deleted entities, so a command that only deletes, with the
\* checkpoint written before its marker, is committed again by the replay.
AtMostOnce ==
    \A r \in Members \ prRebuilt : \A i, j \in DOMAIN prHeld[r] :
        i # j => prLog[prHeld[r][i]].cmd # prLog[prHeld[r][j]].cmd

SameGraph(r, q) ==
    /\ prStore[r].nodes = prStore[q].nodes
    /\ prStore[r].edges = prStore[q].edges
    /\ prStore[r].revision = prStore[q].revision
    /\ prKeys[r] = prKeys[q]

AtSamePoint(r, q) ==
    /\ prPhase[r] = "up" /\ prPhase[q] = "up"
    /\ prApplied[r] = prApplied[q]
    /\ prApplied[r] >= prReplayTo[r] /\ prApplied[q] >= prReplayTo[q]

\* The writes in a member's graph entered it in the order of the log.  A refused
\* command leaves no marker, so a replay may commit it after later entries.
InLogOrder(r) == \A i, j \in DOMAIN prHeld[r] : i < j => prHeld[r][i] < prHeld[r][j]

\* Members that have applied the same entries hold the same graph, whatever
\* crashes and replays they went through, as long as their modification
\* revisions were not rebuilt from a checkpoint or a snapshot, no replay
\* committed an entry that had been refused, and no snapshot of another
\* partition gave them markers of commands they had not applied.
ReplicasAgree ==
    \A r, q \in Members \ (prRebuilt \cup prMisled) :
        AtSamePoint(r, q) /\ InLogOrder(r) /\ InLogOrder(q) => SameGraph(r, q)

\* The same of all members: snapshot and restore create no local state of
\* their own.
RestoredReplicasAgree ==
    \A r, q \in Members : AtSamePoint(r, q) => SameGraph(r, q)
=============================================================================
