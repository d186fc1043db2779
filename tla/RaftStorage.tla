----------------------------- MODULE RaftStorage -----------------------------
(***************************************************************************)
(* The files of one member of a consensus group (PersistentStorage in      *)
(* internal/clustering/consensus/storage.go): snapshot.pb, hard_state.pb   *)
(* and entries.log, written one after the other for each Ready, and loaded *)
(* again when the daemon has crashed between any two of these writes.      *)
(* None of the writes is synced: a killed daemon finds them all again, but *)
(* a power loss may take those since the last Flush, which only a backup's *)
(* freeze calls.                                                           *)
(*                                                                         *)
(* An entry is its term.  rsTruth is the log the cluster has committed;    *)
(* this member follows: the raft library (external) hands it entries of    *)
(* some leader's log, commit indexes and snapshots.                        *)
(***************************************************************************)
EXTENDS Naturals, Sequences

CONSTANTS RsTerms,        \* terms, with their order
          MaxIndex,       \* bound on the cluster's log
          MaxRsCrashes    \* bound on crashes

ASSUME RaftStorageAssumption ==
    /\ RsTerms \subseteq Nat \ {0}
    /\ MaxIndex \in Nat
    /\ MaxRsCrashes \in Nat

VARIABLES rsTruth,     \* the committed log of the cluster
          rsMem,       \* memory: snapshot index and the entries after it
          rsCommit,    \* the commit index the library has seen
          rsHardFile,  \* hard_state.pb: its commit index
          rsSnapFile,  \* snapshot.pb: its index
          rsLogFile,   \* entries.log: the index before its first entry, its entries
          rsTodo,      \* the Ready being persisted
          rsPc,        \* how far it is
          rsAcked,     \* entries this member has told others it holds
          rsStatus,    \* up, down, or the panic that ends a restart
          rsCuts,      \* the steps that crashes have interrupted
          rsCrashes,   \* crashes so far
          rsFlushed,   \* what the last Flush, or the last power loss, left on disk
          rsLost       \* a power loss has taken something that was written

rsVars == <<rsTruth, rsMem, rsCommit, rsHardFile, rsSnapFile, rsLogFile, rsTodo, rsPc, rsAcked,
            rsStatus, rsCuts, rsCrashes, rsFlushed, rsLost>>
rsFiles == <<rsHardFile, rsSnapFile, rsLogFile>>

FilesNow == [hard |-> rsHardFile, snap |-> rsSnapFile, log |-> rsLogFile]

EmptyLog(i) == [from |-> i, ents |-> <<>>]
NoReady == [snap |-> 0, commit |-> 0, from |-> 0, ents |-> <<>>]

RsInit ==
    /\ rsTruth = <<>>
    /\ rsMem = EmptyLog(0)
    /\ rsCommit = 0
    /\ rsHardFile = 0 /\ rsSnapFile = 0 /\ rsLogFile = EmptyLog(0)
    /\ rsTodo = NoReady /\ rsPc = "idle"
    /\ rsAcked = {}
    /\ rsStatus = "up" /\ rsCuts = {}
    /\ rsCrashes = 0
    /\ rsFlushed = FilesNow
    /\ rsLost = FALSE

LastOf(log) == log.from + Len(log.ents)
EntriesOf(log) == {<<log.from + k, log.ents[k]>> : k \in 1..Len(log.ents)}

\* A log with the entries after index i dropped and others in their place.
Replaced(log, i, ents) ==
    [from |-> log.from, ents |-> SubSeq(log.ents, 1, i - log.from) \o ents]

-----------------------------------------------------------------------------
(* The raft library (external).                                            *)

ClusterCommits ==
    /\ Len(rsTruth) < MaxIndex
    /\ \E t \in RsTerms :
        /\ rsTruth # <<>> => rsTruth[Len(rsTruth)] <= t
        /\ rsTruth' = Append(rsTruth, t)
    /\ UNCHANGED <<rsMem, rsCommit, rsFiles, rsTodo, rsPc, rsAcked, rsStatus, rsCuts, rsCrashes, rsFlushed, rsLost>>

Agrees(i) == \A e \in EntriesOf(rsMem) : e[1] <= i => e[2] = rsTruth[e[1]]

\* The log of a leader is the committed one and perhaps one entry more.
LeaderLogs == {rsTruth} \cup {Append(rsTruth, t) : t \in RsTerms}

\* Entries p + 1 to n of such a log, from the first one that this member does
\* not hold, and the commit index c that came with them.
Sendable(c, p, n, l) ==
    /\ p < n /\ n <= Len(l) /\ p <= Len(rsTruth)
    /\ c <= n /\ c <= Len(rsTruth)
    /\ \A i \in 1..(Len(l) - 1) : l[i] <= l[i + 1]
    /\ Agrees(p)
    /\ p < LastOf(rsMem) => <<p + 1, l[p + 1]>> \notin EntriesOf(rsMem)

AppendReadys ==
    {[snap |-> 0, commit |-> q[1], from |-> q[2], ents |-> SubSeq(q[4], q[2] + 1, q[3])] :
        q \in {q \in (rsCommit..MaxIndex) \X (rsCommit..LastOf(rsMem)) \X (0..MaxIndex) \X LeaderLogs :
                  Sendable(q[1], q[2], q[3], q[4])}}

CommitReadys ==
    {[NoReady EXCEPT !.commit = c] :
        c \in {i \in (rsCommit + 1)..LastOf(rsMem) : i <= Len(rsTruth) /\ Agrees(i)}}

SnapshotReadys ==
    {[NoReady EXCEPT !.snap = s, !.commit = s] : s \in (rsCommit + 1)..Len(rsTruth)}

\* Ready: persisted before anything else happens to the group.
TakeReady ==
    /\ rsStatus = "up"
    /\ rsPc = "idle"
    /\ rsTodo' \in AppendReadys \cup CommitReadys \cup SnapshotReadys
    /\ rsPc' = IF rsTodo'.snap > 0 THEN "snapshot" ELSE "hard state"
    /\ UNCHANGED <<rsTruth, rsMem, rsCommit, rsFiles, rsAcked, rsStatus, rsCuts, rsCrashes, rsFlushed, rsLost>>

-----------------------------------------------------------------------------
(* processReady's writes, in its order.                                    *)

\* ApplySnapshot: snapshot.pb, then entries.log without entries.
WriteSnapshot ==
    /\ rsStatus = "up"
    /\ rsPc = "snapshot"
    /\ rsSnapFile' = rsTodo.snap
    /\ rsPc' = "snapshot log"
    /\ UNCHANGED <<rsTruth, rsMem, rsCommit, rsHardFile, rsLogFile, rsTodo, rsAcked, rsStatus, rsCuts, rsCrashes, rsFlushed, rsLost>>

WriteSnapshotLog ==
    /\ rsStatus = "up"
    /\ rsPc = "snapshot log"
    /\ rsLogFile' = EmptyLog(rsTodo.snap)
    /\ rsMem' = EmptyLog(rsTodo.snap)
    /\ rsAcked' = {}
    /\ rsPc' = "hard state"
    /\ UNCHANGED <<rsTruth, rsCommit, rsHardFile, rsSnapFile, rsTodo, rsStatus, rsCuts, rsCrashes, rsFlushed, rsLost>>

\* SetHardState.
WriteHardState ==
    /\ rsStatus = "up"
    /\ rsPc = "hard state"
    /\ rsHardFile' = rsTodo.commit
    /\ rsPc' = IF rsTodo.ents = <<>> THEN "send" ELSE "entries"
    /\ UNCHANGED <<rsTruth, rsMem, rsCommit, rsSnapFile, rsLogFile, rsTodo, rsAcked, rsStatus, rsCuts, rsCrashes, rsFlushed, rsLost>>

\* canAppendEntriesLog.
AppendsOnly == rsLogFile.ents = <<>> \/ LastOf(rsLogFile) = rsTodo.from

\* Append, at the end of the file: frame by frame.
AppendFrame ==
    /\ rsStatus = "up"
    /\ rsPc \in {"entries", "frames"}
    /\ rsPc = "entries" => AppendsOnly
    /\ LET base == IF rsLogFile.ents = <<>> THEN EmptyLog(rsTodo.from) ELSE rsLogFile
           done == LastOf(base) - rsTodo.from
       IN  /\ rsLogFile' = [base EXCEPT !.ents = Append(@, rsTodo.ents[done + 1])]
           /\ rsPc' = IF done + 1 = Len(rsTodo.ents) THEN "send" ELSE "frames"
    /\ UNCHANGED <<rsTruth, rsMem, rsCommit, rsHardFile, rsSnapFile, rsTodo, rsAcked, rsStatus, rsCuts, rsCrashes, rsFlushed, rsLost>>

\* Fault: only memory gets the entries that replace others.
RewriteNothing ==
    /\ rsStatus = "up"
    /\ rsPc = "entries"
    /\ ~AppendsOnly
    /\ rsPc' = "send"
    /\ UNCHANGED <<rsTruth, rsMem, rsCommit, rsFiles, rsTodo, rsAcked, rsStatus, rsCuts, rsCrashes, rsFlushed, rsLost>>

\* Append, when entries are replaced: the file is written anew.
RewriteEntries ==
    /\ rsStatus = "up"
    /\ rsPc = "entries"
    /\ ~AppendsOnly
    /\ rsLogFile' = Replaced(rsMem, rsTodo.from, rsTodo.ents)
    /\ rsAcked' = {e \in rsAcked : e[1] <= rsTodo.from}
    /\ rsPc' = "send"
    /\ UNCHANGED <<rsTruth, rsMem, rsCommit, rsHardFile, rsSnapFile, rsTodo, rsStatus, rsCuts, rsCrashes, rsFlushed, rsLost>>

\* The messages go out: the member answers for what it holds now.
SendMessages ==
    /\ rsStatus = "up"
    /\ rsPc = "send"
    /\ rsMem' = IF rsTodo.ents = <<>> THEN rsMem ELSE Replaced(rsMem, rsTodo.from, rsTodo.ents)
    /\ rsCommit' = rsTodo.commit
    /\ rsAcked' = EntriesOf(rsMem')
    /\ rsTodo' = NoReady
    /\ rsPc' = "idle"
    /\ UNCHANGED <<rsTruth, rsFiles, rsStatus, rsCuts, rsCrashes, rsFlushed, rsLost>>

\* Fault: the snapshot is taken at the last index of the log.
SnapshotAtLast ==
    /\ rsStatus = "up"
    /\ rsPc = "idle"
    /\ rsCommit > rsMem.from
    /\ rsSnapFile' = LastOf(rsMem)
    /\ rsPc' = "compact"
    /\ UNCHANGED <<rsTruth, rsMem, rsCommit, rsHardFile, rsLogFile, rsTodo, rsAcked, rsStatus, rsCuts, rsCrashes, rsFlushed, rsLost>>

\* Group.CreateSnapshot at the applied index, then Compact.
SnapshotLocally ==
    /\ rsStatus = "up"
    /\ rsPc = "idle"
    /\ rsCommit > rsMem.from
    /\ rsSnapFile' = rsCommit
    /\ rsPc' = "compact"
    /\ UNCHANGED <<rsTruth, rsMem, rsCommit, rsHardFile, rsLogFile, rsTodo, rsAcked, rsStatus, rsCuts, rsCrashes, rsFlushed, rsLost>>

\* Fault: compaction drops the first entry after the snapshot as well.
CompactOneTooMany ==
    LET kept == [from |-> rsSnapFile,
                 ents |-> SubSeq(rsMem.ents, rsSnapFile - rsMem.from + 2, Len(rsMem.ents))] IN
    /\ rsStatus = "up"
    /\ rsPc = "compact"
    /\ rsMem' = kept
    /\ rsLogFile' = kept
    /\ rsPc' = "idle"
    /\ UNCHANGED <<rsTruth, rsCommit, rsHardFile, rsSnapFile, rsTodo, rsAcked, rsStatus, rsCuts, rsCrashes, rsFlushed, rsLost>>

\* Compact writes entries.log anew with what follows the snapshot.
CompactLocally ==
    LET kept == [from |-> rsSnapFile,
                 ents |-> SubSeq(rsMem.ents, rsSnapFile - rsMem.from + 1, Len(rsMem.ents))] IN
    /\ rsStatus = "up"
    /\ rsPc = "compact"
    /\ rsMem' = kept
    /\ rsLogFile' = kept
    /\ rsPc' = "idle"
    /\ UNCHANGED <<rsTruth, rsCommit, rsHardFile, rsSnapFile, rsTodo, rsAcked, rsStatus, rsCuts, rsCrashes, rsFlushed, rsLost>>

-----------------------------------------------------------------------------
(* Crash and load.                                                         *)

\* Flush, called by AcquireBackupFreeze between two Readys: what the files hold
\* is on disk from now on.
RsFlush ==
    /\ rsStatus = "up"
    /\ rsPc = "idle"
    /\ rsFlushed' = FilesNow
    /\ UNCHANGED <<rsTruth, rsMem, rsCommit, rsFiles, rsTodo, rsPc, rsAcked, rsStatus, rsCuts, rsCrashes, rsLost>>

\* Memory is gone, and the Ready is interrupted where it is.
Stops ==
    /\ rsStatus = "up"
    /\ rsCrashes < MaxRsCrashes
    /\ rsCrashes' = rsCrashes + 1
    /\ rsStatus' = "down"
    /\ rsCuts' = rsCuts \cup {rsPc}
    /\ rsPc' = "idle"
    /\ rsTodo' = NoReady
    /\ rsMem' = EmptyLog(0)
    /\ UNCHANGED <<rsTruth, rsCommit, rsAcked>>

\* The daemon is killed: the operating system keeps what it has written.
RsCrash == Stops /\ UNCHANGED <<rsFiles, rsFlushed, rsLost>>

\* What a power loss may leave of entries.log: the frames up to some place, at
\* least those flushed into this file, or the flushed file that it replaced.
FrameCuts == {[rsLogFile EXCEPT !.ents = SubSeq(@, 1, k)] : k \in 0..Len(rsLogFile.ents)}
LogRemains ==
    IF rsFlushed.log \in FrameCuts THEN {l \in FrameCuts : LastOf(rsFlushed.log) <= LastOf(l)}
    ELSE FrameCuts \cup {rsFlushed.log}

\* A power loss leaves of each file what was flushed or what replaced it, of
\* each file on its own: nothing orders the unsynced writes.
RsPowerLoss ==
    /\ Stops
    /\ \E files \in [hard : {rsFlushed.hard, rsHardFile}, snap : {rsFlushed.snap, rsSnapFile}, log : LogRemains] :
        /\ rsHardFile' = files.hard /\ rsSnapFile' = files.snap /\ rsLogFile' = files.log
        /\ rsFlushed' = files
        /\ rsLost' = (rsLost \/ files # FilesNow)

\* load: MemoryStorage.ApplySnapshot, then MemoryStorage.Append, which ignores
\* what the snapshot covers.
Loaded(snap, log) ==
    [from |-> snap,
     ents |-> IF log.ents = <<>> \/ LastOf(log) <= snap THEN <<>>
              ELSE SubSeq(log.ents, snap - log.from + 1, Len(log.ents))]
LoadedFiles == Loaded(rsSnapFile, rsLogFile)

\* MemoryStorage.Append panics over a gap, and the library's newRaft over a
\* commit index outside the log.
LoadPanics ==
    \/ rsLogFile.ents # <<>> /\ rsLogFile.from > rsSnapFile
    \/ rsHardFile > 0 /\ rsHardFile < rsSnapFile
    \/ rsHardFile > LastOf(LoadedFiles)

\* NewPersistentStorage and StartGroup.
RsRestart ==
    /\ rsStatus = "down"
    /\ IF LoadPanics
       THEN rsStatus' = "panic" /\ UNCHANGED <<rsMem, rsCommit>>
       ELSE /\ rsStatus' = "up"
            /\ rsMem' = LoadedFiles
            /\ rsCommit' = IF rsHardFile > rsSnapFile THEN rsHardFile ELSE rsSnapFile
    /\ UNCHANGED <<rsTruth, rsFiles, rsTodo, rsPc, rsAcked, rsCuts, rsCrashes, rsFlushed, rsLost>>

RsNext ==
    \/ ClusterCommits \/ TakeReady
    \/ WriteSnapshot \/ WriteSnapshotLog \/ WriteHardState \/ AppendFrame \/ RewriteEntries
    \/ SendMessages \/ SnapshotLocally \/ CompactLocally
    \/ RsFlush \/ RsCrash \/ RsPowerLoss \/ RsRestart

RsSpec == RsInit /\ [][RsNext]_rsVars

-----------------------------------------------------------------------------
(* Properties.                                                             *)

RsLogs == {l \in [from : 0..MaxIndex, ents : Seq(RsTerms)] : LastOf(l) <= MaxIndex}
RsReadys == [snap : 0..MaxIndex, commit : 0..MaxIndex, from : 0..MaxIndex, ents : Seq(RsTerms)]
RsSteps == {"idle", "snapshot", "snapshot log", "hard state", "entries", "frames", "send", "compact"}

\* Logs and indexes stay within their bounds.
RsTypeOK ==
    /\ rsTruth \in Seq(RsTerms) /\ Len(rsTruth) <= MaxIndex
    /\ rsMem \in RsLogs /\ rsLogFile \in RsLogs
    /\ {rsCommit, rsHardFile, rsSnapFile} \subseteq 0..MaxIndex
    /\ rsTodo \in RsReadys
    /\ rsPc \in RsSteps /\ rsCuts \subseteq RsSteps
    /\ rsAcked \subseteq (1..MaxIndex) \X RsTerms
    /\ rsStatus \in {"up", "down", "panic"}
    /\ rsCrashes \in 0..MaxRsCrashes
    /\ rsFlushed \in [hard : 0..MaxIndex, snap : 0..MaxIndex, log : RsLogs]
    /\ rsLost \in BOOLEAN

\* The restart the plan asks for ("Restart recovers HardState/log entries"):
\* at every moment, between any two file writes, the files would load a log
\* that agrees with the cluster's up to the persisted commit index
\* (processReady, PersistentStorage.load).
CommittedSurvives ==
    \A e \in EntriesOf(LoadedFiles) : e[1] <= rsHardFile => e[2] = rsTruth[e[1]]

\* CommittedSurvives, but for the one window the code leaves open: the hard
\* state is written and the entries it commits have not yet replaced stale
\* ones.  Snapshots, compaction, torn appends and repeated kills do not add
\* another, nor does a power loss that finds every write on disk (ApplySnapshot,
\* Append, Compact, Flush, load); one that takes a write may.
CommittedKept == rsPc # "entries" /\ "entries" \notin rsCuts /\ ~rsLost => CommittedSurvives

\* A member holds what it has answered for: an entry acknowledged to the
\* leader would be loaded, or the snapshot covers it, until a Ready replaces it,
\* however often the daemon is killed (Append, canAppendEntriesLog, Compact,
\* load).  It need not survive a power loss: the member answers before anything
\* syncs the entry (processReady), and what the power loss took is not kept.
AckedSurvives == ~rsLost => \A e \in rsAcked : e \in EntriesOf(LoadedFiles) \/ e[1] <= rsSnapFile

\* As long as no power loss has taken a write, the only crashes that a restart
\* panics over come between the hard state and its entries or between a snapshot
\* and its hard state: the order in which processReady writes them.  No gap
\* between snapshot and log is ever loaded.
PanicWindow ==
    ~rsLost =>
        /\ rsStatus = "panic" => rsCuts \cap {"snapshot log", "hard state", "entries", "frames"} # {}
        /\ ~(rsLogFile.ents # <<>> /\ rsLogFile.from > rsSnapFile)
==============================================================================
