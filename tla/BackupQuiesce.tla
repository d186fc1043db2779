---------------------------- MODULE BackupQuiesce ----------------------------
(***************************************************************************)
(* Quiesce gates (internal/runtime/quiesce), the coordinator that closes   *)
(* them in registration order, and the two users of it on one daemon: the  *)
(* backup manager's Trigger (internal/backup) and the local part of a      *)
(* cluster backup (quiesce lease, CreateLocalArchive, release).            *)
(*                                                                         *)
(* Gate 1 is the API ingress.  A request enters it and holds it to its     *)
(* end; each service on its way has a gate of its own, entered while the   *)
(* earlier ones are held, and a write of the service's files under it.     *)
(* Background work enters service gates only.                              *)
(***************************************************************************)
EXTENDS Naturals, Sequences, FiniteSets

CONSTANTS GateCount,         \* gates in registration order
          GateOps,           \* units of work
          GateRoute,         \* the gates each of them enters
          GateReads,         \* the ones that take the ingress gate with EnterRead
          AllowReads,        \* Policy.AllowReadsDuringBackup
          RetentionCount,    \* Policy.RetentionCount
          MaxBackups,        \* bound on backups
          MaxBackupCrashes   \* bound on crashes of the daemon

Gates == 1..GateCount
BackupIds == 1..MaxBackups
Backups == {"local", "cluster"}

ASSUME BackupAssumption ==
    /\ GateCount \in Nat \ {0}
    /\ GateRoute \in [GateOps -> Seq(Gates)]
    /\ \A o \in GateOps : GateRoute[o] # <<>>
    /\ \A o \in GateOps : \A k \in 2..Len(GateRoute[o]) : GateRoute[o][k] # 1
    /\ \A o \in GateReads : GateRoute[o] = <<1>>
    /\ GateReads \subseteq GateOps
    /\ AllowReads \in BOOLEAN
    /\ RetentionCount \in Nat
    /\ MaxBackups \in Nat
    /\ MaxBackupCrashes \in Nat

VARIABLES gateClosed,   \* Gate.closed
          opPhase,      \* idle, in, out
          opAt,         \* gates of its route the operation holds
          opRefused,    \* operations that got ErrQuiesced at an inner gate
          opCut,        \* operations a crash has cut off
          gateData,     \* per gate, the operations written to its service's files
          buPc,         \* where each backup is
          buHeld,       \* gates it has closed, a prefix of the order
          buRunning,    \* Manager.running, and for which backup
          buId,         \* the backup each of them is writing
          buStaged,     \* services whose files it has copied
          buCount,      \* backup ids given out
          buCopy,       \* contents of each archive, service by service
          buFiles,      \* archive and manifest files in the backup directory
          buExposed,    \* history: archives whose gates were opened while they were made
          buCrashes     \* crashes so far

gateVars == <<gateClosed, opPhase, opAt, opRefused, opCut, gateData>>
buVars == <<buPc, buHeld, buRunning, buId, buStaged, buCount, buCopy, buFiles, buExposed, buCrashes>>
backupVars == <<gateVars, buVars>>

NoBackup == "none"
NoCopy == [g \in Gates |-> {}]

BackupInit ==
    /\ gateClosed = [g \in Gates |-> FALSE]
    /\ opPhase = [o \in GateOps |-> "idle"]
    /\ opAt = [o \in GateOps |-> 0]
    /\ opRefused = {}
    /\ opCut = {}
    /\ gateData = [g \in Gates |-> {}]
    /\ buPc = [b \in Backups |-> "idle"]
    /\ buHeld = [b \in Backups |-> 0]
    /\ buRunning = NoBackup
    /\ buId = [b \in Backups |-> 0]
    /\ buStaged = [b \in Backups |-> {}]
    /\ buCount = 0
    /\ buCopy = [i \in BackupIds |-> NoCopy]
    /\ buFiles = [i \in BackupIds |-> {}]
    /\ buExposed = {}
    /\ buCrashes = 0

\* The work admitted by a gate (active and activeReads).
Inside(g) == {o \in GateOps : \E i \in 1..opAt[o] : GateRoute[o][i] = g}

-----------------------------------------------------------------------------
(* Work.                                                                   *)

\* The next gate on an operation's way.
NextGate(o) == GateRoute[o][opAt[o] + 1]

\* Gate.enter: a closed gate refuses, but for reads that the quiesce allows.
Admits(g, o) == ~gateClosed[g] \/ (g = 1 /\ o \in GateReads /\ AllowReads)

\* The service's write happens under its gate; gate 1 has no files.
OpEnter(o) ==
    /\ opPhase[o] \in {"idle", "in"}
    /\ opAt[o] < Len(GateRoute[o])
    /\ Admits(NextGate(o), o)
    /\ opAt' = [opAt EXCEPT ![o] = @ + 1]
    /\ opPhase' = [opPhase EXCEPT ![o] = IF opAt[o] + 1 = Len(GateRoute[o]) THEN "out" ELSE "in"]
    /\ gateData' = IF NextGate(o) = 1 THEN gateData
                   ELSE [gateData EXCEPT ![NextGate(o)] = @ \cup {o}]
    /\ UNCHANGED <<gateClosed, opRefused, opCut, buVars>>


\* ErrQuiesced: the operation gives up what it holds; at its first gate it
\* never began.
OpRefused(o) ==
    /\ opPhase[o] = "in"
    /\ ~Admits(NextGate(o), o)
    /\ opPhase' = [opPhase EXCEPT ![o] = "out"]
    /\ opRefused' = opRefused \cup {o}
    /\ UNCHANGED <<gateClosed, opAt, opCut, gateData, buVars>>

\* The release function of the last gate entered.
OpLeave(o) ==
    /\ opPhase[o] = "out"
    /\ opAt' = [opAt EXCEPT ![o] = @ - 1]
    /\ opPhase' = IF opAt[o] = 1 THEN [opPhase EXCEPT ![o] = "done"] ELSE opPhase
    /\ UNCHANGED <<gateClosed, opRefused, opCut, gateData, buVars>>

-----------------------------------------------------------------------------
(* Quiescing.                                                              *)

\* beginRun.
BeginRun(b) ==
    /\ buRunning = NoBackup
    /\ buCount < MaxBackups
    /\ buRunning' = b
    /\ buCount' = buCount + 1
    /\ buId' = [buId EXCEPT ![b] = buCount + 1]

\* Trigger takes the single flight before it quiesces (ErrBackupRunning
\* otherwise); a cluster backup quiesces first.
BackupStart(b) ==
    /\ buPc[b] = "idle"
    /\ buCount < MaxBackups
    /\ IF b = "local" THEN BeginRun(b) ELSE UNCHANGED <<buRunning, buCount, buId>>
    /\ buPc' = [buPc EXCEPT ![b] = "acquire"]
    /\ UNCHANGED <<gateVars, buHeld, buStaged, buCopy, buFiles, buExposed, buCrashes>>

\* QuiesceAll goes through the participants in registration order.
\* RegisterFirst has put the ingress gate at the front.
QuiesceOrder(k) == k

\* Gate.Quiesce closes the gate before it waits.
QuiesceClose(b) ==
    LET g == QuiesceOrder(buHeld[b] + 1) IN
    /\ buPc[b] = "acquire"
    /\ buHeld[b] < GateCount
    /\ ~gateClosed[g]
    /\ gateClosed' = [gateClosed EXCEPT ![g] = TRUE]
    /\ buPc' = [buPc EXCEPT ![b] = "drain"]
    /\ UNCHANGED <<opPhase, opAt, opRefused, opCut, gateData, buHeld, buRunning, buId, buCount,
                   buStaged, buCopy, buFiles, buExposed, buCrashes>>

\* Fault: the gate is taken to be drained as soon as it is closed.
DrainedAtOnce(g) == TRUE

\* The loop of Gate.Quiesce; allowed reads are not waited for.
Drained(g) ==
    IF g = 1 /\ AllowReads THEN Inside(g) \subseteq GateReads ELSE Inside(g) = {}

QuiesceDrained(b) ==
    /\ buPc[b] = "drain"
    /\ Drained(QuiesceOrder(buHeld[b] + 1))
    /\ buHeld' = [buHeld EXCEPT ![b] = @ + 1]
    /\ buPc' = [buPc EXCEPT ![b] = IF buHeld[b] + 1 = GateCount THEN "hold" ELSE "acquire"]
    /\ UNCHANGED <<gateVars, buRunning, buId, buCount, buStaged, buCopy, buFiles, buExposed, buCrashes>>

\* Fault: a gate whose drain timed out stays closed.
QuiesceTimeoutClosed(b) ==
    /\ buPc[b] = "drain"
    /\ buPc' = [buPc EXCEPT ![b] = "release"]
    /\ UNCHANGED <<gateVars, buHeld, buRunning, buId, buCount, buStaged, buCopy, buFiles, buExposed, buCrashes>>

\* ctx is done while the gate drains: it is opened again, then the leases
\* acquired before are released.
QuiesceTimeout(b) ==
    /\ buPc[b] = "drain"
    /\ ~Drained(QuiesceOrder(buHeld[b] + 1))
    /\ gateClosed' = [gateClosed EXCEPT ![QuiesceOrder(buHeld[b] + 1)] = FALSE]
    /\ buPc' = [buPc EXCEPT ![b] = "release"]
    /\ UNCHANGED <<opPhase, opAt, opRefused, opCut, gateData, buHeld, buRunning, buId, buCount,
                   buStaged, buCopy, buFiles, buExposed, buCrashes>>

\* ErrAlreadyQuiesced, or ctx is done between two gates.
QuiesceRefused(b) ==
    /\ buPc[b] = "acquire"
    /\ buPc' = [buPc EXCEPT ![b] = "release"]
    /\ UNCHANGED <<gateVars, buHeld, buRunning, buId, buCount, buStaged, buCopy, buFiles, buExposed, buCrashes>>

\* Fault: leases are released in the order they were acquired in.
ReleasedGateForward(b) == QuiesceOrder(GateCount - buHeld[b] + 1)

\* releaseParticipantLeases goes backwards, so the ingress gate is last.
ReleasedGate(b) == QuiesceOrder(buHeld[b])

\* The coordinator of a cluster backup has its lease released when a call to this
\* member or another one fails or takes too long, whether or not an archive is
\* under way here: what CreateLocalArchive has begun goes on with open gates.
QuiesceRelease(b) ==
    /\ \/ buPc[b] = "release" /\ UNCHANGED buExposed
       \/ /\ b = "cluster" /\ buPc[b] \in {"copy", "staged", "renamed"}
          /\ buExposed' = buExposed \cup {buId[b]}
    /\ buHeld[b] > 0
    /\ gateClosed' = [gateClosed EXCEPT ![ReleasedGate(b)] = FALSE]
    /\ buHeld' = [buHeld EXCEPT ![b] = @ - 1]
    /\ UNCHANGED <<opPhase, opAt, opRefused, opCut, gateData, buPc, buRunning, buId, buCount,
                   buStaged, buCopy, buFiles, buCrashes>>

-----------------------------------------------------------------------------
(* The archive.                                                            *)

\* CreateLocalArchive under the cluster's lease: beginRun or ErrBackupRunning;
\* or the coordinator has given up before.
ArchiveBegin(b) ==
    /\ buPc[b] = "hold"
    /\ \/ /\ b = "local"
          /\ buPc' = [buPc EXCEPT ![b] = "copy"]
          /\ UNCHANGED <<buRunning, buCount, buId>>
       \/ /\ b = "cluster"
          /\ BeginRun(b)
          /\ buPc' = [buPc EXCEPT ![b] = "copy"]
       \/ /\ b = "cluster"
          /\ buPc' = [buPc EXCEPT ![b] = "release"]
          /\ UNCHANGED <<buRunning, buCount, buId>>
    /\ UNCHANGED <<gateVars, buHeld, buStaged, buCopy, buFiles, buExposed, buCrashes>>

\* stageSnapshot walks the data directory, one service's files at a time.
ArchiveStage(b) ==
    /\ buPc[b] = "copy"
    /\ \E g \in Gates \ buStaged[b] :
        /\ buCopy' = [buCopy EXCEPT ![buId[b]][g] = gateData[g]]
        /\ buStaged' = [buStaged EXCEPT ![b] = @ \cup {g}]
        /\ buPc' = [buPc EXCEPT ![b] = IF buStaged'[b] = Gates THEN "staged" ELSE "copy"]
    /\ UNCHANGED <<gateVars, buHeld, buRunning, buId, buCount, buFiles, buExposed, buCrashes>>

\* CreateLocalArchive ends with finishRun, the cluster's lease still held.
RunEnds(b) == buRunning' = IF b = "cluster" THEN NoBackup ELSE buRunning

\* The archive and then the manifest are renamed into place.
ArchiveRename(b) ==
    /\ buPc[b] \in {"staged", "renamed"}
    /\ LET file == IF buPc[b] = "staged" THEN "archive" ELSE "manifest" IN
        /\ buFiles' = [buFiles EXCEPT ![buId[b]] = @ \cup {file}]
        /\ buPc' = [buPc EXCEPT ![b] = IF file = "archive" THEN "renamed" ELSE "release"]
        /\ IF file = "manifest" THEN RunEnds(b) ELSE UNCHANGED buRunning
    /\ UNCHANGED <<gateVars, buHeld, buId, buCount, buCopy, buStaged, buExposed, buCrashes>>

\* preArchive, staging, archiving or a rename fails or times out: the archive
\* is removed if it was there, and the deferred release runs.
ArchiveFails(b) ==
    /\ buPc[b] \in {"copy", "staged", "renamed"}
    /\ buFiles' = [buFiles EXCEPT ![buId[b]] = {}]
    /\ buPc' = [buPc EXCEPT ![b] = "release"]
    /\ RunEnds(b)
    /\ UNCHANGED <<gateVars, buHeld, buId, buCount, buCopy, buStaged, buExposed, buCrashes>>

Listed(i) == buFiles[i] = {"archive", "manifest"}
NewerListed(i) == {j \in BackupIds : j > i /\ Listed(j)}

\* ApplyRetention: everything past the RetentionCount newest backups.
Expired(i) == RetentionCount > 0 /\ Listed(i) /\ Cardinality(NewerListed(i)) >= RetentionCount

\* With the leases released, Trigger applies retention and finishes the run.
BackupFinish(b) ==
    /\ buPc[b] = "release"
    /\ buHeld[b] = 0
    /\ b = "local" /\ buId[b] # 0 /\ Listed(buId[b]) => \A i \in BackupIds : ~Expired(i)
    /\ buRunning' = IF buRunning = b THEN NoBackup ELSE buRunning
    /\ buPc' = [buPc EXCEPT ![b] = "idle"]
    /\ buId' = [buId EXCEPT ![b] = 0]
    /\ buStaged' = [buStaged EXCEPT ![b] = {}]
    /\ UNCHANGED <<gateVars, buHeld, buCount, buCopy, buFiles, buExposed, buCrashes>>

\* DeleteBackup by retention: the archive goes first, then the manifest.
RetentionDelete(b) ==
    /\ b = "local"
    /\ buPc[b] = "release"
    /\ buHeld[b] = 0
    /\ buId[b] # 0 /\ Listed(buId[b])
    /\ \E i \in BackupIds :
        \/ Expired(i) /\ buFiles' = [buFiles EXCEPT ![i] = {"manifest"}]
        \/ i < buId[b] /\ buFiles[i] = {"manifest"} /\ buFiles' = [buFiles EXCEPT ![i] = {}]
    /\ UNCHANGED <<gateVars, buPc, buHeld, buRunning, buId, buCount, buCopy, buStaged, buExposed, buCrashes>>

\* A crash of the daemon: gates, leases and the running flag are memory; half
\* done work is in the files; temporary files are ignored by ListBackups.
BackupCrash ==
    /\ buCrashes < MaxBackupCrashes
    /\ buCrashes' = buCrashes + 1
    /\ gateClosed' = [g \in Gates |-> FALSE]
    /\ opCut' = opCut \cup {o \in GateOps : opPhase[o] \in {"in", "out"}}
    /\ opPhase' = [o \in GateOps |-> IF opPhase[o] = "idle" THEN "idle" ELSE "done"]
    /\ opAt' = [o \in GateOps |-> 0]
    /\ buPc' = [b \in Backups |-> "idle"]
    /\ buHeld' = [b \in Backups |-> 0]
    /\ buStaged' = [b \in Backups |-> {}]
    /\ buId' = [b \in Backups |-> 0]
    /\ buRunning' = NoBackup
    /\ UNCHANGED <<opRefused, gateData, buCount, buCopy, buFiles, buExposed>>

BackupNext ==
    \/ \E o \in GateOps : OpEnter(o) \/ OpRefused(o) \/ OpLeave(o)
    \/ \E b \in Backups :
        \/ BackupStart(b) \/ QuiesceClose(b) \/ QuiesceDrained(b) \/ QuiesceTimeout(b)
        \/ QuiesceRefused(b) \/ QuiesceRelease(b) \/ ArchiveBegin(b) \/ ArchiveStage(b)
        \/ ArchiveRename(b) \/ ArchiveFails(b) \/ RetentionDelete(b) \/ BackupFinish(b)
    \/ BackupCrash

\* A started operation goes on to its end, and so does a started backup, which
\* is not counted on to time out.
OpStep(o) == (opPhase[o] = "in" /\ OpEnter(o)) \/ OpRefused(o) \/ OpLeave(o)
BackupStep(b) ==
    \/ QuiesceClose(b) \/ QuiesceDrained(b) \/ QuiesceRefused(b) \/ QuiesceRelease(b)
    \/ ArchiveBegin(b) \/ ArchiveStage(b) \/ ArchiveRename(b) \/ RetentionDelete(b) \/ BackupFinish(b)

BackupFairness ==
    /\ \A o \in GateOps : WF_backupVars(OpStep(o))
    /\ \A b \in Backups : WF_backupVars(BackupStep(b))

BackupSpec == BackupInit /\ [][BackupNext]_backupVars /\ BackupFairness

-----------------------------------------------------------------------------
(* Properties.                                                             *)

WorkType ==
    /\ opPhase \in [GateOps -> {"idle", "in", "out", "done"}]
    /\ opAt \in [GateOps -> Nat]
    /\ \A o \in GateOps : opAt[o] <= Len(GateRoute[o])
    /\ opRefused \subseteq GateOps
    /\ opCut \subseteq GateOps
GateType ==
    /\ gateClosed \in [Gates -> BOOLEAN]
    /\ gateData \in [Gates -> SUBSET GateOps]
PhaseType ==
    /\ buPc \in [Backups -> {"idle", "acquire", "drain", "hold", "copy", "staged", "renamed", "release"}]
    /\ buHeld \in [Backups -> 0..GateCount]
    /\ buRunning \in Backups \cup {NoBackup}
    /\ buCrashes \in 0..MaxBackupCrashes
ArchiveType ==
    /\ buId \in [Backups -> 0..MaxBackups]
    /\ buCount \in 0..MaxBackups
    /\ buCopy \in [BackupIds -> [Gates -> SUBSET GateOps]]
    /\ buFiles \in [BackupIds -> SUBSET {"archive", "manifest"}]
    /\ buStaged \in [Backups -> SUBSET Gates]
    /\ buExposed \subseteq BackupIds
BackupTypeOK == WorkType /\ GateType /\ PhaseType /\ ArchiveType

\* A listed backup is a consistent cut: a request is in it with all of its
\* services' writes or with none, unless a crash cut the request off
\* (QuiesceAll around stageSnapshot, for Trigger and for a cluster backup).
\* Of a cluster backup whose coordinator had the gates opened before the archive
\* was complete nothing is said: this member lists it too, though no manifest of
\* the set will name it (ReleaseLocalClusterBackupQuiesce).
ListedConsistent ==
    \A i \in BackupIds \ buExposed : Listed(i) =>
        \A o \in GateOps \ (GateReads \cup opCut) : GateRoute[o][1] = 1 =>
            \/ \A k \in 2..Len(GateRoute[o]) : o \in buCopy[i][GateRoute[o][k]]
            \/ \A k \in 2..Len(GateRoute[o]) : o \notin buCopy[i][GateRoute[o][k]]

\* A request that the ingress gate admitted is never refused further in: the
\* ingress gate is closed first, drained before the others close, and opened
\* last (RegisterFirst, QuiesceAll, releaseParticipantLeases).
AdmittedNotRefused == \A o \in opRefused : GateRoute[o][1] # 1

\* A gate is closed only on behalf of a backup that is on its way: no failed,
\* cancelled or crashed quiesce leaves one closed (Quiesce's ctx.Done branch,
\* the rollback of QuiesceAll).
NoOrphanedGate ==
    \A g \in Gates : gateClosed[g] =>
        \E b \in Backups : \/ \E k \in 1..buHeld[b] : QuiesceOrder(k) = g
                           \/ buPc[b] = "drain" /\ QuiesceOrder(buHeld[b] + 1) = g

==============================================================================
