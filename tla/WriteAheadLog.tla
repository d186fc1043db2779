---------------------------- MODULE WriteAheadLog ----------------------------
(***************************************************************************)
(* The local write-ahead log (internal/wal, type Manager): its segment     *)
(* files, the applied-LSN file, and the writers that append, sync, apply   *)
(* and mark one record each (the WAL branch of the graph commit and of the *)
(* blob metadata writes).  Covered are power loss at any moment, reopening *)
(* and recovery, a backup's checkpoint with log retention, an append that  *)
(* fails half way, and requests that are cancelled, or fail, at any later  *)
(* step.                                                                   *)
(*                                                                         *)
(* A frame is its LSN and the kind of its record.  A graph commit that is  *)
(* replayed over its own effect is refused (ErrConflict); blob metadata is *)
(* overwritten with the same bytes, unless the record is a delete and the  *)
(* graph has references to the blob by now.                                *)
(***************************************************************************)
EXTENDS Naturals, Sequences, FiniteSets

CONSTANTS WalWriters,      \* requests in flight
          GraphWriters,    \* the writers that commit graph records
          MaxLSN,          \* bound on the records ever appended
          SegmentRecords,  \* the most records that fit in one segment (SegmentBytes)
          MaxWalCrashes,   \* bound on crashes
          PowerLoss        \* whether a crash may lose bytes that no sync covered

ASSUME WalAssumption ==
    /\ GraphWriters \subseteq WalWriters
    /\ MaxLSN \in Nat
    /\ SegmentRecords \in Nat \ {0}
    /\ MaxWalCrashes \in Nat
    /\ PowerLoss \in BOOLEAN

VARIABLES walSegs,      \* the segment files, by their names: the LSN each starts at
          walFile,      \* the file Append writes to (Manager.file, Manager.segmentStart)
          walSize,      \* records in it, as far as Manager.segmentSize knows
          walLast,      \* Manager.last
          walStatus,    \* the daemon's view of the log
          walProgress,  \* the applied-LSN file
          walPc,        \* where each writer is
          walAt,        \* the LSN each writer appended
          walApplied,   \* records whose effect the stores hold
          walRefused,   \* records answered with ErrConflict or ErrReferenced
          walGivenUp,   \* records whose requests failed otherwise since the log was opened
          walDurable,   \* records that a sync of their file has covered
          walAcked,     \* records reported as committed
          walHarm,      \* what has happened to the files that a reopen may meet
          walCrashes    \* crashes so far

walVars == <<walSegs, walFile, walSize, walLast, walStatus, walProgress, walPc, walAt,
             walApplied, walRefused, walGivenUp, walDurable, walAcked, walHarm, walCrashes>>

\* Bytes of a frame whose write failed or was cut off.
Garbage == [lsn |-> 0, graph |-> FALSE]
Frames == [lsn : 1..MaxLSN, graph : BOOLEAN]
Starts == 1..(MaxLSN + 1)
SegmentFiles == [frames : Seq(Frames \cup {Garbage}), synced : Nat]

EmptySegment == [frames |-> <<>>, synced |-> 0]

\* Open on an empty directory creates the first segment.
WalInit ==
    /\ walSegs = [s \in {1} |-> EmptySegment]
    /\ walFile = 1
    /\ walSize = 0
    /\ walLast = 0
    /\ walStatus = "open"
    /\ walProgress = 0
    /\ walPc = [w \in WalWriters |-> "idle"]
    /\ walAt = [w \in WalWriters |-> 0]
    /\ walApplied = {}
    /\ walRefused = {}
    /\ walGivenUp = {}
    /\ walDurable = {}
    /\ walAcked = {}
    /\ walHarm = {}
    /\ walCrashes = 0

LSNsOf(seg) == {seg.frames[j].lsn : j \in 1..Len(seg.frames)} \ {0}
Retained == UNION {LSNsOf(walSegs[s]) : s \in DOMAIN walSegs}
Unsynced(seg) == {seg.frames[j].lsn : j \in (seg.synced + 1)..Len(seg.frames)} \ {0}
LastSegment(segs) == CHOOSE s \in DOMAIN segs : \A t \in DOMAIN segs : t <= s

-----------------------------------------------------------------------------
(* Writers.                                                                *)

\* Whether the next frame does not fit: never in a file that counts as empty,
\* always behind SegmentRecords records.
Full == {walSize > 0, walSize >= SegmentRecords}

\* Append leaves a full file for one named after the next LSN (rotateLocked); the
\* full one is closed without a sync, and a file of that name is opened again.
AppendFile(lsn, full) == IF full THEN lsn ELSE walFile
AppendTarget(lsn, full) ==
    [s \in DOMAIN walSegs \cup (IF full THEN {lsn} ELSE {}) |->
        IF s \in DOMAIN walSegs THEN walSegs[s] ELSE EmptySegment]

\* The file gets a frame, unless retention has removed its name.
WithFrame(segs, file, frame) ==
    [s \in DOMAIN segs |-> IF s = file THEN [segs[s] EXCEPT !.frames = Append(@, frame)] ELSE segs[s]]

ClosedUnsynced(full) ==
    IF full /\ walFile \in DOMAIN walSegs /\ Unsynced(walSegs[walFile]) # {}
    THEN {"closed unsynced"} ELSE {}

\* Manager.Append.
WalAppend(w) ==
    LET lsn == walLast + 1 IN
    /\ walStatus = "open"
    /\ walPc[w] = "idle"
    /\ lsn <= MaxLSN
    /\ \E full \in Full :
        /\ walSegs' = WithFrame(AppendTarget(lsn, full), AppendFile(lsn, full),
                                [lsn |-> lsn, graph |-> w \in GraphWriters])
        /\ walFile' = AppendFile(lsn, full)
        /\ walSize' = (IF full THEN 0 ELSE walSize) + 1
        /\ walHarm' = walHarm \cup ClosedUnsynced(full)
    /\ walLast' = lsn
    /\ walPc' = [walPc EXCEPT ![w] = "appended"]
    /\ walAt' = [walAt EXCEPT ![w] = lsn]
    /\ UNCHANGED <<walStatus, walProgress, walApplied, walRefused, walGivenUp, walDurable, walAcked, walCrashes>>

\* Manager.Append when the write stops half way: the bytes stay in the file,
\* the LSN is not taken, the size is not counted, the caller gets the error.
WalAppendFails(w) ==
    LET lsn == walLast + 1 IN
    /\ walStatus = "open"
    /\ walPc[w] = "idle"
    /\ lsn <= MaxLSN
    /\ "failed append" \notin walHarm
    /\ \E full \in Full :
        /\ walSegs' = WithFrame(AppendTarget(lsn, full), AppendFile(lsn, full), Garbage)
        /\ walFile' = AppendFile(lsn, full)
        /\ walSize' = IF full THEN 0 ELSE walSize
        /\ walHarm' = walHarm \cup {"failed append"} \cup ClosedUnsynced(full)
    /\ UNCHANGED <<walLast, walStatus, walProgress, walPc, walAt, walApplied, walRefused, walGivenUp,
                   walDurable, walAcked, walCrashes>>

\* Fault: the file is not synced.
WalSyncNothing(w) ==
    /\ walStatus = "open"
    /\ walPc[w] = "appended"
    /\ walPc' = [walPc EXCEPT ![w] = "synced"]
    /\ UNCHANGED <<walSegs, walFile, walSize, walLast, walStatus, walProgress, walAt, walApplied,
                   walRefused, walGivenUp, walDurable, walAcked, walHarm, walCrashes>>

\* Manager.Sync: the current file, whichever one the record went to.
WalSync(w) ==
    /\ walStatus = "open"
    /\ walPc[w] = "appended"
    /\ walSegs' = [s \in DOMAIN walSegs |->
                     IF s = walFile THEN [walSegs[s] EXCEPT !.synced = Len(walSegs[s].frames)] ELSE walSegs[s]]
    /\ walDurable' = walDurable \cup UNION {LSNsOf(walSegs[s]) : s \in DOMAIN walSegs \cap {walFile}}
    /\ walPc' = [walPc EXCEPT ![w] = "synced"]
    /\ UNCHANGED <<walFile, walSize, walLast, walStatus, walProgress, walAt, walApplied, walRefused, walGivenUp,
                   walAcked, walHarm, walCrashes>>

\* applyGraphCommitRecord or applyMetaPut / applyMetaDelete succeeds.
WalApply(w) ==
    /\ walStatus = "open"
    /\ walPc[w] = "synced"
    /\ walApplied' = walApplied \cup {walAt[w]}
    /\ walPc' = [walPc EXCEPT ![w] = "applied"]
    /\ UNCHANGED <<walSegs, walFile, walSize, walLast, walStatus, walProgress, walAt, walRefused, walGivenUp, walDurable,
                   walAcked, walHarm, walCrashes>>

\* The graph store refuses the commit, or the blob module a delete, because the
\* graph has references to the blob; the record stays in the log.
WalApplyRefused(w) ==
    /\ walStatus = "open"
    /\ walPc[w] = "synced"
    /\ walRefused' = walRefused \cup {walAt[w]}
    /\ walPc' = [walPc EXCEPT ![w] = "idle"]
    /\ UNCHANGED <<walSegs, walFile, walSize, walLast, walStatus, walProgress, walAt, walApplied, walGivenUp, walDurable,
                   walAcked, walHarm, walCrashes>>

\* Fault: the file gets the LSN of the next record to replay.
WalMarkNextApplied(w) ==
    /\ walStatus = "open"
    /\ walPc[w] = "applied"
    /\ walProgress' = walAt[w] + 1
    /\ walAcked' = walAcked \cup {walAt[w]}
    /\ walPc' = [walPc EXCEPT ![w] = "idle"]
    /\ UNCHANGED <<walSegs, walFile, walSize, walLast, walStatus, walAt, walApplied, walRefused, walGivenUp, walDurable,
                   walHarm, walCrashes>>

\* markWALApplied: SetAppliedLSN overwrites the file with this writer's LSN,
\* then the request returns.
WalMarkApplied(w) ==
    /\ walStatus = "open"
    /\ walPc[w] = "applied"
    /\ walProgress' = walAt[w]
    /\ walAcked' = walAcked \cup {walAt[w]}
    /\ walPc' = [walPc EXCEPT ![w] = "idle"]
    /\ UNCHANGED <<walSegs, walFile, walSize, walLast, walStatus, walAt, walApplied, walRefused, walGivenUp, walDurable,
                   walHarm, walCrashes>>

\* The request is cancelled, or the step fails, before or in the sync, in front
\* of the application or of the mark: its caller gets the error, the record
\* stays in the log, and the next recovery will apply it unless a mark passes it.
WalGiveUp(w) ==
    /\ walStatus = "open"
    /\ walPc[w] # "idle"
    /\ walGivenUp' = walGivenUp \cup {walAt[w]}
    /\ walPc' = [walPc EXCEPT ![w] = "idle"]
    /\ UNCHANGED <<walSegs, walFile, walSize, walLast, walStatus, walProgress, walAt, walApplied, walRefused,
                   walDurable, walAcked, walHarm, walCrashes>>

-----------------------------------------------------------------------------
(* Checkpoint and retention, under the quiesce lease of a backup.          *)

\* Fault: the segment that holds the first record to keep goes too.
RetainFromOneTooMany(segs, from) ==
    [s \in {t \in DOMAIN segs : \A u \in DOMAIN segs : t < u => u > from + 1} |-> segs[s]]

\* RetainFrom: a segment goes when the next one starts at or before from.
RetainFrom(segs, from) ==
    [s \in {t \in DOMAIN segs : \A u \in DOMAIN segs : t < u => u > from} |-> segs[s]]

\* prepareBackupSnapshot: the checkpoint is the applied LSN, and what lies
\* below it is dropped.  The backup has quiesced every writer before.
WalCheckpoint ==
    LET kept == RetainFrom(walSegs, walProgress + 1) IN
    /\ walStatus = "open"
    /\ \A w \in WalWriters : walPc[w] = "idle"
    /\ walProgress > 0
    /\ kept # walSegs
    /\ walSegs' = kept
    /\ walHarm' = walHarm \cup {"retention"} \cup (IF walFile \in DOMAIN kept THEN {} ELSE {"unlinked"})
    /\ UNCHANGED <<walFile, walSize, walLast, walStatus, walProgress, walPc, walAt, walApplied, walRefused, walGivenUp,
                   walDurable, walAcked, walCrashes>>

-----------------------------------------------------------------------------
(* Crash, reopen, recovery.                                                *)

\* What a power loss may leave of a file: every frame that a sync covered,
\* some of the others, perhaps a part of the next one.
Survivors(seg) ==
    IF ~PowerLoss THEN {seg.frames}
    ELSE UNION {{SubSeq(seg.frames, 1, k)}
                  \cup (IF k < Len(seg.frames) THEN {Append(SubSeq(seg.frames, 1, k), Garbage)} ELSE {}) :
                k \in seg.synced..Len(seg.frames)}

WalCrash ==
    /\ walStatus \in {"open", "recovering"}
    /\ walCrashes < MaxWalCrashes
    /\ \E left \in [DOMAIN walSegs -> UNION {Survivors(walSegs[s]) : s \in DOMAIN walSegs}] :
        /\ \A s \in DOMAIN walSegs : left[s] \in Survivors(walSegs[s])
        /\ walSegs' = [s \in DOMAIN walSegs |-> [frames |-> left[s], synced |-> Len(left[s])]]
    /\ walDurable' = walDurable \cup UNION {LSNsOf(walSegs'[s]) : s \in DOMAIN walSegs}
    /\ walStatus' = "down"
    /\ walPc' = [w \in WalWriters |-> "idle"]
    /\ walGivenUp' = {}
    /\ walCrashes' = walCrashes + 1
    /\ UNCHANGED <<walFile, walSize, walLast, walProgress, walAt, walApplied, walRefused, walAcked, walHarm>>

\* The frames of a log, by file and place in it, in the order of a scan.
Places(segs) == UNION {{<<s, j>> : j \in 1..Len(segs[s].frames)} : s \in DOMAIN segs}
FrameAt(segs, p) == segs[p[1]].frames[p[2]]
Before(p, q) == p[1] < q[1] \/ (p[1] = q[1] /\ p[2] < q[2])
Garbled(segs) == {p \in Places(segs) : FrameAt(segs, p) = Garbage}

\* The records that scanAndOpen reads: those in front of the first garbage.
Scanned(segs) == {p \in Places(segs) \ Garbled(segs) : \A g \in Garbled(segs) : Before(p, g)}

\* Record p has the LSN after that of the record before it, the first one LSN 1.
InSequence(segs, p) ==
    \/ FrameAt(segs, p).lsn = 1 /\ \A q \in Scanned(segs) : ~Before(q, p)
    \/ \E q \in Scanned(segs) :
          /\ Before(q, p) /\ FrameAt(segs, p).lsn = FrameAt(segs, q).lsn + 1
          /\ \A r \in Scanned(segs) : Before(r, p) => r = q \/ Before(r, q)

\* Frames follow the garbage at g in its file.
Followed(segs, g) == g[2] < Len(segs[g[1]].frames)

\* The first garbage that a scan meets.
FirstGarbled(segs) == {g \in Garbled(segs) : \A h \in Garbled(segs) : h = g \/ Before(g, h)}

\* Fault: the torn tail of the last segment is an error as well.
ScanErrorsEverywhere(segs) ==
    IF \E p \in Scanned(segs) : ~InSequence(segs, p) THEN {"non-contiguous"}
    ELSE {"torn" : g \in FirstGarbled(segs)}

\* The errors of scanAndOpen: an LSN that does not continue the sequence that
\* starts at 1, or garbage.  Garbage that others follow is a bad frame or, if its
\* length says that it goes on past the end of the file, a torn one; a torn frame
\* is an error in front of the last file.
ScanErrors(segs) ==
    IF \E p \in Scanned(segs) : ~InSequence(segs, p) THEN {"non-contiguous"}
    ELSE {"corrupt" : g \in {h \in FirstGarbled(segs) : Followed(segs, h)}}
         \cup {"torn" : g \in {h \in FirstGarbled(segs) : h[1] # LastSegment(segs)}}

\* The last file is cut off in front of a torn frame, whatever follows it.
Scannable(segs) ==
    /\ \A p \in Scanned(segs) : InSequence(segs, p)
    /\ \A g \in Garbled(segs) : g[1] = LastSegment(segs)
Truncated(segs) ==
    LET n == CHOOSE k \in 0..Len(segs[LastSegment(segs)].frames) :
                \A j \in 1..Len(segs[LastSegment(segs)].frames) : <<LastSegment(segs), j>> \in Scanned(segs) <=> j <= k
    IN  [segs EXCEPT ![LastSegment(segs)] = [frames |-> SubSeq(@.frames, 1, n), synced |-> n]]

WalOpen ==
    /\ walStatus = "down"
    /\ \/ /\ Scannable(walSegs)
          /\ walSegs' = Truncated(walSegs)
          /\ walFile' = LastSegment(walSegs)
          /\ walSize' = Len(walSegs'[walFile'].frames)
          /\ \E last \in 0..MaxLSN :
                /\ last = 0 \/ last \in Retained'
                /\ \A l \in Retained' : l <= last
                /\ walLast' = last
          /\ walStatus' = "recovering"
          /\ walHarm' = walHarm \cup (IF \E g \in Garbled(walSegs) : Followed(walSegs, g) THEN {"cut"} ELSE {})
                                \cup (IF walLast' + 1 < walFile' THEN {"misnamed"} ELSE {})
       \/ /\ walStatus' \in ScanErrors(walSegs)
          /\ UNCHANGED <<walSegs, walFile, walSize, walLast, walHarm>>
    /\ UNCHANGED <<walProgress, walPc, walAt, walApplied, walRefused, walGivenUp, walDurable, walAcked,
                   walCrashes>>

\* Fault: the record right after the applied LSN is taken for applied.
ToReplaySkipping ==
    {FrameAt(walSegs, p) : p \in {q \in Places(walSegs) : FrameAt(walSegs, q).lsn > walProgress + 1}}

\* ReadFrom(applied + 1), less what Recover skips: it starts with the last file
\* whose name is not past that LSN.
ToReplay ==
    {FrameAt(walSegs, p) : p \in {q \in Places(walSegs) :
        /\ FrameAt(walSegs, q).lsn > walProgress
        /\ \A s \in DOMAIN walSegs : s <= walProgress + 1 => s <= q[1]}}

\* Recover: one record is applied and the applied LSN is moved to it.
WalReplay ==
    /\ walStatus = "recovering"
    /\ \E f \in ToReplay :
        /\ \A g \in ToReplay : f.lsn <= g.lsn
        /\ f.graph => f.lsn \notin walApplied
        /\ walApplied' = walApplied \cup {f.lsn}
        /\ walProgress' = f.lsn
    /\ UNCHANGED <<walSegs, walFile, walSize, walLast, walStatus, walPc, walAt, walRefused, walGivenUp, walDurable, walAcked,
                   walHarm, walCrashes>>

\* The applier of a graph commit answers a conflict, because the commit is in
\* the store already or because the store refuses it, or the applier of a blob
\* delete finds references: Recover returns the error and the daemon does not
\* start.
WalReplayRefused ==
    /\ walStatus = "recovering"
    /\ \E f \in ToReplay :
        /\ \A g \in ToReplay : f.lsn <= g.lsn
        /\ walRefused' = IF f.lsn \in walApplied THEN walRefused ELSE walRefused \cup {f.lsn}
    /\ walStatus' = "apply"
    /\ UNCHANGED <<walSegs, walFile, walSize, walLast, walProgress, walPc, walAt, walApplied, walGivenUp, walDurable,
                   walAcked, walHarm, walCrashes>>

WalRecovered ==
    /\ walStatus = "recovering"
    /\ ToReplay = {}
    /\ walStatus' = "open"
    /\ UNCHANGED <<walSegs, walFile, walSize, walLast, walProgress, walPc, walAt, walApplied, walRefused, walGivenUp,
                   walDurable, walAcked, walHarm, walCrashes>>

WalNext ==
    \/ \E w \in WalWriters :
        \/ WalAppend(w) \/ WalAppendFails(w) \/ WalSync(w)
        \/ WalApply(w) \/ WalApplyRefused(w) \/ WalMarkApplied(w) \/ WalGiveUp(w)
    \/ WalCheckpoint
    \/ WalCrash \/ WalOpen
    \/ WalReplay \/ WalReplayRefused \/ WalRecovered

WalSpec == WalInit /\ [][WalNext]_walVars

-----------------------------------------------------------------------------
(* Properties.                                                             *)

\* Every variable stays in its set.
WalTypeOK ==
    /\ DOMAIN walSegs \subseteq Starts /\ walSegs \in [DOMAIN walSegs -> SegmentFiles]
    /\ walFile \in Starts /\ walSize \in Nat
    /\ walLast \in 0..MaxLSN
    /\ walStatus \in {"open", "recovering", "down", "corrupt", "torn", "non-contiguous", "apply"}
    /\ walProgress \in 0..MaxLSN
    /\ walPc \in [WalWriters -> {"idle", "appended", "synced", "applied"}]
    /\ walAt \in [WalWriters -> 0..MaxLSN]
    /\ walApplied \cup walRefused \cup walGivenUp \cup walDurable \cup walAcked \subseteq 1..MaxLSN
    /\ walHarm \subseteq {"closed unsynced", "failed append", "retention", "unlinked",
                          "misnamed", "cut"}
    /\ walCrashes \in 0..MaxWalCrashes

\* Nothing is amiss with what Open found: the LSNs go on from the name of the
\* current file, and no frames behind garbage were taken for a torn tail.
WalWhole == walHarm \cap {"misnamed", "cut"} = {}

\* A record that was on disk and that recovery would still have to replay is
\* never gone: not by retention, not by the truncation of a torn tail, not by a
\* crash (Manager.RetainFrom, scanAndOpen).  The exceptions are a log that
\* reopened with LSNs below the name of its last file, and garbage of a failed
\* append that swallows the frames behind it.
WalNeededRetained == WalWhole => \A l \in walDurable : l > walProgress => l \in Retained

\* What was reported as committed is on disk, unless the log was rotated
\* between the append and the sync of some record, which then synced another
\* file (Manager.Sync, rotateLocked), or retention removed the file in use.
WalAckedDurable == walAcked \subseteq walDurable \/ walHarm \cap {"closed unsynced", "unlinked"} # {}

\* The log reopens after every crash: what a power loss leaves of the last
\* segment is never taken for damage.  Open fails only on bytes that a failed
\* append left in front of others, on a file closed without a sync or not the
\* last by its name, or on LSNs that no longer start at 1 (scanAndOpen).
WalReopens ==
    /\ walStatus = "corrupt" => "failed append" \in walHarm
    /\ walStatus = "torn" => walHarm \cap {"failed append", "closed unsynced", "misnamed"} # {}
    /\ walStatus = "non-contiguous" => walHarm \cap {"retention", "closed unsynced"} # {}

\* When the daemon runs, a record on disk above the applied LSN has been
\* decided, belongs to a request in flight, or to one that has failed since the
\* log was opened: recovery forgot none, not even those that requests had given
\* up before (Recovery.Recover, FileProgressStore.SetAppliedLSN).
WalNothingForgotten ==
    walStatus = "open" /\ WalWhole =>
        \A l \in walDurable : l > walProgress =>
            \/ l \in walApplied \cup walRefused \cup walGivenUp
            \/ \E w \in WalWriters : walAt[w] = l /\ walPc[w] \in {"appended", "synced"}

\* The plan asks that "Recovery from checkpoint plus remaining WAL works": a
\* log of which retention alone has removed segments reopens (RetainFrom,
\* scanAndOpen).
WalReopensAfterRetention == walHarm = {"retention"} => walStatus # "non-contiguous"
==============================================================================
