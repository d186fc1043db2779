------------------------- MODULE BackupQuiesceProofs -------------------------
(***************************************************************************)
(* Proofs about BackupQuiesce for any number of gates, any work on any     *)
(* routes through them, and any number of backups and crashes.             *)
(*                                                                         *)
(* The argument: a backup owns a prefix of the gates, and no gate has two  *)
(* owners.  Who owns the first gate has seen the requests inside it leave, *)
(* so a request that is inside meets no closed gate further in, and while  *)
(* all gates are owned a request has done all of its writes or none.       *)
(***************************************************************************)
EXTENDS BackupQuiesce, TLAPS

Request(o) == GateRoute[o][1] = 1

\* What a unit of work holds in each phase.
WorkInv ==
    \A o \in GateOps :
        /\ opPhase[o] \in {"idle", "done"} => opAt[o] = 0
        /\ opPhase[o] = "in" => 0 < opAt[o] /\ opAt[o] < Len(GateRoute[o])
        /\ opPhase[o] = "out" => 0 < opAt[o]

\* How many gates a backup has in each phase; while an archive is made they can
\* only be fewer if the coordinator has given up.
PhaseInv ==
    \A b \in Backups :
        /\ buPc[b] = "idle" => buHeld[b] = 0
        /\ buPc[b] \in {"acquire", "drain"} => buHeld[b] < GateCount
        /\ buPc[b] = "hold" => buHeld[b] = GateCount
        /\ buPc[b] \in {"copy", "staged", "renamed"} => buHeld[b] = GateCount \/ buId[b] \in buExposed

\* The gates a backup has closed: those it has drained and the one it drains.
Owns(b, g) == g <= buHeld[b] \/ (buPc[b] = "drain" /\ g = buHeld[b] + 1)

\* A gate is closed exactly if a backup owns it, and then one does.
GateInv ==
    \A g \in Gates :
        /\ gateClosed[g] <=> \E b \in Backups : Owns(b, g)
        /\ \A a, b \in Backups : Owns(a, g) /\ Owns(b, g) => a = b

\* Behind a drained ingress gate only reads are inside.
DrainInv ==
    \A b \in Backups : buHeld[b] >= 1 =>
        \A o \in GateOps : Request(o) /\ opAt[o] > 0 => o \in GateReads

\* The files have a request's writes as far as it has come, unless it was cut off.
DataInv ==
    \A o \in GateOps \ opCut : Request(o) => \A k \in 2..Len(GateRoute[o]) :
        /\ opPhase[o] = "idle" => o \notin gateData[GateRoute[o][k]]
        /\ opPhase[o] = "in" /\ k <= opAt[o] => o \in gateData[GateRoute[o][k]]
        /\ opPhase[o] \in {"out", "done"} => o \in gateData[GateRoute[o][k]]

\* A backup that writes has an id of its own, given out before, that nothing is
\* listed under.
IdInv ==
    /\ \A b \in Backups : buId[b] <= buCount
    /\ \A a, b \in Backups : buId[a] # 0 /\ buId[a] = buId[b] => a = b
    /\ \A i \in BackupIds : i > buCount => buFiles[i] = {}
    /\ buPc["local"] # "idle" => buId["local"] # 0
    /\ buPc["local"] \in {"acquire", "drain", "hold"} => buFiles[buId["local"]] = {}
    /\ buPc["cluster"] \in {"idle", "acquire", "drain", "hold"} => buId["cluster"] = 0
    /\ \A b \in Backups :
        /\ buPc[b] \in {"copy", "staged", "renamed"} => buId[b] # 0
        /\ buPc[b] \in {"copy", "staged"} => buFiles[buId[b]] = {}
        /\ buPc[b] = "renamed" => buFiles[buId[b]] = {"archive"}

\* What is staged is what the files still hold, unless gates were opened.
CopyInv ==
    \A b \in Backups :
        /\ buPc[b] \in {"idle", "acquire", "drain", "hold"} => buStaged[b] = {}
        /\ buPc[b] \in {"staged", "renamed"} => buStaged[b] = Gates
        /\ buPc[b] \in {"copy", "staged", "renamed"} /\ buId[b] \notin buExposed =>
               \A g \in buStaged[b] : buCopy[buId[b]][g] = gateData[g]

BackupInv ==
    /\ BackupTypeOK /\ WorkInv /\ PhaseInv /\ GateInv /\ DrainInv /\ AdmittedNotRefused
    /\ DataInv /\ IdInv /\ CopyInv /\ ListedConsistent

-----------------------------------------------------------------------------
(* Facts that the proofs below share.                                      *)

\* Routes are non-empty and lead through the gates.
LEMMA RouteType ==
  ASSUME NEW o \in GateOps
  PROVE  /\ GateRoute[o] \in Seq(Gates) /\ Len(GateRoute[o]) \in Nat \ {0}
         /\ \A k \in 1..Len(GateRoute[o]) : GateRoute[o][k] \in Gates
         /\ \A k \in 2..Len(GateRoute[o]) : GateRoute[o][k] # 1
         /\ o \in GateReads => Len(GateRoute[o]) = 1
<1>1. GateRoute[o] \in Seq(Gates) /\ GateRoute[o] # <<>>
  BY BackupAssumption
<1>2. Len(GateRoute[o]) \in Nat \ {0}
  BY <1>1
<1>3. o \in GateReads => Len(GateRoute[o]) = 1
  <2>1. o \in GateReads => GateRoute[o] = <<1>>
    BY BackupAssumption
  <2>2. QED
    BY <2>1
<1>4. QED
  BY <1>1, <1>2, <1>3, BackupAssumption

\* The gate that an operation enters next (Gate.enter).
LEMMA NextGateType ==
  ASSUME BackupTypeOK, NEW o \in GateOps, opAt[o] < Len(GateRoute[o])
  PROVE  /\ NextGate(o) \in Gates
         /\ opAt[o] > 0 => NextGate(o) # 1
<1>1. opAt[o] \in Nat
  BY DEF BackupTypeOK, WorkType
<1>2. QED
  BY <1>1, RouteType DEF NextGate

-----------------------------------------------------------------------------
(* Type correctness.                                                       *)

\* Every step keeps the type of the work in the gates.
LEMMA WorkTypeStep ==
  ASSUME BackupTypeOK, WorkInv, [BackupNext]_backupVars
  PROVE  WorkType'
<1>1. ASSUME NEW o \in GateOps, OpEnter(o) \/ OpRefused(o) PROVE WorkType'
  <2>1. CASE OpEnter(o)
    <3>1. opAt[o] + 1 \in Nat /\ opAt[o] + 1 <= Len(GateRoute[o])
      BY <2>1, RouteType DEF OpEnter, BackupTypeOK, WorkType
    <3>2. opPhase' = [opPhase EXCEPT ![o] = IF opAt[o] + 1 = Len(GateRoute[o]) THEN "out" ELSE "in"]
      BY <2>1 DEF OpEnter
    <3>3. opPhase' \in [GateOps -> {"idle", "in", "out", "done"}]
      BY <3>2 DEF BackupTypeOK, WorkType
    <3>4. QED
      BY <2>1, <3>1, <3>3 DEF OpEnter, BackupTypeOK, WorkType
  <2>2. CASE OpRefused(o)
    BY <2>2 DEF OpRefused, BackupTypeOK, WorkType
  <2>3. QED
    BY <1>1, <2>1, <2>2
<1>2. ASSUME NEW o \in GateOps, OpLeave(o) PROVE WorkType'
  <2>1. opAt[o] \in Nat \ {0}
    BY <1>2 DEF OpLeave, WorkInv, BackupTypeOK, WorkType
  <2>2. QED
    BY <1>2, <2>1, RouteType DEF OpLeave, BackupTypeOK, WorkType
<1>3. CASE BackupCrash
  BY <1>3, RouteType DEF BackupCrash, BackupTypeOK, WorkType
<1>4. CASE UNCHANGED <<opPhase, opAt, opRefused, opCut>>
  BY <1>4 DEF BackupTypeOK, WorkType
<1>5. QED
  BY <1>1, <1>2, <1>3, <1>4
     DEF BackupNext, backupVars, gateVars, BackupStart, QuiesceClose, QuiesceDrained, QuiesceTimeout, QuiesceRefused,
         QuiesceRelease, ArchiveBegin, ArchiveStage, ArchiveRename, ArchiveFails, RetentionDelete, BackupFinish

\* Every step keeps the type of the gates.
LEMMA GateTypeStep ==
  ASSUME BackupTypeOK, [BackupNext]_backupVars
  PROVE  GateType'
<1>1. ASSUME NEW o \in GateOps, OpEnter(o) PROVE GateType'
  BY <1>1, NextGateType DEF OpEnter, BackupTypeOK, GateType
<1>2. ASSUME NEW b \in Backups, QuiesceClose(b) \/ QuiesceTimeout(b) \/ QuiesceRelease(b) PROVE GateType'
  BY <1>2 DEF QuiesceClose, QuiesceTimeout, QuiesceRelease, BackupTypeOK, GateType
<1>3. CASE BackupCrash
  BY <1>3 DEF BackupCrash, BackupTypeOK, GateType
<1>4. CASE UNCHANGED <<gateClosed, gateData>>
  BY <1>4 DEF BackupTypeOK, GateType
<1>5. QED
  BY <1>1, <1>2, <1>3, <1>4
     DEF BackupNext, backupVars, gateVars, OpRefused, OpLeave, BackupStart, QuiesceDrained, QuiesceRefused,
         ArchiveBegin, ArchiveStage, ArchiveRename, ArchiveFails, RetentionDelete, BackupFinish

\* Every step keeps the type of the backups' phases.
LEMMA PhaseTypeStep ==
  ASSUME BackupTypeOK, PhaseInv, [BackupNext]_backupVars
  PROVE  PhaseType'
<1> USE BackupAssumption DEF BackupTypeOK, PhaseType
<1>1. ASSUME NEW b \in Backups, BackupStart(b) \/ QuiesceClose(b) \/ QuiesceTimeout(b) \/ QuiesceRefused(b)
      PROVE  PhaseType'
  BY <1>1 DEF BackupStart, BeginRun, QuiesceClose, QuiesceTimeout, QuiesceRefused
<1>2. ASSUME NEW b \in Backups, QuiesceDrained(b) \/ QuiesceRelease(b) PROVE PhaseType'
  BY <1>2 DEF QuiesceDrained, QuiesceRelease, PhaseInv
<1>3. ASSUME NEW b \in Backups, ArchiveBegin(b) \/ ArchiveStage(b) PROVE PhaseType'
  BY <1>3 DEF ArchiveBegin, BeginRun, ArchiveStage
<1>4. ASSUME NEW b \in Backups, ArchiveRename(b) \/ ArchiveFails(b) \/ BackupFinish(b) PROVE PhaseType'
  BY <1>4 DEF ArchiveRename, ArchiveFails, BackupFinish, RunEnds
<1>5. CASE BackupCrash
  BY <1>5 DEF BackupCrash
<1>6. CASE UNCHANGED <<buPc, buHeld, buRunning, buCrashes>>
  BY <1>6
<1>7. QED
  BY <1>1, <1>2, <1>3, <1>4, <1>5, <1>6
     DEF BackupNext, backupVars, buVars, OpEnter, OpRefused, OpLeave, RetentionDelete

\* Every step keeps the type of the archives and manifests.
LEMMA ArchiveTypeStep ==
  ASSUME BackupTypeOK, IdInv, [BackupNext]_backupVars
  PROVE  ArchiveType'
<1> USE BackupAssumption DEF BackupTypeOK, ArchiveType
<1>1. ASSUME NEW b \in Backups, BackupStart(b) \/ ArchiveBegin(b) \/ BackupFinish(b) PROVE ArchiveType'
  <2>1. UNCHANGED <<buCopy, buFiles, buExposed>>
    BY <1>1 DEF BackupStart, ArchiveBegin, BackupFinish
  <2>2. buStaged' \in [Backups -> SUBSET Gates]
    BY <1>1 DEF BackupStart, ArchiveBegin, BackupFinish
  <2>3. buCount' \in 0..MaxBackups /\ buId' \in [Backups -> 0..MaxBackups]
    BY SMTT(60), <1>1 DEF BackupStart, BeginRun, ArchiveBegin, BackupFinish
  <2>4. QED
    BY <2>1, <2>2, <2>3
<1>2. ASSUME NEW b \in Backups, ArchiveStage(b) PROVE ArchiveType'
  BY <1>2 DEF ArchiveStage, GateType, IdInv, BackupIds
<1>3. ASSUME NEW b \in Backups, ArchiveRename(b) \/ ArchiveFails(b) \/ RetentionDelete(b) PROVE ArchiveType'
  <2>1. UNCHANGED <<buId, buCount, buCopy, buStaged, buExposed>>
    BY <1>3 DEF ArchiveRename, ArchiveFails, RetentionDelete
  <2>2. \E i, f : f \in SUBSET {"archive", "manifest"} /\ buFiles' = [buFiles EXCEPT ![i] = f]
    <3>1. CASE ArchiveRename(b)
      <4>1. PICK f \in {"archive", "manifest"} : buFiles' = [buFiles EXCEPT ![buId[b]] = buFiles[buId[b]] \cup {f}]
        BY <3>1 DEF ArchiveRename
      <4>2. buId[b] \in BackupIds
        BY <3>1 DEF ArchiveRename, IdInv, BackupIds
      <4>3. QED
        BY <4>1, <4>2
    <3>2. CASE ArchiveFails(b) \/ RetentionDelete(b)
      BY <3>2 DEF ArchiveFails, RetentionDelete
    <3>3. QED
      BY <1>3, <3>1, <3>2
  <2>3. QED
    BY <2>1, <2>2
<1>4. CASE BackupCrash
  BY <1>4 DEF BackupCrash
<1>5. CASE UNCHANGED <<buId, buCount, buCopy, buFiles, buStaged, buExposed>>
  BY <1>5
<1>6. ASSUME NEW b \in Backups, QuiesceRelease(b) PROVE ArchiveType'
  <2>1. UNCHANGED <<buId, buCount, buCopy, buFiles, buStaged>>
    BY <1>6 DEF QuiesceRelease
  <2>2. buExposed' = buExposed \/ (buExposed' = buExposed \cup {buId[b]} /\ buId[b] \in BackupIds)
    BY <1>6 DEF QuiesceRelease, IdInv, BackupIds
  <2>3. QED
    BY <2>1, <2>2
<1>7. QED
  BY <1>1, <1>2, <1>3, <1>4, <1>5, <1>6
     DEF BackupNext, backupVars, buVars, OpEnter, OpRefused, OpLeave, QuiesceClose, QuiesceDrained, QuiesceTimeout,
         QuiesceRefused

-----------------------------------------------------------------------------
(* Gates.                                                                  *)

\* enter, the release functions and a crash keep count of what work holds.
LEMMA WorkStep ==
  ASSUME BackupTypeOK, WorkInv, [BackupNext]_backupVars
  PROVE  WorkInv'
<1> USE DEF BackupTypeOK, WorkType
<1>1. ASSUME NEW o \in GateOps, OpEnter(o) PROVE WorkInv'
  <2>1. opAt[o] \in Nat /\ Len(GateRoute[o]) \in Nat /\ opAt[o] < Len(GateRoute[o])
    BY <1>1, RouteType DEF OpEnter
  <2>2. /\ opAt'[o] = opAt[o] + 1
        /\ opPhase'[o] = IF opAt[o] + 1 = Len(GateRoute[o]) THEN "out" ELSE "in"
        /\ \A p \in GateOps : p # o => opAt'[p] = opAt[p] /\ opPhase'[p] = opPhase[p]
    BY <1>1 DEF OpEnter
  <2>3. QED
    BY <2>1, <2>2 DEF WorkInv
<1>2. ASSUME NEW o \in GateOps, OpRefused(o) PROVE WorkInv'
  BY <1>2 DEF OpRefused, WorkInv
<1>3. ASSUME NEW o \in GateOps, OpLeave(o) PROVE WorkInv'
  <2>1. opAt[o] \in Nat \ {0} /\ opPhase[o] = "out"
    BY <1>3 DEF OpLeave, WorkInv
  <2>2. /\ opAt'[o] = opAt[o] - 1
        /\ opPhase'[o] = IF opAt[o] = 1 THEN "done" ELSE "out"
        /\ \A p \in GateOps : p # o => opAt'[p] = opAt[p] /\ opPhase'[p] = opPhase[p]
    BY <1>3 DEF OpLeave
  <2>3. QED
    BY <2>1, <2>2 DEF WorkInv
<1>4. CASE BackupCrash
  BY <1>4 DEF BackupCrash, WorkInv
<1>5. CASE UNCHANGED <<opPhase, opAt>>
  BY <1>5 DEF WorkInv
<1>6. QED
  BY <1>1, <1>2, <1>3, <1>4, <1>5
     DEF BackupNext, backupVars, gateVars, BackupStart, QuiesceClose, QuiesceDrained, QuiesceTimeout, QuiesceRefused,
         QuiesceRelease, ArchiveBegin, ArchiveStage, ArchiveRename, ArchiveFails, RetentionDelete, BackupFinish

\* QuiesceAll and releaseParticipantLeases keep count of the gates.
LEMMA PhaseStep ==
  ASSUME BackupTypeOK, PhaseInv, [BackupNext]_backupVars
  PROVE  PhaseInv'
<1> USE BackupAssumption DEF BackupTypeOK, PhaseType, ArchiveType
<1>1. ASSUME NEW b \in Backups, BackupStart(b) \/ QuiesceClose(b) \/ QuiesceTimeout(b) \/ QuiesceRefused(b)
      PROVE  PhaseInv'
  <2>1. UNCHANGED <<buHeld, buExposed>> /\ \A a \in Backups : a # b => buPc'[a] = buPc[a] /\ buId'[a] = buId[a]
    BY <1>1 DEF BackupStart, BeginRun, QuiesceClose, QuiesceTimeout, QuiesceRefused
  <2>2. \/ buPc[b] \in {"idle", "acquire"} /\ buPc'[b] \in {"acquire", "drain"} /\ buHeld[b] < GateCount
        \/ buPc'[b] = "release"
    BY <1>1 DEF BackupStart, QuiesceClose, QuiesceTimeout, QuiesceRefused, PhaseInv
  <2>3. QED
    BY <2>1, <2>2 DEF PhaseInv
<1>2. ASSUME NEW b \in Backups, QuiesceDrained(b) PROVE PhaseInv'
  BY <1>2 DEF QuiesceDrained, PhaseInv
<1>3. ASSUME NEW b \in Backups, QuiesceRelease(b) \/ BackupFinish(b) PROVE PhaseInv'
  <2>1. CASE QuiesceRelease(b)
    <3>1. UNCHANGED <<buPc, buId>> /\ \A a \in Backups : a # b => buHeld'[a] = buHeld[a]
      BY <2>1 DEF QuiesceRelease
    <3>2. buHeld'[b] = buHeld[b] - 1 /\ buHeld[b] \in 1..GateCount /\ buExposed \subseteq buExposed'
      BY <2>1 DEF QuiesceRelease
    <3>3. buPc[b] = "release" \/ (buPc[b] \in {"copy", "staged", "renamed"} /\ buId[b] \in buExposed')
      BY <2>1 DEF QuiesceRelease
    <3>4. QED
      BY <3>1, <3>2, <3>3 DEF PhaseInv
  <2>2. CASE BackupFinish(b)
    BY <2>2 DEF BackupFinish, PhaseInv
  <2>3. QED
    BY <1>3, <2>1, <2>2
<1>4. ASSUME NEW b \in Backups, ArchiveBegin(b) \/ ArchiveStage(b) \/ ArchiveFails(b) PROVE PhaseInv'
  <2>1. UNCHANGED <<buHeld, buExposed>> /\ \A a \in Backups : a # b => buPc'[a] = buPc[a] /\ buId'[a] = buId[a]
    <3>1. CASE ArchiveBegin(b)
      BY <3>1 DEF ArchiveBegin, BeginRun
    <3>2. CASE ArchiveStage(b) \/ ArchiveFails(b)
      BY <3>2 DEF ArchiveStage, ArchiveFails
    <3>3. QED
      BY <1>4, <3>1, <3>2
  <2>2. \/ buPc[b] = "hold" /\ buPc'[b] \in {"copy", "release"}
        \/ buPc[b] \in {"copy", "staged", "renamed"} /\ buPc'[b] \in {"copy", "staged", "release"} /\ buId'[b] = buId[b]
    BY <1>4 DEF ArchiveBegin, ArchiveStage, ArchiveFails
  <2>3. buPc'[b] \in {"copy", "staged", "renamed"} => buHeld[b] = GateCount \/ buId'[b] \in buExposed'
    BY <2>1, <2>2 DEF PhaseInv
  <2>4. buPc'[b] \in {"copy", "staged", "release"}
    BY <2>2
  <2>5. QED
    BY <2>1, <2>3, <2>4 DEF PhaseInv
<1>5. ASSUME NEW b \in Backups, ArchiveRename(b) PROVE PhaseInv'
  BY <1>5 DEF ArchiveRename, PhaseInv
<1>6. CASE BackupCrash
  BY <1>6 DEF BackupCrash, PhaseInv
<1>7. CASE UNCHANGED <<buPc, buHeld, buId, buExposed>>
  BY <1>7 DEF PhaseInv
<1>8. QED
  BY <1>1, <1>2, <1>3, <1>4, <1>5, <1>6, <1>7
     DEF BackupNext, backupVars, buVars, OpEnter, OpRefused, OpLeave, RetentionDelete

\* A gate is closed by the backup that comes to own it and opened when that
\* backup gives it up; ErrAlreadyQuiesced keeps a second owner away.
LEMMA GateStep ==
  ASSUME BackupTypeOK, PhaseInv, GateInv, [BackupNext]_backupVars
  PROVE  GateInv'
<1> USE BackupAssumption DEF BackupTypeOK, PhaseType, GateType
<1>1. ASSUME NEW b \in Backups, QuiesceClose(b) PROVE GateInv'
  <2>1. \A a \in Backups, g \in Gates : Owns(a, g)' <=> Owns(a, g) \/ (a = b /\ g = buHeld[b] + 1)
    BY <1>1 DEF QuiesceClose, Owns
  <2>2. buHeld[b] + 1 \in Gates
    BY <1>1 DEF QuiesceClose, Gates
  <2>3. ~gateClosed[buHeld[b] + 1] /\ gateClosed' = [gateClosed EXCEPT ![buHeld[b] + 1] = TRUE]
    BY <1>1 DEF QuiesceClose, QuiesceOrder
  <2>4. QED
    BY <2>1, <2>2, <2>3 DEF GateInv
<1>2. ASSUME NEW b \in Backups, QuiesceTimeout(b) PROVE GateInv'
  <2>1. \A a \in Backups, g \in Gates : Owns(a, g)' <=> Owns(a, g) /\ ~(a = b /\ g = buHeld[b] + 1)
    BY <1>2 DEF QuiesceTimeout, Owns, Gates
  <2>2. buHeld[b] + 1 \in Gates /\ Owns(b, buHeld[b] + 1)
    BY <1>2 DEF QuiesceTimeout, Gates, PhaseInv, Owns
  <2>3. gateClosed' = [gateClosed EXCEPT ![buHeld[b] + 1] = FALSE]
    BY <1>2 DEF QuiesceTimeout, QuiesceOrder
  <2>4. QED
    BY <2>1, <2>2, <2>3 DEF GateInv
<1>3. ASSUME NEW b \in Backups, QuiesceRelease(b) PROVE GateInv'
  <2>1. \A a \in Backups, g \in Gates : Owns(a, g)' <=> Owns(a, g) /\ ~(a = b /\ g = buHeld[b])
    BY <1>3 DEF QuiesceRelease, Owns, Gates
  <2>2. buHeld[b] \in Gates /\ Owns(b, buHeld[b])
    BY <1>3 DEF QuiesceRelease, Gates, Owns
  <2>3. gateClosed' = [gateClosed EXCEPT ![buHeld[b]] = FALSE]
    BY <1>3 DEF QuiesceRelease, ReleasedGate, QuiesceOrder
  <2>4. QED
    BY <2>1, <2>2, <2>3 DEF GateInv
<1>4. CASE BackupCrash
  <2>1. \A a \in Backups, g \in Gates : ~Owns(a, g)'
    BY <1>4 DEF BackupCrash, Owns, Gates
  <2>2. QED
    BY <1>4, <2>1 DEF BackupCrash, GateInv
<1>5. ASSUME UNCHANGED gateClosed, \A a \in Backups, g \in Gates : Owns(a, g)' <=> Owns(a, g) PROVE GateInv'
  BY <1>5 DEF GateInv
<1>6. ASSUME NEW b \in Backups, QuiesceDrained(b) PROVE GateInv'
  <2>1. \A a \in Backups, g \in Gates : Owns(a, g)' <=> Owns(a, g)
    BY <1>6 DEF QuiesceDrained, Owns, Gates
  <2>2. QED
    BY <1>5, <1>6, <2>1 DEF QuiesceDrained, gateVars
<1>7. ASSUME NEW b \in Backups, UNCHANGED <<gateClosed, buHeld>>, buPc[b] # "drain", buPc'[b] # "drain",
             \A a \in Backups : a # b => buPc'[a] = buPc[a]
      PROVE  GateInv'
  BY <1>5, <1>7 DEF Owns
<1>8. ASSUME NEW b \in Backups, BackupStart(b) \/ QuiesceRefused(b) \/ ArchiveBegin(b) \/ ArchiveStage(b)
                                \/ ArchiveFails(b) \/ ArchiveRename(b) \/ BackupFinish(b)
      PROVE  GateInv'
  <2>1. UNCHANGED <<gateClosed, buHeld>> /\ \E p : p # "drain" /\ buPc' = [buPc EXCEPT ![b] = p]
    BY <1>8 DEF BackupStart, QuiesceRefused, ArchiveBegin, ArchiveStage, ArchiveFails, ArchiveRename, BackupFinish,
       gateVars
  <2>2. buPc[b] # "drain"
    BY <1>8 DEF BackupStart, QuiesceRefused, ArchiveBegin, ArchiveStage, ArchiveFails, ArchiveRename, BackupFinish
  <2>3. QED
    BY <1>7, <2>1, <2>2
<1>9. CASE UNCHANGED <<gateClosed, buPc, buHeld>>
  BY <1>5, <1>9 DEF Owns
<1>10. QED
  BY <1>1, <1>2, <1>3, <1>4, <1>6, <1>8, <1>9
     DEF BackupNext, backupVars, gateVars, buVars, OpEnter, OpRefused, OpLeave, RetentionDelete

\* A request that is inside meets an open gate: a closed inner gate has an
\* owner, which has drained the ingress gate, and reads go no further than that.
LEMMA InsideNotRefused ==
  ASSUME BackupTypeOK, GateInv, DrainInv,
         NEW o \in GateOps, Request(o), opAt[o] > 0, opAt[o] < Len(GateRoute[o])
  PROVE  Admits(NextGate(o), o)
<1>1. SUFFICES ASSUME gateClosed[NextGate(o)] PROVE FALSE
  BY DEF Admits
<1>2. NextGate(o) \in Gates /\ NextGate(o) # 1
  BY NextGateType
<1>3. PICK b \in Backups : Owns(b, NextGate(o))
  BY <1>1, <1>2 DEF GateInv
<1>4. buHeld[b] >= 1
  BY <1>2, <1>3, BackupAssumption DEF Owns, Gates, BackupTypeOK, PhaseType
<1>5. o \in GateReads
  BY <1>4 DEF DrainInv
<1>6. Len(GateRoute[o]) = 1 /\ opAt[o] \in Nat
  BY <1>5, RouteType DEF BackupTypeOK, WorkType
<1>7. QED
  BY <1>6

\* A request inside is inside the ingress gate.
LEMMA RequestInside ==
  ASSUME BackupTypeOK, NEW o \in GateOps, Request(o), opAt[o] > 0
  PROVE  o \in Inside(1)
<1>1. 1 \in 1..opAt[o]
  BY DEF BackupTypeOK, WorkType
<1>2. QED
  BY <1>1 DEF Inside, Request

\* Gate.Quiesce has waited for the ingress gate to drain, and what enters it
\* while it is closed are the reads that the quiesce allows.
LEMMA DrainStep ==
  ASSUME BackupTypeOK, WorkInv, GateInv, DrainInv, [BackupNext]_backupVars
  PROVE  DrainInv'
<1> USE BackupAssumption DEF BackupTypeOK, PhaseType, WorkType
<1>1. ASSUME NEW o \in GateOps, OpEnter(o) PROVE DrainInv'
  <2>1. SUFFICES ASSUME NEW b \in Backups, buHeld[b] >= 1, Request(o), opAt[o] = 0
                 PROVE  o \in GateReads
    BY <1>1 DEF OpEnter, DrainInv, buVars, Request
  <2>2. NextGate(o) = 1
    BY <2>1 DEF NextGate, Request
  <2>3. 1 \in Gates /\ Owns(b, 1)
    BY <2>1 DEF Gates, Owns
  <2>4. gateClosed[1]
    BY <2>3 DEF GateInv
  <2>5. QED
    BY <1>1, <2>2, <2>4 DEF OpEnter, Admits
<1>2. ASSUME NEW o \in GateOps, OpRefused(o) \/ OpLeave(o) PROVE DrainInv'
  <2>1. buHeld' = buHeld /\ \A p \in GateOps : opAt'[p] > 0 => opAt[p] > 0
    BY <1>2 DEF OpRefused, OpLeave, buVars, WorkInv
  <2>2. QED
    BY <2>1 DEF DrainInv, Request
<1>3. ASSUME NEW b \in Backups, QuiesceDrained(b) PROVE DrainInv'
  <2>1. opAt' = opAt /\ \A a \in Backups : a # b => buHeld'[a] = buHeld[a]
    BY <1>3 DEF QuiesceDrained, gateVars
  <2>2. CASE buHeld[b] >= 1
    BY <2>1, <2>2 DEF DrainInv, Request
  <2>3. CASE buHeld[b] = 0
    <3>1. Drained(1)
      BY <1>3, <2>3 DEF QuiesceDrained, QuiesceOrder
    <3>2. \A o \in GateOps : Request(o) /\ opAt[o] > 0 => o \in GateReads
      BY <3>1, RequestInside DEF Drained
    <3>3. QED
      BY <2>1, <3>2 DEF DrainInv, Request
  <2>4. QED
    BY <2>2, <2>3
<1>4. ASSUME NEW b \in Backups, QuiesceRelease(b) PROVE DrainInv'
  <2>1. opAt' = opAt /\ \A a \in Backups : buHeld'[a] >= 1 => buHeld[a] >= 1
    BY <1>4 DEF QuiesceRelease
  <2>2. QED
    BY <2>1 DEF DrainInv, Request
<1>5. CASE BackupCrash
  BY <1>5 DEF BackupCrash, DrainInv
<1>6. CASE UNCHANGED <<opAt, buHeld>>
  BY <1>6 DEF DrainInv, Request
<1>7. QED
  BY <1>1, <1>2, <1>3, <1>4, <1>5, <1>6
     DEF BackupNext, backupVars, gateVars, buVars, BackupStart, QuiesceClose, QuiesceTimeout, QuiesceRefused,
         ArchiveBegin, ArchiveStage, ArchiveRename, ArchiveFails, RetentionDelete, BackupFinish

\* ErrQuiesced at an inner gate is never the answer to a request.
LEMMA RefusedStep ==
  ASSUME BackupTypeOK, WorkInv, GateInv, DrainInv, AdmittedNotRefused, [BackupNext]_backupVars
  PROVE  AdmittedNotRefused'
<1>1. ASSUME NEW o \in GateOps, OpRefused(o) PROVE AdmittedNotRefused'
  <2>1. 0 < opAt[o] /\ opAt[o] < Len(GateRoute[o]) /\ ~Admits(NextGate(o), o) /\ opAt[o] \in Nat
    BY <1>1 DEF OpRefused, WorkInv, BackupTypeOK, WorkType
  <2>2. ~Request(o)
    BY <2>1, InsideNotRefused
  <2>3. QED
    BY <1>1, <2>2 DEF OpRefused, AdmittedNotRefused, Request
<1>2. CASE UNCHANGED opRefused
  BY <1>2 DEF AdmittedNotRefused
<1>3. QED
  BY <1>1, <1>2
     DEF BackupNext, backupVars, gateVars, OpEnter, OpLeave, BackupCrash, BackupStart, QuiesceClose, QuiesceDrained,
         QuiesceTimeout, QuiesceRefused, QuiesceRelease, ArchiveBegin, ArchiveStage, ArchiveRename, ArchiveFails,
         RetentionDelete, BackupFinish

-----------------------------------------------------------------------------
(* Archives.                                                               *)

\* Each service of a request's route has its write once the request has gone
\* through the service's gate.
LEMMA DataStep ==
  ASSUME BackupTypeOK, WorkInv, GateInv, DrainInv, DataInv, [BackupNext]_backupVars
  PROVE  DataInv'
<1> USE DEF BackupTypeOK, WorkType, GateType
<1>1. ASSUME NEW o \in GateOps, OpEnter(o) PROVE DataInv'
  <2>1. SUFFICES ASSUME NEW p \in GateOps \ opCut, Request(p), NEW k \in 2..Len(GateRoute[p])
                 PROVE  /\ opPhase'[p] = "idle" => p \notin gateData'[GateRoute[p][k]]
                        /\ opPhase'[p] = "in" /\ k <= opAt'[p] => p \in gateData'[GateRoute[p][k]]
                        /\ opPhase'[p] \in {"out", "done"} => p \in gateData'[GateRoute[p][k]]
    BY <1>1 DEF OpEnter, DataInv, Request
  <2>2. GateRoute[p][k] \in Gates /\ GateRoute[p][k] # 1 /\ Len(GateRoute[p]) \in Nat
    BY <2>1, RouteType
  <2>3. NextGate(o) \in Gates
    BY <1>1, NextGateType DEF OpEnter
  <2>4. \A g \in Gates : gateData[g] \subseteq gateData'[g] /\ gateData'[g] \subseteq gateData[g] \cup {o}
    BY <1>1, <2>3 DEF OpEnter
  <2>5. CASE p # o
    <3>1. opPhase'[p] = opPhase[p] /\ opAt'[p] = opAt[p]
      BY <1>1, <2>5 DEF OpEnter
    <3>2. p \in gateData'[GateRoute[p][k]] <=> p \in gateData[GateRoute[p][k]]
      BY <2>2, <2>4, <2>5
    <3>3. QED
      BY <2>1, <3>1, <3>2 DEF DataInv
  <2>6. CASE p = o
    <3>1. /\ opAt[o] \in Nat /\ opAt'[o] = opAt[o] + 1 /\ opPhase[o] \in {"idle", "in"}
          /\ opPhase'[o] = IF opAt[o] + 1 = Len(GateRoute[o]) THEN "out" ELSE "in"
      BY <1>1 DEF OpEnter
    <3>2. k <= opAt[o] => o \in gateData[GateRoute[o][k]]
      BY <2>1, <2>6, <3>1 DEF DataInv, WorkInv
    <3>3. k = opAt[o] + 1 => NextGate(o) = GateRoute[o][k]
      BY DEF NextGate
    <3>4. k = opAt[o] + 1 => o \in gateData'[GateRoute[o][k]]
      BY <1>1, <2>2, <2>6, <3>3 DEF OpEnter
    <3>5. k <= opAt[o] + 1 => o \in gateData'[GateRoute[o][k]]
      BY <2>2, <2>4, <2>6, <3>1, <3>2, <3>4
    <3>6. opPhase'[o] = "out" => k <= opAt[o] + 1
      BY <2>6, <3>1
    <3>7. QED
      BY <2>6, <3>1, <3>5, <3>6
  <2>7. QED
    BY <2>5, <2>6
<1>2. ASSUME NEW o \in GateOps, OpRefused(o) PROVE DataInv'
  <2>1. 0 < opAt[o] /\ opAt[o] < Len(GateRoute[o]) /\ ~Admits(NextGate(o), o) /\ opAt[o] \in Nat
    BY <1>2 DEF OpRefused, WorkInv
  <2>2. ~Request(o)
    BY <2>1, InsideNotRefused
  <2>3. \A p \in GateOps : Request(p) => opPhase'[p] = opPhase[p]
    BY <1>2, <2>2 DEF OpRefused
  <2>4. QED
    BY <1>2, <2>3 DEF OpRefused, DataInv, Request
<1>3. ASSUME NEW o \in GateOps, OpLeave(o) PROVE DataInv'
  <2>1. UNCHANGED <<gateData, opCut>>
    BY <1>3 DEF OpLeave
  <2>2. \A p \in GateOps : /\ opPhase'[p] = opPhase[p] \/ (opPhase[p] = "out" /\ opPhase'[p] = "done")
                           /\ opPhase'[p] = "in" => opAt'[p] = opAt[p]
    BY <1>3 DEF OpLeave
  <2>3. QED
    BY <2>1, <2>2 DEF DataInv, Request
<1>4. CASE BackupCrash
  <2>1. gateData' = gateData /\ opCut' = opCut \cup {o \in GateOps : opPhase[o] \in {"in", "out"}}
    BY <1>4 DEF BackupCrash
  <2>2. \A p \in GateOps : opPhase'[p] = IF opPhase[p] = "idle" THEN "idle" ELSE "done"
    BY <1>4 DEF BackupCrash
  <2>3. QED
    BY <2>1, <2>2 DEF DataInv, Request
<1>5. CASE UNCHANGED <<opPhase, opAt, opCut, gateData>>
  BY <1>5 DEF DataInv, Request
<1>6. QED
  BY <1>1, <1>2, <1>3, <1>4, <1>5
     DEF BackupNext, backupVars, gateVars, BackupStart, QuiesceClose, QuiesceDrained, QuiesceTimeout, QuiesceRefused,
         QuiesceRelease, ArchiveBegin, ArchiveStage, ArchiveRename, ArchiveFails, RetentionDelete, BackupFinish

\* beginRun gives out a fresh id, and only its holder writes files under it
\* until the manifest is there.
LEMMA IdStep ==
  ASSUME BackupTypeOK, IdInv, [BackupNext]_backupVars
  PROVE  IdInv'
<1> USE BackupAssumption DEF BackupTypeOK, ArchiveType, PhaseType, Backups, BackupIds
<1>1. ASSUME NEW b \in Backups, BackupStart(b) PROVE IdInv'
  <2>1. CASE b = "local"
    <3>1. /\ buCount' = buCount + 1 /\ buId' = [buId EXCEPT !["local"] = buCount + 1] /\ buCount < MaxBackups
          /\ buPc' = [buPc EXCEPT !["local"] = "acquire"] /\ buFiles' = buFiles
      BY <1>1, <2>1 DEF BackupStart, BeginRun
    <3>2. buCount + 1 \in BackupIds /\ buFiles[buCount + 1] = {}
      BY <3>1 DEF IdInv
    <3>3. QED
      BY <3>1, <3>2 DEF IdInv
  <2>2. CASE b = "cluster"
    BY <1>1, <2>2 DEF BackupStart, IdInv
  <2>3. QED
    BY <2>1, <2>2
<1>2. ASSUME NEW b \in Backups, QuiesceClose(b) \/ QuiesceDrained(b) \/ QuiesceTimeout(b) \/ QuiesceRefused(b)
      PROVE  IdInv'
  <2>1. UNCHANGED <<buId, buCount, buFiles>>
    BY <1>2 DEF QuiesceClose, QuiesceDrained, QuiesceTimeout, QuiesceRefused
  <2>2. /\ buPc[b] \in {"acquire", "drain"}
        /\ \E p \in {"acquire", "drain", "hold", "release"} : buPc' = [buPc EXCEPT ![b] = p]
    BY <1>2 DEF QuiesceClose, QuiesceDrained, QuiesceTimeout, QuiesceRefused
  <2>3. QED
    BY <2>1, <2>2 DEF IdInv
<1>3. ASSUME NEW b \in Backups, ArchiveBegin(b) PROVE IdInv'
  <2>1. buPc[b] = "hold" /\ buFiles' = buFiles
    BY <1>3 DEF ArchiveBegin
  <2>2. CASE UNCHANGED <<buId, buCount>>
    <3>1. \/ b = "local" /\ buPc' = [buPc EXCEPT ![b] = "copy"]
          \/ b = "cluster" /\ buPc' = [buPc EXCEPT ![b] = "release"]
      BY <1>3, <2>2 DEF ArchiveBegin, BeginRun
    <3>2. QED
      BY <2>1, <2>2, <3>1 DEF IdInv
  <2>3. CASE b = "cluster" /\ BeginRun(b) /\ buPc' = [buPc EXCEPT ![b] = "copy"]
    <3>1. /\ buCount' = buCount + 1 /\ buId' = [buId EXCEPT !["cluster"] = buCount + 1] /\ buCount < MaxBackups
      BY <2>3 DEF BeginRun
    <3>2. buCount + 1 \in BackupIds /\ buFiles[buCount + 1] = {}
      BY <3>1 DEF IdInv
    <3>3. QED
      BY <2>1, <2>3, <3>1, <3>2 DEF IdInv
  <2>4. QED
    BY <1>3, <2>2, <2>3 DEF ArchiveBegin
<1>4. ASSUME NEW b \in Backups, ArchiveStage(b) PROVE IdInv'
  <2>1. buPc[b] = "copy" /\ \E p \in {"copy", "staged"} : buPc' = [buPc EXCEPT ![b] = p]
    BY <1>4 DEF ArchiveStage
  <2>2. QED
    BY <1>4, <2>1 DEF ArchiveStage, IdInv
<1>5. ASSUME NEW b \in Backups, ArchiveRename(b) \/ ArchiveFails(b) PROVE IdInv'
  <2>1. UNCHANGED <<buId, buCount>> /\ buId[b] \in BackupIds
    BY <1>5 DEF ArchiveRename, ArchiveFails, IdInv
  <2>2. \/ /\ buPc[b] = "staged" /\ buPc' = [buPc EXCEPT ![b] = "renamed"]
           /\ buFiles' = [buFiles EXCEPT ![buId[b]] = {"archive"}]
        \/ /\ buPc[b] \in {"copy", "staged", "renamed"} /\ buPc' = [buPc EXCEPT ![b] = "release"]
           /\ \E f : buFiles' = [buFiles EXCEPT ![buId[b]] = f]
    <3>1. CASE ArchiveFails(b)
      BY <3>1 DEF ArchiveFails
    <3>2. CASE ArchiveRename(b) /\ buPc[b] = "staged"
      BY <2>1, <3>2 DEF ArchiveRename, IdInv
    <3>3. CASE ArchiveRename(b) /\ buPc[b] = "renamed"
      BY <3>3 DEF ArchiveRename
    <3>4. QED
      BY <1>5, <3>1, <3>2, <3>3 DEF ArchiveRename
  <2>3. /\ \A i \in BackupIds : i # buId[b] => buFiles'[i] = buFiles[i]
        /\ \A a \in Backups : a # b => buPc'[a] = buPc[a]
        /\ buPc'[b] \in {"renamed", "release"} /\ buPc[b] \in {"copy", "staged", "renamed"}
        /\ buPc'[b] = "renamed" => buFiles'[buId[b]] = {"archive"}
    BY <2>1, <2>2
  <2>4. \A a \in Backups : a # b => buId[a] # buId[b]
    BY <2>1 DEF IdInv
  <2>5. \A i \in BackupIds : i > buCount => buFiles'[i] = {}
    BY <2>1, <2>3 DEF IdInv
  <2>6. \A a \in Backups :
          /\ buPc'[a] \in {"copy", "staged", "renamed"} => buId[a] # 0
          /\ buPc'[a] \in {"copy", "staged"} => buFiles'[buId[a]] = {}
          /\ buPc'[a] = "renamed" => buFiles'[buId[a]] = {"archive"}
    <3>1. SUFFICES ASSUME NEW a \in Backups, buPc'[a] \in {"copy", "staged", "renamed"}
                   PROVE  /\ buId[a] # 0
                          /\ buPc'[a] \in {"copy", "staged"} => buFiles'[buId[a]] = {}
                          /\ buPc'[a] = "renamed" => buFiles'[buId[a]] = {"archive"}
      OBVIOUS
    <3>2. CASE a = b
      BY <2>1, <2>3, <3>1, <3>2
    <3>3. CASE a # b
      <4>1. buPc'[a] = buPc[a] /\ buId[a] \in BackupIds /\ buFiles'[buId[a]] = buFiles[buId[a]]
        BY <2>3, <2>4, <3>1, <3>3 DEF IdInv
      <4>2. QED
        BY <3>1, <4>1 DEF IdInv
    <3>4. QED
      BY <3>2, <3>3
  <2>7. /\ buPc'["local"] # "idle" => buId["local"] # 0
        /\ buPc'["local"] \in {"acquire", "drain", "hold"} => buFiles'[buId["local"]] = {}
    BY <2>1, <2>3, <2>4 DEF IdInv
  <2>8. buPc'["cluster"] \in {"idle", "acquire", "drain", "hold"} => buId["cluster"] = 0
    BY <2>3 DEF IdInv
  <2>9. QED
    BY <2>1, <2>5, <2>6, <2>7, <2>8 DEF IdInv
<1>6. ASSUME NEW b \in Backups, RetentionDelete(b) PROVE IdInv'
  <2>1. UNCHANGED <<buId, buCount, buPc>>
    BY <1>6 DEF RetentionDelete
  <2>2. \E i \in BackupIds : \E f : /\ buFiles' = [buFiles EXCEPT ![i] = f]
                                     /\ "manifest" \in buFiles[i]
    BY <1>6 DEF RetentionDelete, Expired, Listed
  <2>3. QED
    BY <2>1, <2>2 DEF IdInv
<1>7. ASSUME NEW b \in Backups, BackupFinish(b) PROVE IdInv'
  BY <1>7 DEF BackupFinish, IdInv
<1>8. CASE BackupCrash
  BY <1>8 DEF BackupCrash, IdInv
<1>9. CASE UNCHANGED <<buId, buCount, buFiles, buPc>>
  BY <1>9 DEF IdInv
<1>10. QED
  BY <1>1, <1>2, <1>3, <1>4, <1>5, <1>6, <1>7, <1>8, <1>9
     DEF BackupNext, backupVars, buVars, OpEnter, OpRefused, OpLeave, QuiesceRelease

\* While a backup holds every gate, no service's files change.
LEMMA QuietFiles ==
  ASSUME BackupTypeOK, GateInv, [BackupNext]_backupVars, NEW b \in Backups, buHeld[b] = GateCount
  PROVE  gateData' = gateData
<1>1. ASSUME NEW o \in GateOps, OpEnter(o) PROVE gateData' = gateData
  <2>1. NextGate(o) \in Gates
    BY <1>1, NextGateType DEF OpEnter
  <2>2. Owns(b, NextGate(o))
    BY <2>1 DEF Owns, Gates
  <2>3. gateClosed[NextGate(o)]
    BY <2>1, <2>2 DEF GateInv
  <2>4. QED
    BY <1>1, <2>3 DEF OpEnter, Admits
<1>2. QED
  BY <1>1
     DEF BackupNext, backupVars, gateVars, OpRefused, OpLeave, BackupCrash, BackupStart, QuiesceClose, QuiesceDrained,
         QuiesceTimeout, QuiesceRefused, QuiesceRelease, ArchiveBegin, ArchiveStage, ArchiveRename, ArchiveFails,
         RetentionDelete, BackupFinish

\* stageSnapshot copies files that stay as they are until the gates open.
LEMMA CopyStep ==
  ASSUME BackupTypeOK, PhaseInv, GateInv, IdInv, CopyInv, [BackupNext]_backupVars
  PROVE  CopyInv'
<1> USE DEF BackupTypeOK, ArchiveType, PhaseType, GateType
<1>1. ASSUME NEW a \in Backups, buPc[a] \in {"copy", "staged", "renamed"}, buId[a] \notin buExposed
      PROVE  gateData' = gateData
  BY <1>1, QuietFiles DEF PhaseInv
<1>2. ASSUME UNCHANGED <<buStaged, buCopy, buId, buExposed>>, NEW b \in Backups,
             \A a \in Backups : a # b => buPc'[a] = buPc[a],
             \/ buPc'[b] = "release"
             \/ buPc'[b] = buPc[b]
             \/ buPc[b] \in {"idle", "acquire", "drain", "hold"} /\ buPc'[b] \in {"acquire", "drain", "hold", "copy"}
             \/ buPc[b] = "staged" /\ buPc'[b] = "renamed"
      PROVE  CopyInv'
  <2>1. SUFFICES ASSUME NEW a \in Backups
                 PROVE  /\ buPc'[a] \in {"idle", "acquire", "drain", "hold"} => buStaged'[a] = {}
                        /\ buPc'[a] \in {"staged", "renamed"} => buStaged'[a] = Gates
                        /\ buPc'[a] \in {"copy", "staged", "renamed"} /\ buId'[a] \notin buExposed' =>
                               \A g \in buStaged'[a] : buCopy'[buId'[a]][g] = gateData'[g]
    BY DEF CopyInv
  <2>2. QED
    BY <1>1, <1>2 DEF CopyInv
<1>3. ASSUME NEW b \in Backups, QuiesceClose(b) \/ QuiesceDrained(b) \/ QuiesceTimeout(b) \/ QuiesceRefused(b)
                                \/ ArchiveRename(b) \/ ArchiveFails(b)
      PROVE  CopyInv'
  <2>1. UNCHANGED <<buStaged, buCopy, buId, buExposed>>
    BY <1>3 DEF QuiesceClose, QuiesceDrained, QuiesceTimeout, QuiesceRefused, ArchiveRename, ArchiveFails
  <2>2. /\ \A a \in Backups : a # b => buPc'[a] = buPc[a]
        /\ \/ buPc'[b] = "release"
           \/ buPc[b] \in {"acquire", "drain"} /\ buPc'[b] \in {"acquire", "drain", "hold"}
           \/ buPc[b] = "staged" /\ buPc'[b] = "renamed"
    BY <1>3 DEF QuiesceClose, QuiesceDrained, QuiesceTimeout, QuiesceRefused, ArchiveRename, ArchiveFails
  <2>3. QED
    BY <1>2, <2>1, <2>2
<1>4. ASSUME NEW b \in Backups, BackupStart(b) \/ ArchiveBegin(b) PROVE CopyInv'
  <2>1. /\ UNCHANGED <<buStaged, buCopy, buExposed>> /\ \A a \in Backups : a # b => buPc'[a] = buPc[a] /\ buId'[a] = buId[a]
        /\ buPc[b] \in {"idle", "hold"} /\ buPc'[b] \in {"acquire", "copy", "release"}
    BY <1>4 DEF BackupStart, ArchiveBegin, BeginRun
  <2>2. SUFFICES ASSUME NEW a \in Backups
                 PROVE  /\ buPc'[a] \in {"idle", "acquire", "drain", "hold"} => buStaged'[a] = {}
                        /\ buPc'[a] \in {"staged", "renamed"} => buStaged'[a] = Gates
                        /\ buPc'[a] \in {"copy", "staged", "renamed"} /\ buId'[a] \notin buExposed' =>
                               \A g \in buStaged'[a] : buCopy'[buId'[a]][g] = gateData'[g]
    BY DEF CopyInv
  <2>3. QED
    BY <1>1, <2>1 DEF CopyInv
<1>5. ASSUME NEW b \in Backups, ArchiveStage(b) PROVE CopyInv'
  <2>1. PICK g \in Gates \ buStaged[b] :
            /\ buCopy' = [buCopy EXCEPT ![buId[b]][g] = gateData[g]]
            /\ buStaged' = [buStaged EXCEPT ![b] = @ \cup {g}]
            /\ buPc' = [buPc EXCEPT ![b] = IF buStaged'[b] = Gates THEN "staged" ELSE "copy"]
    BY <1>5 DEF ArchiveStage
  <2>2. buId[b] \in BackupIds /\ buPc[b] = "copy" /\ UNCHANGED <<buId, gateData, buExposed>>
    BY <1>5 DEF ArchiveStage, IdInv, BackupIds, gateVars
  <2>3. /\ buCopy'[buId[b]] = [buCopy[buId[b]] EXCEPT ![g] = gateData[g]]
        /\ \A i \in BackupIds : i # buId[b] => buCopy'[i] = buCopy[i]
    BY <2>1, <2>2
  <2>4. buId[b] \notin buExposed => \A h \in buStaged'[b] : buCopy'[buId'[b]][h] = gateData'[h]
    <3>1. buCopy[buId[b]] \in [Gates -> SUBSET GateOps]
      BY <2>2
    <3>2. buCopy'[buId[b]][g] = gateData[g] /\ \A h \in Gates : h # g => buCopy'[buId[b]][h] = buCopy[buId[b]][h]
      BY <2>3, <3>1
    <3>3. buStaged'[b] = buStaged[b] \cup {g} /\ buStaged[b] \subseteq Gates
      BY <2>1
    <3>4. buId[b] \notin buExposed => \A h \in buStaged[b] : buCopy[buId[b]][h] = gateData[h]
      BY <2>2 DEF CopyInv
    <3>5. QED
      BY <2>2, <3>2, <3>3, <3>4
  <2>5. ASSUME NEW a \in Backups, a # b
        PROVE  /\ buPc'[a] = buPc[a] /\ buStaged'[a] = buStaged[a]
               /\ buPc[a] \in {"copy", "staged", "renamed"} => buCopy'[buId'[a]] = buCopy[buId[a]]
    <3>1. buPc[a] \in {"copy", "staged", "renamed"} => buId[a] \in BackupIds /\ buId[a] # buId[b]
      BY <2>2, <2>5 DEF IdInv, BackupIds
    <3>2. QED
      BY <2>1, <2>2, <2>3, <2>5, <3>1
  <2>6. QED
    BY <2>1, <2>2, <2>4, <2>5 DEF CopyInv
<1>6. ASSUME NEW b \in Backups, BackupFinish(b) PROVE CopyInv'
  <2>1. /\ buCopy' = buCopy /\ buPc'[b] = "idle" /\ buStaged'[b] = {} /\ gateData' = gateData /\ buExposed' = buExposed
        /\ \A a \in Backups : a # b => buPc'[a] = buPc[a] /\ buId'[a] = buId[a] /\ buStaged'[a] = buStaged[a]
    BY <1>6 DEF BackupFinish, gateVars
  <2>2. QED
    BY <2>1 DEF CopyInv
<1>7. CASE BackupCrash
  BY <1>7 DEF BackupCrash, CopyInv
<1>8. ASSUME UNCHANGED <<buPc, buStaged, buCopy, buId>>, buExposed \subseteq buExposed' PROVE CopyInv'
  BY <1>1, <1>8 DEF CopyInv
<1>9. QED
  BY <1>3, <1>4, <1>5, <1>6, <1>7, <1>8
     DEF BackupNext, backupVars, buVars, OpEnter, OpRefused, OpLeave, QuiesceRelease, RetentionDelete

\* With every gate held, a request that was not cut off has written all of its
\* services' files or none.
LEMMA QuietCut ==
  ASSUME BackupTypeOK, WorkInv, DrainInv, DataInv, NEW b \in Backups, buHeld[b] = GateCount,
         NEW o \in GateOps \ (GateReads \cup opCut), Request(o)
  PROVE  \/ \A k \in 2..Len(GateRoute[o]) : o \in gateData[GateRoute[o][k]]
         \/ \A k \in 2..Len(GateRoute[o]) : o \notin gateData[GateRoute[o][k]]
<1>1. buHeld[b] >= 1
  BY BackupAssumption
<1>2. opAt[o] \in Nat /\ ~(opAt[o] > 0)
  BY <1>1 DEF DrainInv, BackupTypeOK, WorkType
<1>3. opPhase[o] \in {"idle", "done"}
  BY <1>2 DEF WorkInv, BackupTypeOK, WorkType
<1>4. QED
  BY <1>3 DEF DataInv

\* The manifest is renamed into place over a consistent cut, and nothing is
\* copied under an id that is listed.
LEMMA ListedStep ==
  ASSUME BackupTypeOK, WorkInv, PhaseInv, DrainInv, DataInv, IdInv, CopyInv, ListedConsistent,
         [BackupNext]_backupVars
  PROVE  ListedConsistent'
<1> USE DEF BackupTypeOK, ArchiveType, PhaseType, GateType
<1> DEFINE Cut(i) == \A o \in GateOps \ (GateReads \cup opCut) : GateRoute[o][1] = 1 =>
                        \/ \A k \in 2..Len(GateRoute[o]) : o \in buCopy[i][GateRoute[o][k]]
                        \/ \A k \in 2..Len(GateRoute[o]) : o \notin buCopy[i][GateRoute[o][k]]
<1>1. opCut \subseteq opCut'
  BY DEF BackupNext, backupVars, gateVars, OpEnter, OpRefused, OpLeave, BackupCrash, BackupStart, QuiesceClose,
         QuiesceDrained, QuiesceTimeout, QuiesceRefused, QuiesceRelease, ArchiveBegin, ArchiveStage, ArchiveRename,
         ArchiveFails, RetentionDelete, BackupFinish
<1>0. buExposed \subseteq buExposed'
  BY DEF BackupNext, backupVars, buVars, OpEnter, OpRefused, OpLeave, BackupCrash, BackupStart, QuiesceClose,
         QuiesceDrained, QuiesceTimeout, QuiesceRefused, QuiesceRelease, ArchiveBegin, ArchiveStage, ArchiveRename,
         ArchiveFails, RetentionDelete, BackupFinish
<1>2. SUFFICES ASSUME NEW i \in BackupIds \ buExposed, Listed(i)' PROVE Cut(i)'
  BY <1>0 DEF ListedConsistent
<1>3. ASSUME Listed(i), buCopy'[i] = buCopy[i] PROVE Cut(i)'
  BY <1>1, <1>3 DEF ListedConsistent
<1>4. ASSUME NEW b \in Backups, ArchiveStage(b) PROVE Cut(i)'
  <2>1. buId[b] \in BackupIds /\ buFiles[buId[b]] = {} /\ buFiles' = buFiles
    BY <1>4 DEF ArchiveStage, IdInv, BackupIds
  <2>2. i # buId[b] /\ Listed(i)
    BY <1>2, <2>1 DEF Listed
  <2>3. buCopy'[i] = buCopy[i]
    BY <1>4, <2>1, <2>2 DEF ArchiveStage
  <2>4. QED
    BY <1>3, <2>2, <2>3
<1>5. ASSUME NEW b \in Backups, ArchiveRename(b) PROVE Cut(i)'
  <2>1. buId[b] \in BackupIds /\ buCopy' = buCopy /\ UNCHANGED <<opCut, gateData>>
    BY <1>5 DEF ArchiveRename, IdInv, BackupIds, gateVars
  <2>2. CASE i # buId[b]
    <3>1. buFiles'[i] = buFiles[i]
      BY <1>5, <2>1, <2>2 DEF ArchiveRename
    <3>2. QED
      BY <1>2, <1>3, <2>1, <3>1 DEF Listed
  <2>3. CASE i = buId[b] /\ buPc[b] = "renamed"
    <3>1. buHeld[b] = GateCount /\ buStaged[b] = Gates
      BY <1>2, <2>3 DEF PhaseInv, CopyInv
    <3>2. \A g \in Gates : buCopy[i][g] = gateData[g]
      BY <1>2, <2>3, <3>1 DEF CopyInv
    <3>3. \A o \in GateOps : \A k \in 2..Len(GateRoute[o]) : buCopy[i][GateRoute[o][k]] = gateData[GateRoute[o][k]]
      BY <3>2, RouteType
    <3>4. QED
      BY ZenonT(60), <2>1, <3>1, <3>3, QuietCut DEF Request
  <2>4. CASE i = buId[b] /\ buPc[b] = "staged"
    <3>1. buFiles'[i] = {"archive"}
      BY <1>5, <2>1, <2>4 DEF ArchiveRename, IdInv
    <3>2. "manifest" \in buFiles'[i]
      BY <1>2 DEF Listed
    <3>3. QED
      BY <3>1, <3>2
  <2>5. QED
    BY <1>5, <2>2, <2>3, <2>4 DEF ArchiveRename
<1>6. ASSUME NEW b \in Backups, ArchiveFails(b) \/ RetentionDelete(b) PROVE Cut(i)'
  <2>1. buCopy' = buCopy /\ \E j, f : f \in {{}, {"manifest"}} /\ buFiles' = [buFiles EXCEPT ![j] = f]
    BY <1>6 DEF ArchiveFails, RetentionDelete
  <2>2. "archive" \in buFiles'[i] /\ buFiles'[i] = {"archive", "manifest"}
    BY <1>2 DEF Listed
  <2>3. buFiles'[i] = buFiles[i]
    BY <2>1, <2>2
  <2>4. Listed(i)
    BY <2>2, <2>3 DEF Listed
  <2>5. QED
    BY <1>3, <2>1, <2>4
<1>7. CASE UNCHANGED <<buCopy, buFiles>>
  BY <1>2, <1>3, <1>7 DEF Listed
<1> HIDE DEF Cut
<1>8. QED
  BY <1>4, <1>5, <1>6, <1>7
     DEF BackupNext, backupVars, buVars, OpEnter, OpRefused, OpLeave, BackupCrash, BackupStart, QuiesceClose,
         QuiesceDrained, QuiesceTimeout, QuiesceRefused, QuiesceRelease, ArchiveBegin, BackupFinish

-----------------------------------------------------------------------------
(* The theorems.                                                           *)

\* The invariant holds at the start of the daemon.
LEMMA BackupInvInit ==
  ASSUME BackupInit
  PROVE  BackupInv
<1> USE BackupAssumption DEF BackupInit
<1>1. BackupTypeOK
  <2>1. WorkType
    BY RouteType DEF WorkType
  <2>2. GateType /\ PhaseType
    BY DEF GateType, PhaseType
  <2>3. ArchiveType
    BY DEF ArchiveType, NoCopy
  <2>4. QED
    BY <2>1, <2>2, <2>3 DEF BackupTypeOK
<1>2. WorkInv /\ PhaseInv /\ DrainInv /\ AdmittedNotRefused
  BY DEF WorkInv, PhaseInv, DrainInv, AdmittedNotRefused
<1>3. GateInv
  BY DEF GateInv, Owns, Gates
<1>4. DataInv
  BY RouteType DEF DataInv
<1>5. IdInv /\ CopyInv
  BY DEF IdInv, CopyInv, Backups
<1>6. ListedConsistent
  BY DEF ListedConsistent, Listed
<1>7. QED
  BY <1>1, <1>2, <1>3, <1>4, <1>5, <1>6 DEF BackupInv

\* Every step of work, backup, coordinator or crash keeps the invariant.
LEMMA BackupInvStep ==
  ASSUME BackupInv, [BackupNext]_backupVars
  PROVE  BackupInv'
<1>1. BackupTypeOK'
  BY WorkTypeStep, GateTypeStep, PhaseTypeStep, ArchiveTypeStep DEF BackupInv, BackupTypeOK
<1>2. QED
  BY <1>1, WorkStep, PhaseStep, GateStep, DrainStep, RefusedStep, DataStep, IdStep, CopyStep, ListedStep DEF BackupInv

\* The invariant always holds.
LEMMA BackupInvAlways == BackupSpec => []BackupInv
<1>1. BackupInit => BackupInv
  BY BackupInvInit
<1>2. BackupInv /\ [BackupNext]_backupVars => BackupInv'
  BY BackupInvStep
<1>3. QED
  BY <1>1, <1>2, PTL DEF BackupSpec

\* Type correctness of gates, work and backups.
THEOREM BackupTypeCorrect == BackupSpec => []BackupTypeOK
<1>1. BackupInv => BackupTypeOK
  BY DEF BackupInv
<1>2. QED
  BY <1>1, BackupInvAlways, PTL

\* No quiesce that failed, timed out, was refused or crashed leaves a gate
\* closed, for any number of gates (Gate.Quiesce, QuiesceAll).
THEOREM NoGateLeftClosed == BackupSpec => []NoOrphanedGate
<1>1. BackupInv => NoOrphanedGate
  <2>1. SUFFICES ASSUME BackupInv, NEW g \in Gates, gateClosed[g]
                 PROVE  \E b \in Backups : \/ \E k \in 1..buHeld[b] : QuiesceOrder(k) = g
                                           \/ buPc[b] = "drain" /\ QuiesceOrder(buHeld[b] + 1) = g
    BY DEF NoOrphanedGate
  <2>2. PICK b \in Backups : Owns(b, g)
    BY <2>1 DEF BackupInv, GateInv
  <2>3. CASE g <= buHeld[b]
    <3>1. g \in 1..buHeld[b] /\ QuiesceOrder(g) = g
      BY <2>1, <2>3, BackupAssumption DEF Gates, QuiesceOrder, BackupInv, BackupTypeOK, PhaseType
    <3>2. \E k \in 1..buHeld[b] : QuiesceOrder(k) = g
      BY <3>1, Zenon
    <3>3. QED
      BY <3>2
  <2>4. CASE buPc[b] = "drain" /\ g = buHeld[b] + 1
    BY <2>4 DEF QuiesceOrder
  <2>5. QED
    BY <2>2, <2>3, <2>4 DEF Owns
<1>2. QED
  BY <1>1, BackupInvAlways, PTL

\* A request that the ingress gate has admitted runs to its end, whatever
\* backups begin and fail meanwhile (RegisterFirst, QuiesceAll).
THEOREM RequestsNotRefused == BackupSpec => []AdmittedNotRefused
<1>1. BackupInv => AdmittedNotRefused
  BY DEF BackupInv
<1>2. QED
  BY <1>1, BackupInvAlways, PTL

\* Every listed backup is a consistent cut of the requests, for any routes of
\* theirs through the services (stageSnapshot under QuiesceAll), unless the
\* coordinator of a cluster backup had the gates opened while it was made.
THEOREM BackupsConsistent == BackupSpec => []ListedConsistent
<1>1. BackupInv => ListedConsistent
  BY DEF BackupInv
<1>2. QED
  BY <1>1, BackupInvAlways, PTL
=============================================================================
