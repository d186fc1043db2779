------------------------------ MODULE RaftGroup ------------------------------
(***************************************************************************)
(* One member of a consensus group (internal/clustering/consensus, type    *)
(* Group): the loop that takes a Ready from the raft library and applies   *)
(* it, the callers of Propose and of LinearizableRead that wait for it,    *)
(* and the backup lock that freezes it or takes a snapshot of it.          *)
(*                                                                         *)
(* The raft library (external) is what the loop sees of it: it accepts or  *)
(* drops proposals, commits them in some order, changes leaders, confirms  *)
(* read indexes while it leads, and installs a leader's snapshot.          *)
(***************************************************************************)
EXTENDS Naturals, Sequences, FiniteSets

CONSTANTS Calls,            \* calls of Propose
          CallCommand,      \* the command_id of each call; a retry repeats it
          Commands,
          RefusedCommands,  \* commands the state machine answers an error for
          FatalCommands,    \* commands it answers a fatal error for
          ReadingCommands,  \* commands whose application reads through the group
          Readers,          \* calls of LinearizableRead
          MaxCommitted,     \* bound on committed entries
          MaxElections      \* bound on changes of leadership

\* The read that the application of a command makes.
SelfRead == "self"
NoCall == "nobody"
AllReads == Readers \cup {SelfRead}

ASSUME RaftGroupAssumption ==
    /\ CallCommand \in [Calls -> Commands]
    /\ RefusedCommands \cup FatalCommands \cup ReadingCommands \subseteq Commands
    /\ RefusedCommands \cap FatalCommands = {}
    /\ NoCall \notin Calls /\ SelfRead \notin Readers
    /\ MaxCommitted \in Nat /\ MaxElections \in Nat

VARIABLES rgLeads,      \* the raft library leads
          rgKnown,      \* Group.leader names this node
          rgQueue,      \* calls whose proposal raft has accepted, not committed
          rgLog,        \* committed commands
          rgApplied,    \* Group.appliedIndex
          rgState,      \* log positions whose command the state machine holds
          rgCall,       \* where each call of Propose is
          rgChan,       \* the outcome in its channel
          rgWaiters,    \* Group.waiters
          rgLost,       \* calls whose entry this loop will not apply
          rgLoop,       \* the run loop
          rgStopping,   \* Stop has cancelled the group's context
          rgUpTo,       \* last entry of the Ready being processed
          rgRead,       \* where each read is
          rgReadIndex,  \* the index raft confirmed for it
          rgReadFloor,  \* committed entries when it began
          rgLock,       \* holder of the write side of backupMu
          rgLockWait,   \* goroutines waiting for it
          rgOwed,       \* an unlock found the loop waiting for the read side
          rgSnap,       \* the stored snapshot: its index and what it holds
          rgElections   \* changes of leadership so far

rgVars == <<rgLeads, rgKnown, rgQueue, rgLog, rgApplied, rgState, rgCall, rgChan, rgWaiters,
            rgLost, rgLoop, rgStopping, rgUpTo, rgRead, rgReadIndex, rgReadFloor, rgLock, rgLockWait,
            rgOwed, rgSnap, rgElections>>
rgCallVars == <<rgCall, rgChan, rgWaiters, rgLost>>
rgReadVars == <<rgRead, rgReadIndex, rgReadFloor>>
rgLockVars == <<rgLock, rgLockWait, rgOwed, rgSnap>>
rgRaftVars == <<rgLeads, rgQueue, rgLog, rgElections>>
rgLoopVars == <<rgKnown, rgApplied, rgState, rgLoop, rgStopping, rgUpTo>>

RgInit ==
    /\ rgLeads = TRUE /\ rgKnown = TRUE
    /\ rgQueue = {} /\ rgLog = <<>>
    /\ rgApplied = 0 /\ rgState = {}
    /\ rgCall = [c \in Calls |-> "idle"]
    /\ rgChan = [c \in Calls |-> "empty"]
    /\ rgWaiters = [k \in Commands |-> NoCall]
    /\ rgLost = {}
    /\ rgLoop = "select" /\ rgStopping = FALSE /\ rgUpTo = 0
    /\ rgRead = [r \in AllReads |-> "idle"]
    /\ rgReadIndex = [r \in AllReads |-> 0]
    /\ rgReadFloor = [r \in AllReads |-> 0]
    /\ rgLock = "none" /\ rgLockWait = {} /\ rgOwed = FALSE
    /\ rgSnap = [at |-> 0, holds |-> {}, next |-> 0]
    /\ rgElections = 0

-----------------------------------------------------------------------------
(* The raft library (external).                                            *)

RaftCommit ==
    /\ rgLoop # "stopped"
    /\ Len(rgLog) < MaxCommitted
    /\ \E c \in rgQueue :
        /\ rgLog' = Append(rgLog, CallCommand[c])
        /\ rgQueue' = rgQueue \ {c}
    /\ UNCHANGED <<rgLeads, rgElections, rgLoopVars, rgCallVars, rgReadVars, rgLockVars>>

\* A change of leader may lose proposals that are not committed yet.
RaftElection ==
    /\ rgLoop # "stopped"
    /\ rgElections < MaxElections
    /\ rgElections' = rgElections + 1
    /\ rgLeads' = ~rgLeads
    /\ rgQueue' \in SUBSET rgQueue
    /\ rgLost' = rgLost \cup (rgQueue \ rgQueue')
    /\ UNCHANGED <<rgLog, rgLoopVars, rgCall, rgChan, rgWaiters, rgReadVars, rgLockVars>>

RaftConfirmRead(r) ==
    /\ rgLoop # "stopped"
    /\ rgRead[r] = "asked"
    /\ rgLeads
    /\ rgRead' = [rgRead EXCEPT ![r] = "confirmed"]
    /\ rgReadIndex' = [rgReadIndex EXCEPT ![r] = Len(rgLog)]
    /\ UNCHANGED <<rgReadFloor, rgRaftVars, rgLoopVars, rgCallVars, rgLockVars>>

-----------------------------------------------------------------------------
(* Propose.                                                                *)

\* The waiter is registered under the command_id, or the call is refused.
ProposeRegister(c) ==
    LET k == CallCommand[c] IN
    /\ rgCall[c] = "idle"
    /\ IF rgWaiters[k] # NoCall
       THEN rgCall' = [rgCall EXCEPT ![c] = "duplicate"] /\ UNCHANGED rgWaiters
       ELSE /\ rgCall' = [rgCall EXCEPT ![c] = "registered"]
            /\ rgWaiters' = [rgWaiters EXCEPT ![k] = c]
    /\ UNCHANGED <<rgChan, rgLost, rgRaftVars, rgLoopVars, rgReadVars, rgLockVars>>

\* completeWaiter: whichever call the map holds for the command gets the
\* outcome, and the entry goes.
Delivered(chan, k, out) ==
    IF rgWaiters[k] = NoCall THEN chan ELSE [chan EXCEPT ![rgWaiters[k]] = out]
Forgotten(k) == [rgWaiters EXCEPT ![k] = NoCall]

\* node.Propose accepts the proposal.
ProposeAccepted(c) ==
    /\ rgCall[c] = "registered"
    /\ rgLoop # "stopped"
    /\ rgCall' = [rgCall EXCEPT ![c] = "waiting"]
    /\ rgQueue' = rgQueue \cup {c}
    /\ UNCHANGED <<rgLeads, rgLog, rgElections, rgChan, rgWaiters, rgLost, rgLoopVars, rgReadVars, rgLockVars>>

\* node.Propose returns an error: no leader, or the node has stopped.
ProposeDropped(c) ==
    /\ rgCall[c] = "registered"
    /\ rgLoop = "stopped" \/ ~rgLeads
    /\ rgCall' = [rgCall EXCEPT ![c] = "error"]
    /\ rgChan' = Delivered(rgChan, CallCommand[c], "error")
    /\ rgWaiters' = Forgotten(CallCommand[c])
    /\ UNCHANGED <<rgLost, rgRaftVars, rgLoopVars, rgReadVars, rgLockVars>>

ProposeReturn(c) ==
    /\ rgCall[c] = "waiting"
    /\ rgChan[c] # "empty"
    /\ rgCall' = [rgCall EXCEPT ![c] = rgChan[c]]
    /\ UNCHANGED <<rgChan, rgWaiters, rgLost, rgRaftVars, rgLoopVars, rgReadVars, rgLockVars>>

\* Fault: a call that gives up leaves its waiter behind.
ProposeTimeoutLeaks(c) ==
    /\ rgCall[c] = "waiting"
    /\ rgCall' = [rgCall EXCEPT ![c] = "timeout"]
    /\ UNCHANGED <<rgChan, rgWaiters, rgLost, rgRaftVars, rgLoopVars, rgReadVars, rgLockVars>>

\* The caller's context ends, even with an outcome in the channel: the select
\* may take either.
ProposeTimeout(c) ==
    /\ rgCall[c] = "waiting"
    /\ rgCall' = [rgCall EXCEPT ![c] = "timeout"]
    /\ rgChan' = Delivered(rgChan, CallCommand[c], "error")
    /\ rgWaiters' = Forgotten(CallCommand[c])
    /\ UNCHANGED <<rgLost, rgRaftVars, rgLoopVars, rgReadVars, rgLockVars>>

-----------------------------------------------------------------------------
(* LinearizableRead.                                                       *)

\* beginReadIndex refuses a node that does not know itself as the leader.
ReadBegin(r) ==
    /\ rgRead[r] = "idle"
    /\ rgRead' = [rgRead EXCEPT ![r] = IF rgKnown /\ rgLoop # "stopped" THEN "asked" ELSE "error"]
    /\ rgReadFloor' = [rgReadFloor EXCEPT ![r] = Len(rgLog)]
    /\ UNCHANGED <<rgReadIndex, rgRaftVars, rgLoopVars, rgCallVars, rgLockVars>>

\* Fault: the read does not wait for the entries below its index.
ReadReturnEarly(r) ==
    /\ rgRead[r] = "answered"
    /\ rgRead' = [rgRead EXCEPT ![r] = "ok"]
    /\ UNCHANGED <<rgReadIndex, rgReadFloor, rgRaftVars, rgLoopVars, rgCallVars, rgLockVars>>

\* WaitApplied, then the read goes to the state machine.
ReadReturn(r) ==
    /\ rgRead[r] = "answered"
    /\ rgApplied >= rgReadIndex[r]
    /\ rgRead' = [rgRead EXCEPT ![r] = "ok"]
    /\ UNCHANGED <<rgReadIndex, rgReadFloor, rgRaftVars, rgLoopVars, rgCallVars, rgLockVars>>

\* The caller's context ends; the read that an application makes has none but
\* the group's.
ReadTimeout(r) ==
    /\ r # SelfRead
    /\ rgRead[r] \in {"asked", "confirmed", "answered"}
    /\ rgRead' = [rgRead EXCEPT ![r] = "error"]
    /\ UNCHANGED <<rgReadIndex, rgReadFloor, rgRaftVars, rgLoopVars, rgCallVars, rgLockVars>>

\* failReadWaiters.
ReadsFailed ==
    [r \in AllReads |-> IF rgRead[r] \in {"asked", "confirmed", "ready"} THEN "error" ELSE rgRead[r]]

-----------------------------------------------------------------------------
(* The loop.                                                               *)

\* Fault: processReady does not take the read side of backupMu.
LoopRunsAnyway == TRUE

\* The read side of backupMu, as sync.RWMutex gives it: a waiting writer keeps
\* new readers out, and an unlock lets the readers in that wait for it.
LoopMayRun == rgLock = "none" /\ (rgLockWait = {} \/ rgOwed)

\* There is something for the loop to take from the raft library.
ReadyAvailable ==
    /\ rgLoop = "select"
    /\ rgKnown # rgLeads \/ rgApplied < Len(rgLog) \/ \E r \in AllReads : rgRead[r] = "confirmed"

Effects(n) == {i \in 1..n : rgLog[i] \notin RefusedCommands}
Awaited(positions) ==
    {c \in Calls : rgCall[c] = "waiting" /\ \E i \in positions : rgLog[i] = CallCommand[c]}

\* The committed entries of one Ready: the library limits their size, and hands
\* over at least one.
Batches == {n \in rgApplied..Len(rgLog) : rgApplied < Len(rgLog) => n > rgApplied}

\* processReady, first part: the leader as raft now sees it, and the read
\* states and committed entries to go through.
ReadyBegin ==
    /\ ReadyAvailable
    /\ LoopMayRun
    /\ rgOwed' = FALSE
    /\ rgKnown' = rgLeads
    /\ rgRead' = IF ~rgLeads THEN ReadsFailed
                 ELSE [r \in AllReads |-> IF rgRead[r] = "confirmed" THEN "ready" ELSE rgRead[r]]
    /\ rgLoop' = "apply"
    /\ rgUpTo' \in Batches
    /\ UNCHANGED <<rgApplied, rgState, rgStopping, rgReadIndex, rgReadFloor, rgRaftVars, rgCallVars,
                   rgLock, rgLockWait, rgSnap>>

\* The Ready carries a snapshot of the leader: storage and state machine take
\* it, and the entries below it are never applied one by one.
ReadySnapshot ==
    /\ rgLoop = "select"
    /\ LoopMayRun
    /\ ~rgLeads
    /\ rgApplied < Len(rgLog)
    /\ rgOwed' = FALSE
    /\ rgKnown' = FALSE
    /\ rgRead' = ReadsFailed
    /\ rgSnap' = [at |-> Len(rgLog), holds |-> Effects(Len(rgLog)), next |-> 0]
    /\ rgState' = Effects(Len(rgLog))
    /\ rgApplied' = Len(rgLog)
    /\ rgLost' = rgLost \cup Awaited((rgApplied + 1)..Len(rgLog))
    /\ rgLoop' = "apply"
    /\ rgUpTo' = Len(rgLog)
    /\ UNCHANGED <<rgStopping, rgReadIndex, rgReadFloor, rgRaftVars, rgCall, rgChan, rgWaiters, rgLock,
                   rgLockWait>>

\* Fault: an error of the state machine is not passed on.
OutcomeAlwaysOk(k, failed) == IF k \in FatalCommands THEN "error" ELSE "ok"

\* What ApplyCommand answers; failed when the read it made was cut off.
Outcome(k, failed) ==
    IF k \in FatalCommands \/ failed THEN "error" ELSE IF k \in RefusedCommands THEN "refused" ELSE "ok"

\* Fault: only a success is handed to the waiter.
AnsweredOnSuccess(k, out) == IF out = "ok" THEN Delivered(rgChan, k, out) ELSE rgChan

\* The waiter of the command is answered; a fatal error answers all (failWaiters).
Answered(k, out) ==
    IF k \in FatalCommands
    THEN [c \in Calls |-> IF \E q \in Commands : rgWaiters[q] = c THEN "error" ELSE rgChan[c]]
    ELSE Delivered(rgChan, k, out)

\* The rest of applyEntry once ApplyCommand has returned for the next entry.
Finish(k, failed, reads) ==
    LET out == Outcome(k, failed) IN
    /\ rgChan' = Answered(k, out)
    /\ rgWaiters' = IF k \in FatalCommands THEN [q \in Commands |-> NoCall] ELSE Forgotten(k)
    /\ rgRead' = IF out = "ok" THEN reads ELSE ReadsFailed
    /\ IF k \in FatalCommands
       THEN rgLoop' = "stopped" /\ UNCHANGED <<rgApplied, rgState>>
       ELSE /\ rgLoop' = "apply"
            /\ rgApplied' = rgApplied + 1
            /\ rgState' = IF out = "ok" THEN rgState \cup {rgApplied + 1} ELSE rgState
    /\ UNCHANGED <<rgKnown, rgStopping, rgUpTo, rgCall, rgLost, rgReadIndex, rgReadFloor, rgRaftVars, rgLockVars>>

\* applyEntry.  On a member that does not lead, the read of a reading command
\* is forwarded and comes back.
ReadyApply ==
    /\ rgLoop = "apply"
    /\ rgApplied < rgUpTo
    /\ rgLog[rgApplied + 1] \in ReadingCommands => ~rgKnown
    /\ Finish(rgLog[rgApplied + 1], FALSE, rgRead)

\* On the leader, the application of a reading command asks this very group,
\* with the group's own context.
ReadyInnerRead ==
    /\ rgLoop = "apply"
    /\ rgApplied < rgUpTo
    /\ rgLog[rgApplied + 1] \in ReadingCommands
    /\ rgKnown
    /\ rgLoop' = "inner"
    /\ rgRead' = [rgRead EXCEPT ![SelfRead] = IF rgStopping THEN "error" ELSE "asked"]
    /\ rgReadFloor' = [rgReadFloor EXCEPT ![SelfRead] = Len(rgLog)]
    /\ UNCHANGED <<rgKnown, rgApplied, rgState, rgStopping, rgUpTo, rgReadIndex, rgRaftVars, rgCallVars, rgLockVars>>

ReadyInnerReturn ==
    /\ rgLoop = "inner"
    /\ rgRead[SelfRead] \in {"ok", "error"}
    /\ Finish(rgLog[rgApplied + 1], rgRead[SelfRead] = "error", [rgRead EXCEPT ![SelfRead] = "idle"])

\* Fault: processReady returns only once a later entry has been applied.
ReadyEndWaits ==
    /\ rgLoop = "apply"
    /\ rgApplied > rgUpTo
    /\ rgLoop' = "select"
    /\ rgRead' = [r \in AllReads |-> IF rgRead[r] = "ready" THEN "answered" ELSE rgRead[r]]
    /\ UNCHANGED <<rgKnown, rgApplied, rgState, rgStopping, rgUpTo, rgReadIndex, rgReadFloor, rgRaftVars,
                   rgCallVars, rgLockVars>>

\* The end of processReady: the reads of this Ready are answered.
ReadyEnd ==
    /\ rgLoop = "apply"
    /\ rgApplied >= rgUpTo
    /\ rgLoop' = "select"
    /\ rgRead' = [r \in AllReads |-> IF rgRead[r] = "ready" THEN "answered" ELSE rgRead[r]]
    /\ UNCHANGED <<rgKnown, rgApplied, rgState, rgStopping, rgUpTo, rgReadIndex, rgReadFloor, rgRaftVars,
                   rgCallVars, rgLockVars>>

\* Stop cancels the context: that of the loop, and that of a read it makes.
RgStop ==
    /\ ~rgStopping
    /\ rgLoop # "stopped"
    /\ rgStopping' = TRUE
    /\ rgRead' = [rgRead EXCEPT ![SelfRead] = IF rgLoop = "inner" THEN "error" ELSE @]
    /\ UNCHANGED <<rgKnown, rgApplied, rgState, rgLoop, rgUpTo, rgReadIndex, rgReadFloor, rgRaftVars,
                   rgCallVars, rgLockVars>>

\* run returns and fails the reads.  Calls of Propose have their own context
\* only.
LoopExit ==
    /\ rgStopping
    /\ rgLoop = "select"
    /\ rgLoop' = "stopped"
    /\ rgOwed' = FALSE
    /\ rgRead' = ReadsFailed
    /\ rgLost' = rgLost \cup {c \in Calls : rgCall[c] \in {"registered", "waiting"}}
    /\ UNCHANGED <<rgKnown, rgApplied, rgState, rgStopping, rgUpTo, rgReadIndex, rgReadFloor, rgRaftVars,
                   rgCall, rgChan, rgWaiters, rgLock, rgLockWait, rgSnap>>

-----------------------------------------------------------------------------
(* The backup lock.                                                        *)

\* AcquireBackupFreeze and CreateSnapshot ask for the write side.
LockRequest(w) ==
    /\ rgLoop # "stopped"
    /\ rgLock # w
    /\ w \notin rgLockWait
    /\ rgApplied > 0
    /\ rgLockWait' = rgLockWait \cup {w}
    /\ UNCHANGED <<rgLock, rgOwed, rgSnap, rgRaftVars, rgLoopVars, rgCallVars, rgReadVars>>

\* The context of a freeze ends while its goroutine waits: that goroutine
\* unlocks as soon as it has the lock.
FreezeCancel ==
    /\ "freeze" \in rgLockWait
    /\ rgLockWait' = (rgLockWait \ {"freeze"}) \cup {"cancelled"}
    /\ UNCHANGED <<rgLock, rgOwed, rgSnap, rgRaftVars, rgLoopVars, rgCallVars, rgReadVars>>

\* The lock is given when the loop is between two Readys.  CreateSnapshot
\* notes the applied index first.
LockTake(w) ==
    /\ w \in rgLockWait
    /\ rgLock = "none"
    /\ rgLoop \in {"select", "stopped"}
    /\ ~rgOwed
    /\ rgOwed' = (w = "cancelled" /\ ReadyAvailable)
    /\ rgLock' = IF w = "cancelled" THEN "none" ELSE w
    /\ rgLockWait' = rgLockWait \ {w}
    /\ rgSnap' = IF w = "snapshot" THEN [rgSnap EXCEPT !.next = rgApplied] ELSE rgSnap
    /\ UNCHANGED <<rgRaftVars, rgLoopVars, rgCallVars, rgReadVars>>

\* The state machine's bytes are stored under that index.
SnapshotWrite ==
    /\ rgLock = "snapshot"
    /\ rgSnap' = [at |-> rgSnap.next, holds |-> rgState, next |-> 0]
    /\ rgLock' = "none"
    /\ rgOwed' = ReadyAvailable
    /\ UNCHANGED <<rgLockWait, rgRaftVars, rgLoopVars, rgCallVars, rgReadVars>>

\* BackupFreezeLease.Release, by the backup or by its timer.
FreezeRelease ==
    /\ rgLock = "freeze"
    /\ rgLock' = "none"
    /\ rgOwed' = ReadyAvailable
    /\ UNCHANGED <<rgLockWait, rgSnap, rgRaftVars, rgLoopVars, rgCallVars, rgReadVars>>

RgNext ==
    \/ RaftCommit \/ RaftElection
    \/ \E c \in Calls :
        \/ ProposeRegister(c) \/ ProposeAccepted(c) \/ ProposeDropped(c)
        \/ ProposeReturn(c) \/ ProposeTimeout(c)
    \/ \E r \in Readers : ReadBegin(r)
    \/ \E r \in AllReads : RaftConfirmRead(r) \/ ReadReturn(r) \/ ReadTimeout(r)
    \/ ReadyBegin \/ ReadySnapshot \/ ReadyApply \/ ReadyInnerRead \/ ReadyInnerReturn \/ ReadyEnd
    \/ RgStop \/ LoopExit
    \/ \E w \in {"freeze", "snapshot"} : LockRequest(w)
    \/ \E w \in {"freeze", "snapshot", "cancelled"} : LockTake(w)
    \/ FreezeCancel \/ SnapshotWrite \/ FreezeRelease

RgSpec == RgInit /\ [][RgNext]_rgVars

ReadyStep ==
    ReadyBegin \/ ReadySnapshot \/ ReadyApply \/ ReadyInnerRead \/ ReadyInnerReturn \/ ReadyEnd
LockStep ==
    SnapshotWrite \/ FreezeRelease \/ \E w \in {"freeze", "snapshot", "cancelled"} : LockTake(w)

-----------------------------------------------------------------------------
(* Properties.                                                             *)

RgRaftType ==
    /\ rgLeads \in BOOLEAN
    /\ rgQueue \subseteq Calls
    /\ rgLog \in Seq(Commands) /\ Len(rgLog) <= MaxCommitted
    /\ rgElections \in 0..MaxElections
RgLoopType ==
    /\ rgKnown \in BOOLEAN
    /\ rgApplied \in 0..Len(rgLog)
    /\ rgState \subseteq 1..Len(rgLog)
    /\ rgLoop \in {"select", "apply", "inner", "stopped"}
    /\ rgStopping \in BOOLEAN
    /\ rgUpTo \in 0..Len(rgLog)
RgCallType ==
    /\ rgCall \in [Calls -> {"idle", "registered", "waiting", "ok", "refused", "error", "timeout", "duplicate"}]
    /\ rgChan \in [Calls -> {"empty", "ok", "refused", "error"}]
    /\ rgWaiters \in [Commands -> Calls \cup {NoCall}]
    /\ rgLost \subseteq Calls
RgReadType ==
    /\ rgRead \in [AllReads -> {"idle", "asked", "confirmed", "ready", "answered", "ok", "error"}]
    /\ rgReadIndex \in [AllReads -> 0..MaxCommitted]
    /\ rgReadFloor \in [AllReads -> 0..MaxCommitted]
RgLockType ==
    /\ rgLock \in {"none", "freeze", "snapshot"}
    /\ rgLockWait \subseteq {"freeze", "snapshot", "cancelled"}
    /\ rgOwed \in BOOLEAN
    /\ rgSnap \in [at : 0..MaxCommitted, holds : SUBSET (1..MaxCommitted), next : 0..MaxCommitted]
RgTypeOK == RgRaftType /\ RgLoopType /\ RgCallType /\ RgReadType /\ RgLockType

\* What Propose returns is what the state machine of this member did with the
\* command: success means it holds the command's effect, a refusal that the
\* command was committed and refused; not what a retry of the same command_id
\* or a proposal that timed out left behind (Propose, completeWaiter).
ProposeTruthful ==
    \A c \in Calls :
        /\ rgCall[c] = "ok" => \E i \in rgState : rgLog[i] = CallCommand[c]
        /\ rgCall[c] = "refused" => \E i \in 1..Len(rgLog) : rgLog[i] = CallCommand[c] /\ CallCommand[c] \in RefusedCommands

\* A registered waiter belongs to a call that is still in Propose: a command_id
\* is never "in flight" for ever, which would refuse every retry of it
\* (forgetWaiter, failWaiters).
WaitersLive ==
    \A k \in Commands : rgWaiters[k] # NoCall =>
        /\ CallCommand[rgWaiters[k]] = k
        /\ rgCall[rgWaiters[k]] \in {"registered", "waiting"}

\* A read that returns sees every command that was committed when it began
\* (LinearizableRead: the confirmed index and WaitApplied).
ReadFresh == \A r \in AllReads : rgRead[r] = "ok" => rgApplied >= rgReadFloor[r]

\* A stored snapshot holds the effects of the entries up to its index and no
\* others (CreateSnapshot under backupMu, installed snapshots).  The one effect
\* it may lack is that of a command whose read Stop has cut off: applyEntry
\* marks the entry as applied all the same.
SnapshotExact ==
    /\ rgSnap.holds \subseteq Effects(rgSnap.at)
    /\ \A i \in Effects(rgSnap.at) \ rgSnap.holds : rgStopping /\ rgLog[i] \in ReadingCommands

\* The loop comes back from every Ready (processReady, applyEntry).
LoopReturns == rgLoop \in {"apply", "inner"} ~> rgLoop \in {"select", "stopped"}

\* A proposal that raft keeps, on a member that applies it, comes back without
\* the help of a timeout, whatever freezes, snapshots, readers and other
\* proposals do (Propose, applyEntry).
ProposalsReturn ==
    \A c \in Calls : rgCall[c] = "waiting" ~> rgCall[c] # "waiting" \/ c \in rgLost
==============================================================================
