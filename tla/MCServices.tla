----------------------------- MODULE MCServices -----------------------------
(***************************************************************************)
(* Model checking of services side by side: the write-ahead log, the files *)
(* of a Raft member, the loop of a consensus group, the graph state        *)
(* machine on the members of a partition, backup with its quiesce gates,   *)
(* the execution of automations and the budgets of provider calls.  A      *)
(* behaviour is a behaviour of one of them, the one that focus names; the  *)
(* variables of the others keep their initial values.                      *)
(***************************************************************************)
EXTENDS WriteAheadLog, RaftStorage, RaftGroup, PartitionReplica, BackupQuiesce,
        AutomationExecution, InferenceBudget, TLC

CONSTANTS
    Services,   \* the services a run explores
    p1, p2,     \* the workers of automation
    m1, m2      \* the members of a partition

VARIABLE focus

allVars == <<focus, walVars, rsVars, rgVars, prVars, backupVars, aeVars, ibVars>>

ServicesInit ==
    /\ focus \in Services
    /\ WalInit /\ RsInit /\ RgInit /\ PrInit /\ BackupInit /\ AeInit /\ IbInit
    /\ focus # "budget" => ibWriters = BudgetMembers

ServicesNext ==
    /\ UNCHANGED focus
    /\ \/ focus = "wal" /\ WalNext /\ UNCHANGED <<rsVars, rgVars, prVars, backupVars, aeVars, ibVars>>
       \/ focus = "raft storage" /\ RsNext /\ UNCHANGED <<walVars, rgVars, prVars, backupVars, aeVars, ibVars>>
       \/ focus = "raft group" /\ RgNext /\ UNCHANGED <<walVars, rsVars, prVars, backupVars, aeVars, ibVars>>
       \/ focus = "partition" /\ PrNext /\ UNCHANGED <<walVars, rsVars, rgVars, backupVars, aeVars, ibVars>>
       \/ focus = "backup" /\ BackupNext /\ UNCHANGED <<walVars, rsVars, rgVars, prVars, aeVars, ibVars>>
       \/ focus = "automation" /\ AeNext /\ UNCHANGED <<walVars, rsVars, rgVars, prVars, backupVars, ibVars>>
       \/ focus = "budget" /\ IbNext /\ UNCHANGED <<walVars, rsVars, rgVars, prVars, backupVars, aeVars>>

ServicesSpec == ServicesInit /\ [][ServicesNext]_allVars

-----------------------------------------------------------------------------
(* Instances.                                                              *)

\* Raft group: two calls with one command_id, and calls with a command that the
\* state machine refuses, that reads through the group, and that is fatal.
OneCommandTwice ==
    [c \in Calls |-> CASE c = "c" -> "refused" [] c = "d" -> "reading" [] c = "e" -> "fatal"
                       [] OTHER -> "k"]

\* Partition: the second command overwrites the node of the first and carries
\* an idempotency key.
PutTwice ==
    [c \in GraphCommands |->
        IF c = "a" THEN [NoWrites EXCEPT !.nodePuts["n1"] = 1]
        ELSE [NoWrites EXCEPT !.nodePuts["n1"] = 2, !.nodePuts["n2"] = 2]]
SecondHasKey == [c \in GraphCommands |-> IF c = "b" THEN "key" ELSE None]

\* Partition: "a" puts two nodes and an edge; "b" deletes the one node, which the
\* edge forbids until "c" deletes it, overwrites the other, and has the key; "d"
\* is the output of a displaced automation attempt.
PutAndDelete ==
    [c \in GraphCommands |->
        CASE c = "a" -> [NoWrites EXCEPT !.nodePuts = [n \in Nodes |-> 1],
                                         !.edgePuts["e"] = [from |-> "n1", to |-> "n2", contains |-> TRUE, val |-> 1]]
          [] c = "b" -> [NoWrites EXCEPT !.nodeDeletes = {"n1"}, !.nodePuts["n2"] = 2]
          [] c = "c" -> [NoWrites EXCEPT !.edgeDeletes = {"e"}]
          [] OTHER -> [NoWrites EXCEPT !.nodePuts["n1"] = 2]]

\* Backup: a client commit goes through the server, the graph service and its
\* notifications; a background commit starts at the notifications.
CommitReadBackground == [commit |-> <<1, 2, 3>>, read |-> <<1>>, background |-> <<3, 2>>]
Work == DOMAIN CommitReadBackground
-----------------------------------------------------------------------------
(* Bounds of the safety run.                                               *)

BusyCalls == {c \in Calls : rgCall[c] # "idle"}
LockIdle == rgLock = "none" /\ rgLockWait = {} /\ rgSnap.at = 0
ReadersIdle == \A r \in Readers : rgRead[r] = "idle"

\* The more calls of Propose there are, the less else happens in the group; of
\* the two with one command_id, "a" is the first.
GroupBound ==
    /\ rgCall["a"] = "idle" => rgCall["b"] = "idle"
    /\ Cardinality(BusyCalls) = 3 => LockIdle /\ ReadersIdle /\ ~rgStopping
    /\ Cardinality(BusyCalls) = 2 =>
           /\ LockIdle \/ rgElections = 0
           /\ ReadersIdle \/ (rgElections = 0 /\ ~rgStopping /\ \A c \in BusyCalls : CallCommand[c] = "k")
    /\ (\E c \in BusyCalls : CallCommand[c] \in ReadingCommands) =>
           Cardinality(BusyCalls) = 1 /\ ReadersIdle
    /\ (\E c \in BusyCalls : CallCommand[c] \in FatalCommands) =>
           Cardinality(BusyCalls) <= 2 /\ LockIdle /\ ReadersIdle
    /\ ReadersIdle \/ LockIdle

\* What is deleted was there: "a" comes first.  Of the members, which differ in
\* nothing, m1 is the one that crashes and whose checkpoints matter.  A third
\* entry comes with one crash, snapshot or checkpoint, and without if it repeats
\* a command.  The output of a displaced attempt, and a snapshot of another
\* partition, come with two entries and no other of these but a crash of the one
\* and none of the other.
Happened == prCount.crashes + prCount.snapshots + prCount.checkpoints
Repeats == \E i, j \in DOMAIN prLog : i < j /\ prLog[i].cmd = prLog[j].cmd
MarkedElsewhere == \E r \in Members : prElsewhere[r] # {}
PartitionBound ==
    /\ prPhase[m2] # "down" /\ prCheckpoint[m2] = 0
    /\ prLog # <<>> => prLog[1].cmd = "a"
    /\ Len(prLog) = 3 => Happened <= IF Repeats THEN 0 ELSE 1
    /\ prBase["d"] # None =>
           Len(prLog) <= 2 /\ prBase["b"] = None /\ prBase["c"] = None /\ Happened = prCount.crashes
    /\ MarkedElsewhere => Len(prLog) <= 2 /\ Happened = 1 /\ prBase["d"] = None
    /\ prCount.snapshots > 0 => MarkedElsewhere \/ \E r \in Members : prSnapshot[r] # None

\* At most two units of work are in flight, one if a coordinator has given up
\* while the archive was made.  A second backup, and what comes after a crash,
\* meets none, and at most one that is done.
Working == {o \in GateOps : opPhase[o] \in {"in", "out"}}
WorkDone == {o \in GateOps : opPhase[o] = "done"}
BackupBound ==
    /\ Cardinality(Working) <= 2
    /\ buCount > 1 \/ buCrashes > 0 => Working = {} /\ Cardinality(WorkDone) <= 1
    /\ buExposed # {} => buCount = 1 /\ buCrashes = 0 /\ Cardinality(Working) <= 1

\* Of the workers, which differ in nothing, p1 is the first to find and to hold
\* the invocation.  Both are under way at once only if nothing else goes wrong,
\* and a request of the API comes without another fault.  A commit is tried again
\* only without any of these.
BusyWorkers == {w \in AeWorkers : ~At(w, "idle") /\ ~At(w, "dead")}
AutomationBound ==
    /\ aeToken = 0 /\ At(p1, "idle") => At(p2, "idle")
    /\ aeStore.inv.proc = p2 => aeToken > 1
    /\ aeFaults > 0 \/ aeRequest.kind # "unused" => Cardinality(BusyWorkers) <= 1
    /\ aeFaults = 0 \/ aeRequest.kind = "unused"
    /\ (\E w \in AeWorkers : aeWorker[w].inv.at > AeMaxRenewals) =>
           aeFaults = 0 /\ aeRequest.kind = "unused" /\ aeToken <= 1

\* Calls begin in the order of their numbers.  With the first member alone, at
\* most two are under way, a third meets no fault and no replaced scope, and a
\* second one not both; with two members one reservation and two replacements
\* race, and no timeout or crash occurs.
CallsIn(phases) == {i \in BudgetCalls : ibCall[i].phase \in phases}
BudgetBound ==
    /\ \A i \in CallsIn({"idle"}), j \in BudgetCalls : j > i => ibCall[j].phase = "idle"
    /\ ibWriters # {"second"}
    /\ ibWriters = {"first"} =>
          /\ Cardinality(BudgetCalls \ CallsIn({"idle", "over"})) <= 2
          /\ CallsIn({"idle"}) = {} => ibFaults = 0 /\ ibEnsure["first"].phase = "unused"
          /\ 2 \notin CallsIn({"idle"}) => ibFaults = 0 \/ ibEnsure["first"].phase = "unused"
    /\ ibWriters = BudgetMembers =>
          /\ ibFaults = 0
          /\ ibClock < MaxBudgetWrites - IF CallsIn({"idle"}) = BudgetCalls THEN 0 ELSE 1
          /\ CallsIn({"idle", "resolved", "reserving"}) = BudgetCalls
          /\ {2, 3} \subseteq CallsIn({"idle"})

\* At most two requests fail before the log is opened again, and none of them
\* beside a failed append.
FailedRecords == walGivenUp \cup walRefused
WalBound ==
    /\ Cardinality(FailedRecords) <= 2
    /\ FailedRecords # {} => "failed append" \notin walHarm

\* The cluster of a member that has flushed its files, or found them after a
\* power loss, commits two entries less than others, one less while the member
\* is down; and what a power loss has taken is met by one restart.
StorageBound ==
    /\ rsFlushed # [hard |-> 0, snap |-> 0, log |-> EmptyLog(0)] =>
           Len(rsTruth) < IF rsStatus = "up" THEN MaxIndex - 1 ELSE MaxIndex
    /\ rsLost => rsStatus = "down"

ServicesBound == WalBound /\ StorageBound /\ GroupBound /\ PartitionBound /\ BackupBound /\ AutomationBound /\ BudgetBound

-----------------------------------------------------------------------------
(* Properties.                                                             *)

\* The state of every service has its shape (the fields of the structs that
\* each module's variables stand for).
ServicesTypeOK ==
    /\ focus = "wal" => WalTypeOK
    /\ focus = "raft storage" => RsTypeOK
    /\ focus = "raft group" => RgTypeOK
    /\ focus = "partition" => PrTypeOK
    /\ focus = "backup" => BackupTypeOK
    /\ focus = "automation" => AeTypeOK
    /\ focus = "budget" => IbTypeOK
=============================================================================
