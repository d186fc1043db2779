----------------------------- MODULE MCProgress -----------------------------
(***************************************************************************)
(* Model checking of what must eventually happen: requests of the          *)
(* transaction lifecycle, backups and their quiesce gates, and the loop    *)
(* and the proposals of a consensus group return.  As in MCServices a      *)
(* behaviour is a behaviour of one of them, the one that focus names.      *)
(***************************************************************************)
EXTENDS TransactionLifecycle, BackupQuiesce, RaftGroup

CONSTANT Services   \* the services a run explores

VARIABLE focus

progressVars == <<focus, vars, backupVars, rgVars>>

ProgressInit == focus \in Services /\ Init /\ BackupInit /\ RgInit

InLifecycle(A) == focus = "lifecycle" /\ A /\ UNCHANGED <<focus, backupVars, rgVars>>
InBackup(A)    == focus = "backup" /\ A /\ UNCHANGED <<focus, vars, rgVars>>
InGroup(A)     == focus = "raft group" /\ A /\ UNCHANGED <<focus, vars, backupVars>>

ProgressNext == InLifecycle(Next) \/ InBackup(BackupNext) \/ InGroup(RgNext)

\* The fairness of each module's own specification.
Fairness ==
    /\ \A r \in Requests : SF_progressVars(InLifecycle(Step(r)))
    /\ \A o \in GateOps : WF_progressVars(InBackup(OpStep(o)))
    /\ \A b \in Backups : WF_progressVars(InBackup(BackupStep(b)))
    /\ WF_progressVars(InGroup(ReadyStep))
    /\ WF_progressVars(InGroup(LockStep))
    /\ WF_progressVars(InGroup(RaftCommit))
    /\ \A c \in Calls : WF_progressVars(InGroup(ProposeReturn(c)))

ProgressSpec == ProgressInit /\ [][ProgressNext]_progressVars /\ Fairness

-----------------------------------------------------------------------------
(* Instances.                                                              *)

\* Raft group: a command that the state machine refuses, and one it accepts or,
\* when ReadingCommands holds it, reads through the group for.
OneRefused == [c \in Calls |-> IF c = "c" THEN "refused" ELSE "k"]

\* Backup: a client commit goes through the server, the graph service and its
\* notifications; a background commit starts at the notifications.
CommitBackground == [commit |-> <<1, 2, 3>>, background |-> <<3, 2>>]
Work == DOMAIN CommitBackground
=============================================================================
