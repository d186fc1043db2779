\* Termination: no symmetry and no state constraint.
CONSTANTS
    Services = {"lifecycle", "backup", "raft group"}
    None = None
    s1 = s1
    t1 = t1
    r1 = r1
    r2 = r2
    k1 = k1
    p1 = p1
    Sessions = {s1}
    Txns = {t1}
    Requests = {r1, r2}
    Keys = {k1}
    Payloads = {p1}
    MaxRecords = 1
    MaxCrashes = 0
    Calls = {"a", "c"}
    CallCommand <- OneRefused
    Commands = {"k", "refused"}
    RefusedCommands = {"refused"}
    FatalCommands = {}
    ReadingCommands = {}
    Readers = {}
    MaxCommitted = 2
    MaxElections = 1
    GateCount = 3
    GateOps <- Work
    GateRoute <- CommitBackground
    GateReads = {}
    AllowReads = TRUE
    RetentionCount = 1
    MaxBackups = 1
    MaxBackupCrashes = 0
CHECK_DEADLOCK FALSE
SPECIFICATION ProgressSpec
PROPERTIES RequestsReturn  LoopReturns ProposalsReturn
