\* The application of a command reads through the group that applies it.
CONSTANTS
    Services = {"raft group"}
    None = None
    s1 = s1
    t1 = t1
    r1 = r1
    r2 = r2
    k1 = k1
    p1 = p1
    Sessions = {s1}
    Txns = {t1}
    Requests = {r1, r2}
    Keys = {k1}
    Payloads = {p1}
    MaxRecords = 1
    MaxCrashes = 0
    Calls = {"a"}
    CallCommand <- OneRefused
    Commands = {"k"}
    RefusedCommands = {}
    FatalCommands = {}
    ReadingCommands = {"k"}
    Readers = {}
    MaxCommitted = 2
    MaxElections = 1
    GateCount = 3
    GateOps <- Work
    GateRoute <- CommitBackground
    GateReads = {}
    AllowReads = TRUE
    RetentionCount = 1
    MaxBackups = 1
    MaxBackupCrashes = 0
CHECK_DEADLOCK FALSE
SPECIFICATION ProgressSpec
PROPERTY LoopReturns
