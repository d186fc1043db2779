\* Crashes, timeouts, elections and stops; safety of each service.
CONSTANTS
    Services = {"wal", "raft storage", "raft group", "partition", "backup", "automation", "budget"}
    None = None
    w1 = w1
    w2 = w2
    WalWriters = {w1, w2}
    GraphWriters = {w1}
    MaxLSN = 3
    SegmentRecords = 1
    MaxWalCrashes = 1
    PowerLoss = TRUE
    RsTerms = {1, 2}
    MaxIndex = 3
    MaxRsCrashes = 1
    Calls = {"a", "b", "c", "d", "e"}
    CallCommand <- OneCommandTwice
    Commands = {"k", "refused", "reading", "fatal"}
    RefusedCommands = {"refused"}
    FatalCommands = {"fatal"}
    ReadingCommands = {"reading"}
    Readers = {"r"}
    MaxCommitted = 2
    MaxElections = 1
    m1 = m1
    m2 = m2
    Members = {m1, m2}
    Nodes = {"n1", "n2"}
    Edges = {"e"}
    Values = {1, 2}
    GraphCommands = {"a", "b", "c", "d"}
    CommandWrites <- PutAndDelete
    CommandKey <- SecondHasKey
    KeyNames = {"key"}
    Unreachable = {}
    Displaced = {"d"}
    OtherPartitions = TRUE
    MaxLog = 3
    MaxMemberCrashes = 1
    MaxSnapshots = 1
    MaxCheckpoints = 1
    MaxEvents = 2
    GateCount = 3
    GateOps <- Work
    GateRoute <- CommitReadBackground
    GateReads = {"read"}
    AllowReads = TRUE
    RetentionCount = 1
    MaxBackups = 2
    MaxBackupCrashes = 1
    p1 = p1
    p2 = p2
    AeWorkers = {p1, p2}
    AeMaxAttempts = 2
    AeMaxClaims = 2
    AeMaxRenewals = 2
    AeMaxFaults = 1
    BudgetMembers = {"first", "second"}
    BudgetCalls = {1, 2, 3}
    FirstScope = FirstScope
    MaxBudgetTokens = 4
    BudgetReservation = 2
    MaxConcurrentCalls = 1
    MaxBudgetWrites = 5
    MaxBudgetFaults = 1
CHECK_DEADLOCK FALSE
CONSTRAINT ServicesBound
SPECIFICATION ServicesSpec
INVARIANTS
    ServicesTypeOK
    WalNeededRetained WalAckedDurable WalReopens WalNothingForgotten
    CommittedKept AckedSurvives PanicWindow
    ProposeTruthful WaitersLive ReadFresh SnapshotExact
    AtMostOnce ReplicasAgree
    ListedConsistent AdmittedNotRefused NoOrphanedGate
    ProviderOncePerAttempt OutputOnce OutcomeTruthful
    HardLimits OneActiveScope
