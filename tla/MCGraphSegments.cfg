\* Three commits, checkpoints and two crashes; faults before the last crash.
CONSTANTS
    n1 = n1
    e1 = e1
    v1 = v1
    None = None
    Nodes = {n1}
    Edges = {e1}
    Values = {v1}
    MaxTxns = 3
    MaxCrashes = 2
    Faults = {"torn", "data_error"}
    Faulty = {1}
CONSTRAINTS UsefulCheckpoint CommitsAfterCrash OneUnfinished CrashAhead
CHECK_DEADLOCK FALSE
SPECIFICATION Spec
INVARIANTS RecoveryExact ModRevisionsKept
PROPERTY ImplementsAtomicGraph
