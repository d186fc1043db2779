\* A crash that leaves half a record, then commits and another crash.
CONSTANTS
    n1 = n1
    e1 = e1
    v1 = v1
    None = None
    Nodes = {n1}
    Edges = {e1}
    Values = {v1}
    MaxTxns = 3
    MaxCrashes = 2
    Faults = {"torn"}
    Faulty = {0}
CHECK_DEADLOCK FALSE
SPECIFICATION Spec
INVARIANT RecoveryExact
