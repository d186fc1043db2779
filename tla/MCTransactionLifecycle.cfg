\* Two transactions with two competing requests, or with two keys and a restart.
CONSTANTS
    s1 = s1
    t1 = t1
    t2 = t2
    r1 = r1
    r2 = r2
    k1 = k1
    k2 = k2
    p1 = p1
    p2 = p2
    None = None
    Sessions = {s1}
    Txns = {t1, t2}
    Requests = {r1, r2}
    Keys = {k1, k2}
    Payloads = {p1, p2}
    MainKey = k1
    MaxRecords = 1
    MaxCrashes = 1
CHECK_DEADLOCK FALSE
SYMMETRY Symmetry
CONSTRAINT Explored
SPECIFICATION MCSpec
INVARIANTS TypeOK CommitOnce KeyOnce ReplyTruthful RollbackWins BaseNotAhead RecordsBounded
