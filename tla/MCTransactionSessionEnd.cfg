\* What a session leaves behind when it ends.
CONSTANTS
    s1 = s1
    t1 = t1
    t2 = t2
    r1 = r1
    k1 = k1
    p1 = p1
    None = None
    Sessions = {s1}
    Txns = {t1, t2}
    Requests = {r1}
    Keys = {k1}
    Payloads = {p1}
    MainKey = k1
    MaxRecords = 1
    MaxCrashes = 0
CHECK_DEADLOCK FALSE
SYMMETRY Symmetry
CONSTRAINT Explored
SPECIFICATION MCSpec
INVARIANT SessionEndRollsBack
