\* A checkpoint that drops log segments, then a restart.
CONSTANTS
    w1 = w1
    w2 = w2
    WalWriters = {w1, w2}
    GraphWriters = {w1}
    MaxLSN = 3
    SegmentRecords = 1
    MaxWalCrashes = 1
    PowerLoss = FALSE
CHECK_DEADLOCK FALSE
SPECIFICATION WalSpec
INVARIANT WalReopensAfterRetention
