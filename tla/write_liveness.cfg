SPECIFICATION FairSpec
CONSTANTS
    w1 = w1
    w2 = w2
    w3 = w3
    f1 = f1
    Writers = {w1, w2}
    SyncWriters = {w2}
    Flushers = {f1}
    WriteBufferSize = 0
    L0Compaction = 2
    L0Slowdown = 3
    L0StopWrites = 4
    InitialL0 = {0, 1, 2, 3}
    MaxOutputs = 1
    Faults = {"append", "sync", "switch", "build", "manifest", "compact"}
    MaxFaults = 1
    MaxCrashes = 0
PROPERTIES
    EveryWriteReturns
    EveryFlushReturns
CHECK_DEADLOCK FALSE
