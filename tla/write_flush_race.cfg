SPECIFICATION Spec
CONSTANTS
    w1 = w1
    w2 = w2
    w3 = w3
    f1 = f1
    Writers = {w1, w2, w3}
    SyncWriters = {w1}
    Flushers = {f1}
    WriteBufferSize = 0
    L0Compaction = 2
    L0Slowdown = 3
    L0StopWrites = 4
    InitialL0 = {0}
    MaxOutputs = 1
    Faults = {}
    MaxFaults = 0
    MaxCrashes = 0
INVARIANT
    AckedVisible
CHECK_DEADLOCK FALSE
