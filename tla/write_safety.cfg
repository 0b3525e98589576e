SPECIFICATION Spec
CONSTANTS
    w1 = w1
    w2 = w2
    w3 = w3
    w4 = w4
    Writers = {w1, w2, w3, w4}
    SyncWriters = {w1, w2}
    Flushers = {}
    WriteBufferSize = 0
    L0Compaction = 2
    L0Slowdown = 3
    L0StopWrites = 4
    InitialL0 = {0}
    MaxOutputs = 1
    Faults = {"sync", "switch", "build", "manifest", "compact"}
    MaxFaults = 1
    MaxCrashes = 2
SYMMETRY Symmetry
INVARIANTS
    AckedVisible
    AckedDurable
    OneCommitter
    ReadsSeeWholeGroups
    FlushCaptureStable
    
PROPERTY
    ImplementsDurableStore
CHECK_DEADLOCK FALSE
