SPECIFICATION Spec
CONSTANTS
    BlockSize = 8
    HeaderSize = 3
    Lengths = {0, 2, 6, 12}
    MaxRecords = 3
    MaxFaults = 1
INVARIANTS
    WholeRecords
    SyncedSurvive
    ReadersAgree
CHECK_DEADLOCK FALSE
