SPECIFICATION Spec
CONSTANTS
    Threads = {t1, t2}
    Readers = {r1, r2}
    NoThread = NoThread
    BlockSize <- MCBlockSize
    TableCapacity = 1
    BlockCapacity = 2
    MaxTables = 2
    MaxOpens = 3
    MaxDestroys = 1
SYMMETRY Perms
INVARIANTS OneHolder RightBlocks NoDeletedTables CachesAccounted
PROPERTY NeededFilesStay
CHECK_DEADLOCK FALSE
