SPECIFICATION Spec
CONSTANTS
    Keys <- MCKeys
    Tables <- MCTables
    BlockSizes = {1, 2}
    Written = 2
    MaxSeq = 3
    Breakable = {3}
INVARIANTS
    AssertsHold
PROPERTY
    ImplementsCursor
CHECK_DEADLOCK FALSE
