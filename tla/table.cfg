SPECIFICATION Spec
CONSTANTS
    UserKeys <- MCUserKeys
    Versions = {1, 2}
    MaxByte = 2
    MaxSequence = 3
    RestartInterval = 2
    FilterBase = 4
    BlockBytes = {1, 9}
    MaxEntries = 4
INVARIANTS
    LookupExact
    CursorExact
CHECK_DEADLOCK FALSE
