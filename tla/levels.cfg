SPECIFICATION FairSpec
CONSTANTS
    NumKeys = 2
    Rank <- ByteRank
    LevelBase = 1
    LevelMultiplier = 2
    MaxGrandparents = 1
    ExpandedLimit = 4
    Setups <- Databases
INVARIANTS
    ReadsLatest
    ScansLatest
    LevelsSorted
    NewerAbove
PROPERTY
    DrainEnds
