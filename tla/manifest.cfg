SPECIFICATION FairSpec
CONSTANTS
    MaxFile = 30
    MaxEdits = 2
    MaxCrashes = 2
    MaxFaults = 1
    MaxRepairs = 1
    Faults = {"create", "append", "sync", "current", "convert", "archive", "scan"}
    Tearing = TRUE
CHECK_DEADLOCK FALSE
INVARIANTS
    AppliedAtomically
    
    NumbersFresh
    NothingLost
PROPERTY
    Reopens
