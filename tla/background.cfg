SPECIFICATION FairSpec
CONSTANTS
    Clients = {c1, c2}
    Iterators = {i1, i2}
    MaxTable = 3
    MaxRounds = 1
    MaxFaults = 1
    MaxUsers = 2
CHECK_DEADLOCK FALSE
INVARIANTS
    OneVersionChanger
    InputsStay
    ReadersFilesStay
    NothingLeaks
PROPERTIES
    CallsReturn
    DropEnds
