SPECIFICATION Spec
CONSTANTS
    Keys = {1, 2, 3, 4}
    MaxHeight = 3
    Readers = {r1}
INVARIANTS
    LevelInvariant
    Chained
PROPERTY
    SearchExact
