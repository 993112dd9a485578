SPECIFICATION BTreeSpec
CONSTANTS
    Heads = {1, 2}
    Keys = {0, 1, 2, 3, 4, 5, 6}
    Vals = {1, 2, 3, 4, 5, 6, 7}
    NoPairs = 4
    AbsentKeys = {1, 2, 3, 4, 5, 6}
    MaxAllocs = 2
INVARIANTS
    LookupAgrees
PROPERTIES
    ImplementsMap
VIEW Shape
