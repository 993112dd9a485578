SPECIFICATION BTreeSpec
CONSTANTS
    Heads = {1}
    Keys = {0, 1, 2, 3, 4, 5, 6, 7, 8, 9, 10}
    Vals = {1, 2, 3, 4, 5, 6, 7, 8, 9, 10, 11}
    NoPairs = 4
    AbsentKeys = {1, 2, 3, 4, 5, 6, 7, 8, 9, 10}
    MaxAllocs = 3
INVARIANTS
    WellFormed
    NoBug
PROPERTIES
    ImplementsMap
VIEW Shape
