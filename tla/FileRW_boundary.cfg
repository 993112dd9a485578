SPECIFICATION Spec
CONSTANTS
    NoSegs = 7
    SegSize = 16
    BlockSize = 4
    InodeSize = 2
    SegHeader = 1
    ObjHeader = 1
    MaxLevels = 4
    OffsetMod = 1024
    Inos = {1, 3}
    MASTER = 1
    MaxBix = 0
    MaxFaults = 0
    I0 = 2
    Factor = 4
    MaskLevels = 3
    UndefinedSpan = 1
    FileBixes = {2, 3, 4}
    MaxObjects = 4
INVARIANTS
    EveryFileIntact
CHECK_DEADLOCK FALSE
