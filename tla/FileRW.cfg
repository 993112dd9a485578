SPECIFICATION Spec
CONSTANTS
    NoSegs = 7
    SegSize = 16
    BlockSize = 4
    InodeSize = 2
    SegHeader = 1
    ObjHeader = 1
    MaxLevels = 4
    OffsetMod = 1024
    Inos = {1, 3}
    MASTER = 1
    MaxBix = 0
    MaxFaults = 1
    I0 = 2
    Factor = 4
    MaskLevels = 3
    UndefinedSpan = 1
    FileBixes = {0, 3, 5, 16, 17}
    MaxObjects = 4
INVARIANTS
    FileTypeOK
    FileIntact
    PointersLead
CHECK_DEADLOCK FALSE
