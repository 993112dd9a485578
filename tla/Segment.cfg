SPECIFICATION SegSpec
CONSTANTS
    NoSegs = 4
    SegSize = 9
    BlockSize = 4
    InodeSize = 1
    SegHeader = 1
    ObjHeader = 1
    MaxLevels = 2
    OffsetMod = 1024
    Inos = {1, 2}
    MASTER = 1
    MaxBix = 0
    MaxFaults = 1
INVARIANTS
    TypeOK
    AreasExclusive
    Packed
    ValidExact
    BadSegmentsShunned
    UsedBytesExact
PROPERTIES
    WriteOnce
CHECK_DEADLOCK FALSE
