SPECIFICATION MkfsSpec
CONSTANTS
    NoSegs = 12
    SegSize = 32
    BlockSize = 12
    InodeSize = 2
    SegHeader = 1
    ObjHeader = 1
    MaxLevels = 3
    OffsetMod = 1024
    Inos = {0, 1, 2}
    MASTER = 2
    MaxBix = 0
    MaxFaults = 0
    I0 = 2
    Factor = 4
    MaskLevels = 2
    UndefinedSpan = 1
    FileBixes = {}
    MaxObjects = 0
    Devices = {"bdev"}
    ROOT = 0
    SEGFILE = 1
    NoJournalSegs = 2
    TailWindow = 3
    SbTail = 4
    SbSize = 2
    JeHeader = 1
    JeAlign = 1
    AnchorLen = 2
    DynsbLen = 1
    AliasLen = 1
    JeOfsLen = 1
    CompLens = {1}
INVARIANTS
    SuperblocksReserved
CHECK_DEADLOCK FALSE
