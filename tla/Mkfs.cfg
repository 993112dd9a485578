SPECIFICATION MkfsSpec
CONSTANTS
    NoSegs = 11
    SegSize = 32
    BlockSize = 14
    InodeSize = 2
    SegHeader = 1
    ObjHeader = 1
    MaxLevels = 3
    OffsetMod = 1024
    Inos = {0, 1, 2}
    MASTER = 2
    MaxBix = 0
    MaxFaults = 11
    I0 = 2
    Factor = 4
    MaskLevels = 2
    UndefinedSpan = 1
    FileBixes = {}
    MaxObjects = 0
    Devices = {"mtd", "bdev"}
    ROOT = 0
    SEGFILE = 1
    NoJournalSegs = 2
    TailWindow = 3
    SbTail = 4
    SbSize = 2
    JeHeader = 1
    JeAlign = 2
    AnchorLen = 2
    DynsbLen = 1
    AliasLen = 3
    JeOfsLen = 1
    CompLens = {1}
INVARIANTS
    MkfsTypeOK
    OldSuperblocksErased
    FlashSuperblocksReserved
    BadSegmentsMarked
    SuperFindsJournal
    TreeOnMedium
    AliasesTrue
    UsedBytesOnMedium
PROPERTIES
    ReservedKeptWithRoom
CHECK_DEADLOCK FALSE
