SPECIFICATION SetupSpec
CONSTANTS
    U32 = 65536
    SegShiftArgs = {12, 13, 31, 269, 65535}
    WriteShiftArgs = {12, 13, 17, 65535}
    JournalArgs = {0, 16, 17}
    ReserveArgs = {2}
    Sizes = {4096, 65536, 528384, 537395200}
    EraseSizes = {4096, 8192, 12288, 131072}
    WriteSizes = {3, 2048, 8192}
    MaxBad = 1
INVARIANTS
    SetupTypeOK
    ConsentFirst
    GeometrySound
    UserShiftsObeyed
    SuperblocksInside
CHECK_DEADLOCK FALSE
