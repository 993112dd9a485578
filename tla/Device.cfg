SPECIFICATION DevFairSpec
CONSTANTS
    Devices = {"mtd", "bdev"}
    NoSegs = 2
    SegSize = 4
    PageSize = 2
    SbTail = 2
    SbSize = 3
    U32 = 4
    MaxCalls = 3
INVARIANTS
    DevTypeOK
PROPERTIES
    ImplementsVolume
    CallReturns
CHECK_DEADLOCK FALSE
