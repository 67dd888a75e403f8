SPECIFICATION DataSpec
CONSTANTS
    Files <- OneFile
    Bytes <- TwoBytes
    Stale = Stale
    MaxWrite = 2
    MaxSize = 2
    LogSize = 3
    MaxPos = 4
    MaxExtents = 3
INVARIANTS
    CrcHolds
    ExtentsWithinSize
    ReadsBack
