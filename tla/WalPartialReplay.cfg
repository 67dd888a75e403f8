SPECIFICATION Spec
CONSTANTS
    t1 = t1
    t2 = t2
    Threads <- MCThreads
    Names <- MCNames
    MaxIno = 2
    Contents <- MCContents
    Empty = "empty"
    InitialFs <- TwoFiles
    Transactions <- TwoDataOps
    Starts <- ByReplay
    WalOnly = FALSE
    StorageFails = FALSE
    ApplyFails = FALSE
    MaxTxn = 1
    MaxLog = 2
PROPERTY
    Atomic
