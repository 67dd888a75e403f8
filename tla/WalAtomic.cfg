SPECIFICATION Spec
CONSTANTS
    t1 = t1
    t2 = t2
    Threads <- MCThreads
    Names <- MCNames
    MaxIno = 2
    Contents <- MCContents
    Empty = "empty"
    InitialFs <- OneFile
    Transactions <- OneDataOp
    Starts <- ByReplay
    WalOnly = FALSE
    StorageFails = FALSE
    ApplyFails = FALSE
    MaxTxn = 2
    MaxLog = 3
PROPERTIES
    Atomic
    StableForReaders
    Recovers
    CommitReturns
