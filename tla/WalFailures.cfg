SPECIFICATION Spec
CONSTANTS
    t1 = t1
    t2 = t2
    Threads <- MCThreads
    Names <- MCNames
    MaxIno = 2
    Contents <- MCContents
    Empty = "empty"
    InitialFs <- OneFile
    Transactions <- FewOps
    Starts <- Anyhow
    WalOnly = TRUE
    StorageFails = TRUE
    ApplyFails = TRUE
    MaxTxn = 3
    MaxLog = 3
INVARIANTS
    EntriesInFile
    Durable
SYMMETRY Symmetric
