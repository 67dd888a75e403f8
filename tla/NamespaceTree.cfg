SPECIFICATION Spec
CONSTANTS
    a = a
    b = b
    Names <- MCNames
    Users <- MCUsers
    RootUser = 0
    MountUser = 0
    Modes <- PrivateAndShared
    MaxIno = 4
    MaxCount = 4
    Crashes = TRUE
    Overwrite = FALSE
    ExchangeDirs = FALSE
    ReplaceLinked = FALSE
SYMMETRY NameSymmetry
VIEW FuseView
CHECK_DEADLOCK FALSE
INVARIANTS
    DirSizeExact
    LinkCountExact
    NothingLeaked
    DotsExact
