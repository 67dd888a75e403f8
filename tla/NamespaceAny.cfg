SPECIFICATION Spec
CONSTANTS
    a = a
    b = b
    Names <- MCNames
    Users <- OneUser
    RootUser = 0
    MountUser = 0
    Modes <- SharedOnly
    MaxIno = 4
    MaxCount = 4
    Crashes = TRUE
    Overwrite = TRUE
    ExchangeDirs = TRUE
    ReplaceLinked = FALSE
SYMMETRY NameSymmetry
VIEW FuseView
CHECK_DEADLOCK FALSE
INVARIANTS
    NoDangling
    SizeCoversEntries
    LinksCoverNames
    DirHasOneName
PROPERTY
    NonEmptyDirKept
