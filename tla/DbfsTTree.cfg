SPECIFICATION NamesSpec
CONSTANTS
    a = a
    b = b
    Names <- MCNames
    MaxIno = 4
    Cuts <- AnyOperation
SYMMETRY NameSymmetry
INVARIANTS
    NoDangling
    NamesWithinLinks
    NothingLeaked
PROPERTY
    NonEmptyDirKept
CHECK_DEADLOCK FALSE
