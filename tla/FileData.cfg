SPECIFICATION Spec
CONSTANTS
    f1 = f1
    c1 = c1
    a = a
    b = b
    Files = {f1}
    Callers = {c1}
    Bytes = {a, b}
    S = 2
    DiskSize = 2
    MaxSize = 4
    MaxWrite = 3
    MaxDisk = 6
SYMMETRY ByteSymmetry
INVARIANTS
    TypeOK
    SlicesWithinSize
    StoresWhatWasWritten
    ReadsBack
