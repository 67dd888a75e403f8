SPECIFICATION Spec
CONSTANTS
    a = a
    b = b
    t1 = t1
    t2 = t2
    m1 = m1
    m2 = m2
    Names = {a, b}
    Threads = {t1, t2}
    Mounts = {m1, m2}
    Made = {"dir"}
    MaxIno = 3
    MaxRedrawn = 2
    MaxLinks = 2
SYMMETRY Symmetry
INVARIANTS
    NamesWithinLinks
    CachedKindHasCause
    CounterAhead
