SPECIFICATION Spec
SYMMETRY Symmetry
CONSTANTS
    a = a
    b = b
    p = p
    q = q
    Procs = {p, q}
    Walks = {a, b}
    Files = {1, 2}
    Nobody = Nobody
    MaxEdits = 1
    MaxFaults = 1
INVARIANTS
    NeverOlderThanStat
PROPERTIES
    CacheFileIntact
    SoloWalkIsExact
CHECK_DEADLOCK FALSE
