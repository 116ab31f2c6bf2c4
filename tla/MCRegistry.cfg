SPECIFICATION Spec
CONSTANTS
    t1 = t1
    t2 = t2
    Threads = {t1, t2}
    Walkers = {t1, t2}
    s = s
    Static = {s}
    d1 = d1
    d2 = d2
    d3 = d3
    Dynamic = {d1, d2, d3}
    Overlap = {}
    NULL = NULL
    NoThread = NoThread
    Capacity = 3
    MaxAlive = 1
SYMMETRY Sym
INVARIANTS
    RegistryExact
PROPERTIES
    WalkIsExact
CHECK_DEADLOCK FALSE
