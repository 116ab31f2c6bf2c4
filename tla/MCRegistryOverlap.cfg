SPECIFICATION Spec
CONSTANTS
    t1 = t1
    t2 = t2
    Threads = {t1, t2}
    Walkers = {t1}
    s = s
    Static = {s}
    d1 = d1
    Dynamic = {d1}
    Overlap = {s}
    NULL = NULL
    NoThread = NoThread
    Capacity = 3
    MaxAlive = 1
SYMMETRY Sym
PROPERTIES
    WalkIsExact
CHECK_DEADLOCK FALSE
