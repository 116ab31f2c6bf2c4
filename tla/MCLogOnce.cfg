SPECIFICATION Spec
CONSTANTS
    t1 = t1
    t2 = t2
    Threads = {t1, t2}
    NoThread = NoThread
    Levels = {0, 1}
    s1 = s1
    Sites = {s1}
    NoSite = NoSite
    MYS_LOG_MAX_HANDLER = 3
    OnceOverlaps = TRUE
    MaxIds = 5
    MaxOnce = 2
INVARIANTS
    OncePerSite
CHECK_DEADLOCK FALSE
