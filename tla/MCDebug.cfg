SPECIFICATION FairSpec
CONSTANTS
    t1 = t1
    t2 = t2
    Threads = {t1, t2}
    main = t1
    NoThread = NoThread
    s1 = s1
    s2 = s2
    s3 = s3
    Signals = {s1, s2, s3}
    sigrt = sigrt
    SIGTIMEOUT = sigrt
    NoSignal = NoSignal
    Installed <- MCInstalled
    original <- MCoriginal
    _MYS_DEBUG_SIGNAL_MAX = 2
    Broken = {}
    x1 = x1
    Expiries = {x1}
    MaxInits = 2
INVARIANTS
    FiniRestores
    HandlerHasStack
    TimeoutIsReported
PROPERTIES
    HandlerEnds
CHECK_DEADLOCK FALSE
