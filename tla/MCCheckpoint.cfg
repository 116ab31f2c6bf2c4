SPECIFICATION FairSpec
CONSTANTS
    t1 = t1
    t2 = t2
    Threads = {t1, t2}
    NoThread = NoThread
    a = a
    b = b
    Names = {a, b}
    FirstCapacity = 1
    HandlersCheckpoint = FALSE
    MaxTime = 3
INVARIANTS
    RowsAreNamed
    DumpIsComplete
PROPERTIES
    LockIsGivenBack
