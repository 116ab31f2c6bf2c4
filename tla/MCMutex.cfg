SPECIFICATION FairSpec
CONSTANTS
    t1 = t1
    t2 = t2
    t3 = t3
    Threads = {t1, t2, t3}
    Word = 8
    NoOne = NoOne
    Dead = Dead
INVARIANTS
    MutualExclusion
PROPERTIES
    TruthfulCodes
    ImplementsLockSpec
    FreeLockIsTaken
