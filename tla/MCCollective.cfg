SPECIFICATION FairSpec
CONSTANTS
    f1 = f1
    f2 = f2
    f3 = f3
    Folders <- MCFolders
    NoFile = NoFile
    BeginsName <- MCBeginsName
    _MYS_RANK_LOG_DEST_NUM = 2
    N = 3
    Programs <- MCPrograms
    NumCells <- MCNumCells
    Unopenable <- MCUnopenable
    FailsAlone = FALSE
INVARIANTS
    BarriersMatch
    OrderedInOrder
    DumpsAreWhole
    RankLogsExact
PROPERTIES
    EverybodyFinishes
