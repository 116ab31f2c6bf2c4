SPECIFICATION PopenFairSpec
CONSTANTS
    NumKids = 2
    Programs <- MCPrograms
    Codes = {3}
    PipeCapacity = 1
    FirstBuffer = 1
    Buffer = 2
INVARIANTS
    OutputIsCaptured
    CleanedUp
PROPERTIES
    CallsEnd
CHECK_DEADLOCK FALSE
