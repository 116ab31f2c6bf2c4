SPECIFICATION Spec
CONSTANTS
    b1 = b1
    b2 = b2
    b3 = b3
    Blocks = {b1, b2, b3}
    NULL = NULL
    initial_capacity = 1
    MayFail = {"block", "objects"}
    MaxCapacity = 4
    MaxReuse = 3
SYMMETRY Sym
INVARIANTS
    ObjectsPartitioned
    ListsPartitionBlocks
    DestroyFreesAll
PROPERTIES
    GrowsOnlyWhenExhausted
CHECK_DEADLOCK FALSE
