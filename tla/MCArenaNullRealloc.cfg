SPECIFICATION Spec
CONSTANTS
    p1 = p1
    p2 = p2
    p3 = p3
    Ptrs = {p1, p2, p3}
    NULL = NULL
    Sizes = {0, 1, 2}
    Word = 16
    MaxTotal = 7
    Broken = {"no realloc of NULL"}
SYMMETRY Sym
INVARIANTS
    PrintableCount
CHECK_DEADLOCK FALSE
