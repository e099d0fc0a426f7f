SPECIFICATION Spec
CONSTANTS
    Alignment = 4
    PoolHeader = 3
    NodeHeader = 4
    Record = 2
    Size = 5
    MaxFromPool = 511
    SizeT = 1024
    Sizes = {2, 5, 6}
    x1 = x1
    x2 = x2
    Larges = {x1, x2}
    MaxBlocks = 8
INVARIANTS
    PoolSound
    LargeOnce
SYMMETRY Symmetry
CHECK_DEADLOCK FALSE
