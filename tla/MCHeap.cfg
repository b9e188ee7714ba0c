SPECIFICATION Spec
CHECK_DEADLOCK FALSE
CONSTANTS
    heapStart = 18
    InitialPages = 1
    MaxPages = 2
    PageSize = 18
    HeaderSize = 4
    Grain = 2
    Sizes = {0, 1, 7, 14}
INVARIANTS
    HeapInv
    AllComesBack
PROPERTIES
    GrowthAppends
