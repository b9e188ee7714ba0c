SPECIFICATION Spec
CONSTANTS
    Images <- MCImages
    Paths <- MCPaths
    MakePaths <- MCMakePaths
    MaxHeld = 1
    Offsets <- MCOffsets
    Lengths <- MCLengths
    Indices <- MCIndices
    Direct = 1
    Hardwired = 2
    BlockSize = 2
    Word = 32
INVARIANTS
    MemoryInv
    NoLeak
    NamesFollowTree
    ReadIsExact
PROPERTIES
    CallsReturn
