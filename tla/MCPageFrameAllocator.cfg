SPECIFICATION Spec
CONSTANTS
    MemMap <- MCMemMap
    AddressLimit = 24
    PageBytes = 2
    LowFrames = 1
    IntPages = 4
    IntWraps = TRUE
    LockRanges <- MCLockRanges
    MaxRun = 3
INVARIANTS
    TypeOK
    Accounting
    NoFrameTwice
    ReservedBytesKept
PROPERTIES
    RequestAnswers
    ImplementsFramePool
