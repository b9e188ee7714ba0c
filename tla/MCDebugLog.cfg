SPECIFICATION DebugSpec
CHECK_DEADLOCK FALSE
CONSTANTS
    BUFSIZE = 4
    Byte = 2
    Chars <- MCChars
    MaxPrinted = 7
    Messages <- MCMessages
    Openings <- MCOpenings
    CharBits = 2
    ShortBits = 3
    IntBits = 8
    LongBits = 10
INVARIANTS
    DebugInv
PROPERTIES
    LineComesOut
