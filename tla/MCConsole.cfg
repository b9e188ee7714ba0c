SPECIFICATION ConsoleSpec
CONSTANTS
    ScanCodes <- MCScanCodes
    AnyWord <- MCAnyWord
    PrintedChars = {10, 65}
    Framebuffers <- MCFramebuffers
    charWidth = 2
    charHeight = 2
    BUFFERSIZE = 3
    Deepest = 16
    Short = 16
    Word = 64
INVARIANTS
    ConsoleInv
PROPERTIES
    EraseOnScreen
    EchoVisible
