SPECIFICATION Spec
CONSTANTS
    BootMasks <- MCBootMasks
    GapBytes = TRUE
    MaxKeys = 2
    MaxQueued = 2
    SubticksPerTick = 2
    SleepTicks = 2
    TickBound = 4
PROPERTIES
    KeyboardKeepsSending
CHECK_DEADLOCK FALSE
