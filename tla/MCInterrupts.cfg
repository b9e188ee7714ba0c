SPECIFICATION Spec
CHECK_DEADLOCK FALSE
CONSTANTS
    BootMasks <- MCBootMasks
    GapBytes = FALSE
    MaxKeys = 2
    MaxQueued = 2
    SubticksPerTick = 2
    SleepTicks = 2
    TickBound = 4
INVARIANTS
    InterruptsInv
    NoGateOnlyInRemap
PROPERTIES
    BootEnds
    TimerKeepsRunning
    KeyboardKeepsSending
