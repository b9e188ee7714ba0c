SPECIFICATION Spec
CONSTANTS
    MaxPort = 2
    PortLimit = 3
    PortsMapped = 2
    MaxSpin = 2
    AnyCount = {0, 1, 2}
INVARIANTS
    DriverInv
    TruthfulAnswer
    EveryDriveRead
PROPERTIES
    MemoryMovesIdle
    BootGoesOn
