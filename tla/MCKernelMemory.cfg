SPECIFICATION KernelSpec
CHECK_DEADLOCK FALSE
CONSTANTS
    Fanout = 4
    RamFrames = 48
    Pools <- MCPools
    Garbage <- MCGarbage
    MapPages = {}
    MapFrames = {}
    HigherHalf = 128
    Regions <- MCRegions
    VirtualBase = 240
    PhysicalBase = 0
    HeapStarts <- MCHeapStarts
    HeapPages = 2
    MaxHeapPages = 3
    DevicePages <- MCDevicePages
    MaxDriverPages = 1
    HeapData <- MCHeapData
INVARIANTS
    KernelInv
    IntendedSpace
    FaultExplained
PROPERTIES
    HeapContentsStable
