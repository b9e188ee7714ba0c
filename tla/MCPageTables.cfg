SPECIFICATION Spec
CONSTANTS
    Fanout = 2
    RamFrames = 16
    Pools <- MCPools
    Garbage <- MCGarbage
    MapPages <- MCMapPages
    MapFrames = {6, 20}
INVARIANTS
    TablesSound
PROPERTIES
    ImplementsAddressSpace
