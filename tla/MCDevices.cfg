SPECIFICATION Spec
CONSTANTS
    RootTables <- MCRootTables
    Segments <- MCSegments
    LastDevice = 2
    LastFunction = 1
    Machines <- MCMachines
    Controllers <- MCControllers
    Cores <- MCCores
    CountLimit = 3
INVARIANTS
    SearchInv
    EachFunctionOnce
PROPERTIES
    SearchEnds
