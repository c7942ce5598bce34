SPECIFICATION FairSpec
CONSTANTS
    Loaders = {c1}
    MaxDrivers = 1
    MaxPid = 2
    MaxStops = 2
INVARIANTS
    DriversInv
PROPERTIES
    DmaSafe
    UnloadEndsUnlessAsleep
CHECK_DEADLOCK FALSE
