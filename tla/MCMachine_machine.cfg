SPECIFICATION FairSpec
CONSTANTS
    Madts <- Firmwares
    Bsp = 0
    MaxCpus = 5
    Dead <- DeadOne
    NumProcs = 3
    Catchers = {1}
    Grace = 2
INVARIANTS
    MachineInv
PROPERTIES
    BootCompletes
    ShutdownEndsUnlessDeaf
CHECK_DEADLOCK FALSE
