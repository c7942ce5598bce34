SPECIFICATION FairSpec
CONSTANTS
    NumCpus = 1
    MaxTid = 3
    MaxPid = 2
    NumBoot = 2
    MaxHops = 4
    Drivers <- NoDrivers
    Masks <- NoMasks
    Calls <- ComputeCalls
PROPERTIES
    KillReaps
    ReadyRuns
