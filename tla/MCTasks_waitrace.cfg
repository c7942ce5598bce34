SPECIFICATION Spec
CONSTANTS
    NumCpus = 2
    MaxTid = 2
    MaxPid = 2
    NumBoot = 2
    MaxHops = 4
    Drivers <- NoDrivers
    Masks <- NoMasks
    Calls <- WaitCalls
INVARIANTS
    NoWaitLost
