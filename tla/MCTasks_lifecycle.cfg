SPECIFICATION Spec
CONSTANTS
    NumCpus = 2
    MaxTid = 3
    MaxPid = 2
    NumBoot = 1
    MaxHops = 4
    Drivers <- NoDrivers
    Masks <- NoMasks
    Calls <- LifecycleCalls
INVARIANTS
    NoUseAfterTeardown
    KernelStackSafe
    OrphansKilled
    SetUpBeforeRun
    TasksInv
PROPERTY LastThreadEnds
