SPECIFICATION Spec
CONSTANTS
    NumCpus = 2
    MaxTid = 3
    MaxPid = 2
    NumBoot = 2
    MaxHops = 4
    Drivers <- FirstIsDriver
    Masks <- EverySignal
    Calls <- SignalCalls
INVARIANTS
    ResumeStateFresh
    NoLostThreadUnlessWorkerReads
PROPERTIES
    DriverSpared
