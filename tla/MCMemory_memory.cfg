SPECIFICATION Spec
CONSTANTS
    MaxPid = 2
    NumFrames = 5
    CodePages = 1
    StackPages = 1
    ShmLimit = 2
    MaxShm = 1
    HeapLimit = 2
    MaxPages = 2
    MaxLeaked = 2
    Placements <- OwnOrOneCpu
CHECK_DEADLOCK FALSE
INVARIANTS
    MemoryInv
    ShmIsolation

    
