SPECIFICATION Spec
CONSTANTS
    Procs = {p1, p2}
    Paths <- TwoLevels
    Fds = {1}
    Values = {1}
    MaxNodes = 3
    GenMod = 2
    MaxReuse = 1
    MaxLen = 1
    MaxData = 2
INVARIANTS
    VfsInv
PROPERTY
    ImplementsFileStore
