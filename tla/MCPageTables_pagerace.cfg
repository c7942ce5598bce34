SPECIFICATION PtSpec
CONSTANTS
    Threads = {t1, t2}
    Levels = 3
    Radix = 2
    MaxTables = 5
    Frames = {1, 2}
    FirstPage = 2
    PageEnd = 5
    Sizes = {1, 2}
INVARIANT HeapPagesMapped
CHECK_DEADLOCK FALSE
