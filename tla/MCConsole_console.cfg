SPECIFICATION FairSpec
CONSTANTS
    Procs = {p1, p2}
    Graphical = {p1, p2}
    Text = {p1}
    Catching = {p1}
    Careless = {p2}
    NoOne = NoOne
    Keyboard = Keyboard
    BufSize = 2
    MaxBytes = 2
    MaxLive = 2
INVARIANTS
    ConsoleInv
    FocusedRings
PROPERTY
    PollEndsUnlessCrossed
CHECK_DEADLOCK FALSE
