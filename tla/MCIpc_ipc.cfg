SPECIFICATION Spec
CONSTANTS
    Procs = {p1, p2}
    Names = {audio, svc, log}
    Audio = audio
    MaxChannels = 2
    MaxQueue = 2
    MaxMsgs = 3
    MaxWaiters = 2
    StrayCost = 2
SYMMETRY Symmetry
CHECK_DEADLOCK FALSE
INVARIANTS
    IpcInv
    SleepersWoken
