SPECIFICATION Spec
CONSTANTS
    Clients = {c1, c2, c3}
    NoCmd = NoCmd
    Ops = {"pause", "resume"}
    SoftCap = 2
    MaxStarts = 2
SYMMETRY ClientSymmetry
INVARIANTS
    TypeOK
    Custody
    NoSleepPastDone
    NoParkOnWork
    OneFrameLatency
CHECK_DEADLOCK FALSE
