SPECIFICATION FairSpec
CONSTANTS
    Clients = {c1, c2}
    NoCmd = NoCmd
    Ops = {"pause", "resume", "fail"}
    SoftCap = 2
    MaxStarts = 2
PROPERTIES
    ImplementsCommandService
    Answered
    StopEndsLoop
CHECK_DEADLOCK FALSE
