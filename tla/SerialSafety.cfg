CONSTANTS
    FrameLen = 3
    ByteTime = 2
    AckDelay = 3
    CompleteDelay = 0
    Chunks = {1, 3}
    Masks = {{}, {"needed", "ready"}, {"done", "ready"}}
    Requests = {"read", "write"}
    MaxQueue = 0
SPECIFICATION Spec
INVARIANTS TypeOK PendingIsExact LineIsLevel NoReplyByteLost FramesAligned TicksAgree
