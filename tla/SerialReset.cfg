CONSTANTS
    FrameLen = 3
    ByteTime = 2
    AckDelay = 3
    CompleteDelay = 1
    Chunks = {1, 3}
    Masks = {{}, {"needed", "ready"}, {"done", "ready"}}
    Requests = {"read"}
    MaxQueue = 0
SPECIFICATION Spec
INVARIANT ResetAligns
