CONSTANTS
    video = video
    shot = shot
    wav1 = wav1
    Viewers = {video, shot}
    Listeners = {wav1}
    Recorders = {video}
    Want <- MCWant
    MaxFrames = 3
SPECIFICATION Spec
INVARIANTS TypeOK AudioSteady VideoSteady StopDetaches
PROPERTY CaptureEnds
