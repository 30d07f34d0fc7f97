SPECIFICATION FairSpec
CONSTANTS
    Workers = {w}
    Clients = {c}
    Recorder = w
    Cam = Cam
    None = None
    NFrames = 2
    Inputs = {"uvc", "file", "testpicture"}
    Outputs = {"file", "viewer"}
INVARIANTS CopiesWhole FreshFrames
PROPERTIES WaitersServed LockComesBack
CHECK_DEADLOCK FALSE
