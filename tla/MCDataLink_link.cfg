SPECIFICATION FairSpec
CONSTANTS
    c1 = c1
    c2 = c2
    Conns <- TwoConns
    Fds = {4}
    MaxFrames = 2
    Frames = {"good", "bad"}
INVARIANTS ServedWhileCurrent StaleOnlyWhileClearing CommandsFresh
PROPERTIES FramesIntact ResetReleased SendersDrain
CHECK_DEADLOCK FALSE
