SPECIFICATION Spec
CONSTANTS
    c1 = c1
    c2 = c2
    Conns <- TwoConns
    Fds = {4}
    MaxFrames = 1
    Frames = {"good", "bad"}
INVARIANTS Survives
CHECK_DEADLOCK FALSE
