SPECIFICATION FairSpec
CONSTANTS
    Threads = {t1, t2}
    None = None
    Levels = {3, 4}
    Heads = {1}
    Messages = {0, 3}
    LineBuf = 3
    EndSigns = 1
    BufSize = 4
    PollSize = 2
    MaxNotice = 1
INVARIANTS LinesIntact NoLostWakeup
PROPERTIES ImplementsQueue QueuedComesOut
