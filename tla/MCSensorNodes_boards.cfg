SPECIFICATION Start_Spec
CONSTANTS
    AdsBase = 100
    DepthBase = 100
    Fds = {3}
    W = 10
    RefScale = 4
    TempScale = 64
    Boards <- MCBoards
INVARIANTS
    AcceptedByCrc
    WarmExact
    QuietRawRight
    DetectionRight
    NodesComplete
PROPERTY StartupSettles
