SPECIFICATION FairSpec
CONSTANTS
    VehicleMode = "FOUR_AXIS"
    TotalPidInit = TRUE
    PowerMax = 29
    PowerMed = 24
    PowerMin = 20
    DepthOutLimit = 2
    Dives <- ShortDives
    RiseBound = 127
    DiveBound = 1143
INVARIANTS PwmWithinLimits LockStopsWithinTwoOutputs DiveWindupBounded
PROPERTIES SlewLimited LockEventuallyObeyed
