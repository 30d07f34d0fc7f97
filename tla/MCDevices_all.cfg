SPECIFICATION FairSpec
CONSTANTS
    ArmMax = 7
    ArmMin = 1
    ArmMed = 4
    ArmSpeed = 2
    YunTaiMax = 6
    YunTaiMin = 1
    YunTaiMed = 3
    YunTaiSpeed = 2
    LightMax = 3
    LightStep = 2
    Bytes <- AllBytes
INVARIANTS ArmHintExact
PROPERTIES ImplementsServos HeldOpenReachesEnd
