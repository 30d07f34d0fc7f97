SPECIFICATION Spec
CONSTANTS
    Controllers = {"High_Position", "Yaw_Angle", "Yaw_Gyro"}
    Label <- EnumLabel
    Control_Unit <- SmallTable
    Expects <- MCExpects
    FeedBacks <- MCFeedBacks
    LpfB <- ZeroB
    LpfA <- ZeroA
INVARIANTS WindupBounded
