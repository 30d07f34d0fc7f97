------------------------------- MODULE MCPID -------------------------------
(* An instance of PID with three controllers and small rows: gains and     *)
(* limits that errors of a few units saturate.                             *)
EXTENDS PID

\* enum Controler_Label (PID.h:66-79).
EnumLabel == [c \in Controllers |->
    CASE c = "Yaw_Angle" -> 5 [] c = "High_Position" -> 7 [] c = "Yaw_Gyro" -> 2]

\* Small rows; only the depth controller's has every flag set.
Small(flags) ==
    [Err_Limit_Flag |-> flags, Integrate_Limit_Flag |-> TRUE,
     Integrate_Separation_Flag |-> flags, Err_Max |-> 3,
     Integrate_Separation_Err |-> 2, Integrate_Max |-> 3,
     Kp |-> 2, Ki |-> 1, Kd |-> 3, Control_OutPut_Limit |-> 5]
SmallTable == [l \in 0..7 |-> Small(l = 7)]

MCExpects == [c \in Controllers |->
    CASE c = "High_Position" -> {-4, 2}
      [] c = "Yaw_Angle" -> {100}
      [] c = "Yaw_Gyro" -> {-1, 0, 2}]
MCFeedBacks == [c \in Controllers |->
    IF c = "Yaw_Angle" THEN {-170, 0, 10} ELSE {0}]
ZeroB == [i \in 0..2 |-> 0]
ZeroA == [i \in 1..2 |-> 0]
=============================================================================
