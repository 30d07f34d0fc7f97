-------------------------------- MODULE PID --------------------------------
(***************************************************************************)
(* applications/PID.c with its callers Angle_Control and Depth_PID_Control *)
(* of user/Control.c: the table of parameters, the positional PID step     *)
(* with its limits, and the variant whose derivative goes through a        *)
(* median-of-three and a Butterworth low-pass filter.                      *)
(*                                                                         *)
(* Units: errors are integers; gains, integrals and outputs are integers   *)
(* in one common fraction (1/100 for the real table).  Rounding of float   *)
(* is not modelled.                                                        *)
(***************************************************************************)
EXTENDS Integers, Sequences

CONSTANTS
    Controllers,    \* fields of Total_Controller under study
    Label,          \* [Controllers -> Controler_Label it is initialised with]
    Control_Unit,   \* [Controler_Label -> row of the table]
    Expects,        \* [Controllers -> expected values asked for]
    FeedBacks,      \* [Controllers -> values the sensors return]
    LpfB, LpfA      \* Control_Device_Div_LPF_Parameter

Row == [Err_Limit_Flag : BOOLEAN, Integrate_Limit_Flag : BOOLEAN,
        Integrate_Separation_Flag : BOOLEAN, Err_Max : Nat,
        Integrate_Separation_Err : Nat, Integrate_Max : Nat,
        Kp : Nat, Ki : Nat, Kd : Nat, Control_OutPut_Limit : Nat]

ASSUME TableAssumption ==
    /\ Control_Unit \in [DOMAIN Control_Unit -> Row]
    /\ Label \in [Controllers -> DOMAIN Control_Unit]
ASSUME InputsAssumption ==
    /\ Expects \in [Controllers -> SUBSET Int]
    /\ FeedBacks \in [Controllers -> SUBSET Int]
ASSUME LpfAssumption == LpfB \in [0..2 -> Int] /\ LpfA \in [1..2 -> Int]

VARIABLES
    par,        \* [Controllers -> the row copied by PID_Init]
    ctl,        \* [Controllers -> Err, Last_Err, Integrate and the outputs]
    dis,        \* [Controllers -> the derivative filter of the controller]
    Yaw,        \* the compensated yaw angle
    inited,     \* Total_PID_Init was called
    spent,      \* history: [Controllers -> error integrated against a windup]
    jump        \* history: what the median filter last took in and gave out

vars == <<par, ctl, dis, Yaw, inited, spent, jump>>

----------------------------------------------------------------------------
(* The PID step.                                                           *)

Clamp(x, m) == IF x >= m THEN m ELSE IF x <= -m THEN -m ELSE x

Abs(x) == IF x < 0 THEN -x ELSE x

Error(p, expect, feedback) ==
    IF p.Err_Limit_Flag THEN Clamp(expect - feedback, p.Err_Max)
    ELSE expect - feedback

\* What the step adds to the integral, before its limit.
Increment(p, err) ==
    IF p.Integrate_Separation_Flag /\ Abs(err) > p.Integrate_Separation_Err
    THEN 0 ELSE p.Ki * err

\* Mutant: the limit is applied to the increment.
Integral_Early(p, old, inc) ==
    IF p.Integrate_Limit_Flag THEN old + Clamp(inc, p.Integrate_Max)
    ELSE old + inc

Integral(p, old, inc) ==
    IF p.Integrate_Limit_Flag THEN Clamp(old + inc, p.Integrate_Max)
    ELSE old + inc

Output(p, err, int, derivative) ==
    Clamp(p.Kp * err + int + p.Kd * derivative, p.Control_OutPut_Limit)

\* The derivative is of the errors (PID_Control) or filtered (Div_LPF).
Stepped(p, k, err, derivative) ==
    LET int == Integral(p, k.Integrate, Increment(p, err))
    IN  [Last_Err |-> k.Err, Err |-> err, Integrate |-> int,
         Last_Control_OutPut |-> k.Control_OutPut,
         Control_OutPut |-> Output(p, err, int, derivative)]

\* The error a reversed integral has worked off so far.
Spent(p, k, s, err) ==
    LET inc == Increment(p, err)
    IN  IF (k.Integrate > 0 /\ inc < 0 /\ -inc <= k.Integrate)
           \/ (k.Integrate < 0 /\ inc > 0 /\ inc <= -k.Integrate)
        THEN s + Abs(inc) ELSE 0

----------------------------------------------------------------------------
(* The derivative filter of PID_Control_Div_LPF.                           *)

Max3(a, b, c) == IF a >= b /\ a >= c THEN a ELSE IF b >= c THEN b ELSE c
Min3(a, b, c) == IF a <= b /\ a <= c THEN a ELSE IF b <= c THEN b ELSE c

\* The last of the three that lies strictly between the others, else the
\* new value c.
Middle(a, b, c) ==
    LET between(x) == x > Min3(a, b, c) /\ x < Max3(a, b, c)
    IN  IF between(c) THEN c ELSE IF between(b) THEN b
        ELSE IF between(a) THEN a ELSE c

\* The filter after the new input x; y is its newest output.
Control_Device_LPF(d, x) ==
    LET y == LpfB[0] * x + LpfB[1] * d.x1 + LpfB[2] * d.x0
                - LpfA[1] * d.y1 - LpfA[2] * d.y0
    IN  [d EXCEPT !.x0 = d.x1, !.x1 = x, !.y0 = d.y1, !.y1 = y]

\* raw is the unfiltered derivative Err - Last_Err.
Filtered(d, raw) ==
    LET mid == Middle(d.Pre_Last, d.Last, raw)
        f == Control_Device_LPF(d, mid)
    IN  [f EXCEPT !.Pre_Last = d.Last, !.Last = mid,
                  !.History = << f.y1 >> \o SubSeq(d.History, 1, 4)]

----------------------------------------------------------------------------
(* Static storage is zero: so are the rows until Total_PID_Init runs.      *)

ZeroRow == [Err_Limit_Flag |-> FALSE, Integrate_Limit_Flag |-> FALSE,
            Integrate_Separation_Flag |-> FALSE, Err_Max |-> 0,
            Integrate_Separation_Err |-> 0, Integrate_Max |-> 0,
            Kp |-> 0, Ki |-> 0, Kd |-> 0, Control_OutPut_Limit |-> 0]

ZeroCtl == [Last_Err |-> 0, Err |-> 0, Integrate |-> 0,
            Last_Control_OutPut |-> 0, Control_OutPut |-> 0]

ZeroDis == [Pre_Last |-> 0, Last |-> 0, History |-> <<0, 0, 0, 0, 0>>,
            x0 |-> 0, x1 |-> 0, y0 |-> 0, y1 |-> 0]

Init ==
    /\ par = [c \in Controllers |-> ZeroRow]
    /\ ctl = [c \in Controllers |-> ZeroCtl]
    /\ dis = [c \in Controllers |-> ZeroDis]
    /\ Yaw = 0
    /\ inited = FALSE
    /\ spent = [c \in Controllers |-> 0]
    /\ jump = [a |-> 0, b |-> 0, c |-> 0, out |-> 0]

\* Control_Unit[Label], copied field by field.
PID_Init(c) == Control_Unit[Label[c]]

\* Every controller takes its row, whose errors, integral and outputs are 0;
\* the filter state is not in the table and stays.
Total_PID_Init ==
    /\ ~inited
    /\ inited' = TRUE
    /\ par' = [c \in Controllers |-> PID_Init(c)]
    /\ ctl' = [c \in Controllers |-> ZeroCtl]
    /\ spent' = [c \in Controllers |-> 0]
    /\ UNCHANGED <<dis, Yaw, jump>>

\* PID_Control and PID_Control_Yaw: the same step.
PID_Control(c, expect, feedback) ==
    LET err == Error(par[c], expect, feedback)
    IN  /\ ctl' = [ctl EXCEPT ![c] =
                        Stepped(par[c], @, err, err - @.Err)]
        /\ spent' = [spent EXCEPT ![c] = Spent(par[c], ctl[c], @, err)]
        /\ UNCHANGED <<par, dis, inited, jump>>

Depth_PID_Control ==
    /\ "High_Position" \in Controllers
    /\ \E e \in Expects["High_Position"], f \in FeedBacks["High_Position"] :
            PID_Control("High_Position", e, f)
    /\ UNCHANGED Yaw

\* Sensor.JY901.Euler.Yaw made positive; 0 leaves the old value.
Compensated(y) ==
    IF y < 0 THEN 360 + y ELSE IF y > 0 THEN y ELSE Yaw

\* Angle_Control towards the heading Yaw_Control.
Angle_Control ==
    /\ "Yaw_Angle" \in Controllers
    /\ \E e \in Expects["Yaw_Angle"], y \in FeedBacks["Yaw_Angle"] :
        /\ Yaw' = Compensated(y)
        /\ PID_Control("Yaw_Angle", e, Yaw')

\* The controller of the yaw rate, whose derivative is filtered.  The error
\* is limited after the derivative was taken.
PID_Control_Div_LPF ==
    /\ "Yaw_Gyro" \in Controllers
    /\ \E e \in Expects["Yaw_Gyro"], f \in FeedBacks["Yaw_Gyro"] :
        LET c == "Yaw_Gyro"
            raw == (e - f) - ctl[c].Err
            err == Error(par[c], e, f)
            d == Filtered(dis[c], raw)
        IN  /\ dis' = [dis EXCEPT ![c] = d]
            /\ ctl' = [ctl EXCEPT ![c] = Stepped(par[c], @, err, d.History[1])]
            /\ spent' = [spent EXCEPT ![c] = Spent(par[c], ctl[c], @, err)]
            /\ jump' = [a |-> dis[c].Pre_Last, b |-> dis[c].Last, c |-> raw,
                        out |-> d.Last]
    /\ UNCHANGED <<par, Yaw, inited>>

Next == Total_PID_Init \/ Depth_PID_Control \/ Angle_Control
            \/ PID_Control_Div_LPF

Spec == Init /\ [][Next]_vars

----------------------------------------------------------------------------
(* Properties *)

TypeOK ==
    /\ par \in [Controllers -> Row]
    /\ ctl \in [Controllers -> [Last_Err : Int, Err : Int, Integrate : Int,
                    Last_Control_OutPut : Int, Control_OutPut : Int]]
    /\ dis \in [Controllers -> [Pre_Last : Int, Last : Int,
                    History : Seq(Int), x0 : Int, x1 : Int, y0 : Int, y1 : Int]]
    /\ \A c \in Controllers : Len(dis[c].History) = 5
    /\ Yaw \in Int
    /\ inited \in BOOLEAN
    /\ spent \in [Controllers -> Nat]
    /\ jump \in [a : Int, b : Int, c : Int, out : Int]

\* Every output, and the one it replaced, is within the limit of the
\* controller's row, on both sides, whatever it was fed (PID.c:117-128).
OutputLimited ==
    \A c \in Controllers :
        /\ Abs(ctl[c].Control_OutPut) <= par[c].Control_OutPut_Limit
        /\ Abs(ctl[c].Last_Control_OutPut) <= par[c].Control_OutPut_Limit

\* However long an error lasted, the integral it built up is worked off by a
\* reversed error worth at most Integrate_Max: what is left of it plus what
\* was worked off never exceeds the limit (PID.c:109-115).
WindupBounded ==
    \A c \in Controllers : par[c].Integrate_Limit_Flag =>
        Abs(ctl[c].Integrate) + spent[c] <= par[c].Integrate_Max

\* When the two kept derivatives differ, the filter's new one lies between
\* them, whatever the raw derivative was (PID.c:190-204).
SpikeHeld ==
    jump.a # jump.b => /\ jump.out >= Min3(jump.a, jump.b, jump.b)
                       /\ jump.out <= Max3(jump.a, jump.b, jump.b)
=============================================================================
