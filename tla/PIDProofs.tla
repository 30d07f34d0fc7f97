----------------------------- MODULE PIDProofs -----------------------------
(***************************************************************************)
(* Proofs about PID, for every table, every set of inputs and every filter *)
(* parameter.                                                              *)
(***************************************************************************)
EXTENDS PID, TLAPS

CtlType == [Last_Err : Int, Err : Int, Integrate : Int,
            Last_Control_OutPut : Int, Control_OutPut : Int]
DisType == [Pre_Last : Int, Last : Int, History : Seq(Int),
            x0 : Int, x1 : Int, y0 : Int, y1 : Int]

\* A clamped value is an integer within the limit, and unchanged if it was.
LEMMA ClampBound ==
    ASSUME NEW x \in Int, NEW m \in Nat
    PROVE  Clamp(x, m) \in Int /\ Abs(Clamp(x, m)) <= m
BY DEF Clamp, Abs

\* The pieces of the step are integers.
LEMMA PieceTypes ==
    ASSUME NEW p \in Row, NEW e \in Int, NEW f \in Int, NEW i \in Int
    PROVE  /\ Error(p, e, f) \in Int
           /\ Increment(p, e) \in Int
           /\ Integral(p, i, e) \in Int
<1>1. p.Err_Max \in Nat /\ p.Integrate_Max \in Nat /\ p.Ki \in Nat
    BY DEF Row
<1>2. p.Ki * e \in Int
    BY <1>1
<1>3. Clamp(e - f, p.Err_Max) \in Int /\ Clamp(i + e, p.Integrate_Max) \in Int
    <2>1. e - f \in Int /\ i + e \in Int
        OBVIOUS
    <2> QED BY <1>1, <2>1, ClampBound
<1> QED BY <1>2, <1>3 DEF Error, Increment, Integral

\* One step keeps its types and obeys the output limit (PID_Control).
LEMMA SteppedSafe ==
    ASSUME NEW p \in Row, NEW k \in CtlType, NEW err \in Int, NEW d \in Int
    PROVE  /\ Stepped(p, k, err, d) \in CtlType
           /\ Stepped(p, k, err, d).Err = err
           /\ Stepped(p, k, err, d).Integrate
                = Integral(p, k.Integrate, Increment(p, err))
           /\ Abs(Stepped(p, k, err, d).Control_OutPut) <= p.Control_OutPut_Limit
           /\ Stepped(p, k, err, d).Last_Control_OutPut = k.Control_OutPut
<1> DEFINE inc == Increment(p, err)
           int == Integral(p, k.Integrate, inc)
           sum == p.Kp * err + int + p.Kd * d
<1>1. k.Integrate \in Int /\ k.Err \in Int /\ k.Control_OutPut \in Int
    BY DEF CtlType
<1>2. p.Kp \in Nat /\ p.Kd \in Nat /\ p.Control_OutPut_Limit \in Nat
    BY DEF Row
<1>3. inc \in Int
    BY PieceTypes
<1>4. int \in Int
    BY <1>1, <1>3, PieceTypes
<1>5. p.Kp * err \in Int /\ p.Kd * d \in Int
    BY <1>2
<1>6. sum \in Int
    BY <1>4, <1>5
<1>7. /\ Output(p, err, int, d) \in Int
      /\ Abs(Output(p, err, int, d)) <= p.Control_OutPut_Limit
    <2> HIDE DEF sum
    <2>1. Clamp(sum, p.Control_OutPut_Limit) \in Int
          /\ Abs(Clamp(sum, p.Control_OutPut_Limit)) <= p.Control_OutPut_Limit
        BY <1>2, <1>6, ClampBound
    <2> QED BY <2>1 DEF Output, sum
<1> HIDE DEF inc, int, sum
<1>8. Stepped(p, k, err, d)
        = [Last_Err |-> k.Err, Err |-> err, Integrate |-> int,
           Last_Control_OutPut |-> k.Control_OutPut,
           Control_OutPut |-> Output(p, err, int, d)]
    BY DEF Stepped, inc, int
<1> QED BY <1>1, <1>4, <1>7, <1>8 DEF CtlType, int, inc

\* What is left of an integral plus what was worked off it stays within the
\* limit from one step to the next.
LEMMA SpentSafe ==
    ASSUME NEW p \in Row, NEW k \in CtlType, NEW s \in Nat, NEW err \in Int,
           p.Integrate_Limit_Flag => Abs(k.Integrate) + s <= p.Integrate_Max
    PROVE  /\ Spent(p, k, s, err) \in Nat
           /\ p.Integrate_Limit_Flag =>
                Abs(Integral(p, k.Integrate, Increment(p, err)))
                    + Spent(p, k, s, err) <= p.Integrate_Max
<1> DEFINE inc == Increment(p, err)
           i == k.Integrate
           m == p.Integrate_Max
<1>1. inc \in Int
    BY PieceTypes
<1>2. i \in Int /\ m \in Nat
    BY DEF CtlType, Row
<1>3. Spent(p, k, s, err) =
        IF (i > 0 /\ inc < 0 /\ -inc <= i) \/ (i < 0 /\ inc > 0 /\ inc <= -i)
        THEN s + Abs(inc) ELSE 0
    BY DEF Spent
<1>4. p.Integrate_Limit_Flag => Integral(p, i, inc) = Clamp(i + inc, m)
    BY DEF Integral
<1>5. p.Integrate_Limit_Flag => Abs(i) + s <= m
    OBVIOUS
<1> HIDE DEF inc, i, m
<1>6. Spent(p, k, s, err) \in Nat
    BY <1>1, <1>2, <1>3 DEF Abs
<1>7. p.Integrate_Limit_Flag => Abs(Integral(p, i, inc)) + Spent(p, k, s, err) <= m
    <2>1. CASE (i > 0 /\ inc < 0 /\ -inc <= i) \/ (i < 0 /\ inc > 0 /\ inc <= -i)
        BY <2>1, <1>1, <1>2, <1>3, <1>4, <1>5 DEF Abs, Clamp
    <2>2. CASE ~((i > 0 /\ inc < 0 /\ -inc <= i) \/ (i < 0 /\ inc > 0 /\ inc <= -i))
        <3>1. Spent(p, k, s, err) = 0
            BY <2>2, <1>3
        <3>2. Abs(Clamp(i + inc, m)) <= m /\ Clamp(i + inc, m) \in Int
            BY <1>1, <1>2, ClampBound
        <3> QED BY <3>1, <3>2, <1>2, <1>4 DEF Abs
    <2> QED BY <2>1, <2>2
<1> QED BY <1>6, <1>7 DEF inc, i, m

\* The median filter never leaves the interval of two different kept values.
LEMMA MiddleHeld ==
    ASSUME NEW a \in Int, NEW b \in Int, NEW c \in Int
    PROVE  /\ Middle(a, b, c) \in Int
           /\ a # b => /\ Middle(a, b, c) >= Min3(a, b, b)
                       /\ Middle(a, b, c) <= Max3(a, b, b)
BY DEF Middle, Min3, Max3

\* The filter keeps five values of history and its types.
LEMMA FilteredType ==
    ASSUME NEW d \in DisType, Len(d.History) = 5, NEW raw \in Int
    PROVE  /\ Filtered(d, raw) \in DisType
           /\ Len(Filtered(d, raw).History) = 5
           /\ Filtered(d, raw).History[1] \in Int
           /\ Filtered(d, raw).Last = Middle(d.Pre_Last, d.Last, raw)
<1> DEFINE mid == Middle(d.Pre_Last, d.Last, raw)
           f == Control_Device_LPF(d, mid)
           h == << f.y1 >> \o SubSeq(d.History, 1, 4)
<1>1. mid \in Int
    BY MiddleHeld DEF DisType
<1> HIDE DEF mid
<1>2. d.x0 \in Int /\ d.x1 \in Int /\ d.y0 \in Int /\ d.y1 \in Int
    BY DEF DisType
<1>3. LpfB[0] \in Int /\ LpfB[1] \in Int /\ LpfB[2] \in Int
      /\ LpfA[1] \in Int /\ LpfA[2] \in Int
    BY LpfAssumption
<1>4. /\ LpfB[0] * mid \in Int /\ LpfB[1] * d.x1 \in Int /\ LpfB[2] * d.x0 \in Int
      /\ LpfA[1] * d.y1 \in Int /\ LpfA[2] * d.y0 \in Int
    BY <1>1, <1>2, <1>3
<1>5. LpfB[0] * mid + LpfB[1] * d.x1 + LpfB[2] * d.x0
        - LpfA[1] * d.y1 - LpfA[2] * d.y0 \in Int
    BY <1>4
<1>6. f \in DisType /\ f.y1 \in Int
    BY <1>1, <1>2, <1>5 DEF Control_Device_LPF, DisType
<1> HIDE DEF f
<1>7. SubSeq(d.History, 1, 4) \in Seq(Int) /\ Len(SubSeq(d.History, 1, 4)) = 4
    BY DEF DisType
<1>8. h \in Seq(Int) /\ Len(h) = 5 /\ h[1] = f.y1
    BY <1>6, <1>7
<1> HIDE DEF h
<1>9. Filtered(d, raw) = [f EXCEPT !.Pre_Last = d.Last, !.Last = mid, !.History = h]
    BY DEF Filtered, f, mid, h
<1>10. d.Last \in Int
    BY DEF DisType
<1>11. Filtered(d, raw) \in DisType
    BY <1>1, <1>6, <1>8, <1>9, <1>10 DEF DisType
<1>12. Filtered(d, raw).History = h /\ Filtered(d, raw).Last = mid
    BY <1>6, <1>9 DEF DisType
<1> QED BY <1>6, <1>8, <1>11, <1>12 DEF mid

----------------------------------------------------------------------------
IInv == TypeOK /\ OutputLimited /\ WindupBounded /\ SpikeHeld

LEMMA InitIInv == Init => IInv
<1> SUFFICES ASSUME Init PROVE IInv
    OBVIOUS
<1>1. ZeroRow \in Row /\ ZeroRow.Control_OutPut_Limit = 0
      /\ ZeroRow.Integrate_Limit_Flag = FALSE
    BY DEF ZeroRow, Row
<1>2. ZeroCtl \in CtlType /\ ZeroCtl.Control_OutPut = 0
      /\ ZeroCtl.Last_Control_OutPut = 0
    BY DEF ZeroCtl, CtlType
<1>3. ZeroDis \in DisType /\ Len(ZeroDis.History) = 5
    BY DEF ZeroDis, DisType
<1>4. TypeOK
    BY <1>1, <1>2, <1>3 DEF Init, TypeOK, CtlType, DisType
<1>5. OutputLimited
    <2>1. Abs(0) <= 0
        BY DEF Abs
    <2>2. \A c \in Controllers : ctl[c] = ZeroCtl /\ par[c] = ZeroRow
        BY DEF Init
    <2> QED BY <1>1, <1>2, <2>1, <2>2 DEF OutputLimited
<1>6. WindupBounded
    BY <1>1 DEF Init, WindupBounded
<1>7. SpikeHeld
    BY DEF Init, SpikeHeld
<1> QED BY <1>4, <1>5, <1>6, <1>7 DEF IInv

\* What every controller's step shares: new ctl and spent at one controller.
LEMMA ControllerStep ==
    ASSUME IInv, NEW c \in Controllers, NEW err \in Int, NEW d \in Int,
           ctl' = [ctl EXCEPT ![c] = Stepped(par[c], ctl[c], err, d)],
           spent' = [spent EXCEPT ![c] = Spent(par[c], ctl[c], spent[c], err)],
           par' = par
    PROVE  /\ ctl' \in [Controllers -> CtlType]
           /\ spent' \in [Controllers -> Nat]
           /\ OutputLimited' /\ WindupBounded'
<1> DEFINE k == Stepped(par[c], ctl[c], err, d)
           s == Spent(par[c], ctl[c], spent[c], err)
<1>1. par[c] \in Row /\ ctl[c] \in CtlType /\ spent[c] \in Nat
      /\ ctl \in [Controllers -> CtlType] /\ spent \in [Controllers -> Nat]
    BY DEF IInv, TypeOK, CtlType
<1>2. par[c].Integrate_Limit_Flag =>
        Abs(ctl[c].Integrate) + spent[c] <= par[c].Integrate_Max
    BY DEF IInv, WindupBounded
<1>3. /\ k \in CtlType
      /\ k.Integrate = Integral(par[c], ctl[c].Integrate, Increment(par[c], err))
      /\ Abs(k.Control_OutPut) <= par[c].Control_OutPut_Limit
      /\ k.Last_Control_OutPut = ctl[c].Control_OutPut
    BY <1>1, SteppedSafe
<1>4. /\ s \in Nat
      /\ par[c].Integrate_Limit_Flag => Abs(k.Integrate) + s <= par[c].Integrate_Max
    BY <1>1, <1>2, <1>3, SpentSafe
<1>5. ctl' = [ctl EXCEPT ![c] = k] /\ spent' = [spent EXCEPT ![c] = s]
    OBVIOUS
<1> HIDE DEF k, s
<1>6. OutputLimited'
    BY <1>1, <1>3, <1>5 DEF IInv, OutputLimited
<1>7. WindupBounded'
    BY <1>1, <1>4, <1>5 DEF IInv, WindupBounded
<1> QED BY <1>1, <1>3, <1>4, <1>5, <1>6, <1>7

\* One step of PID_Control or PID_Control_Yaw on any controller.
LEMMA PlainStep ==
    ASSUME IInv, NEW c \in Controllers, NEW e \in Int, NEW f \in Int,
           PID_Control(c, e, f), Yaw' \in Int
    PROVE  IInv'
<1>1. par[c] \in Row /\ ctl[c] \in CtlType
    BY DEF IInv, TypeOK, CtlType
<1>2. Error(par[c], e, f) \in Int
    BY <1>1, PieceTypes
<1>3. Error(par[c], e, f) - ctl[c].Err \in Int
    BY <1>1, <1>2 DEF CtlType
<1>4. /\ ctl' = [ctl EXCEPT ![c] = Stepped(par[c], ctl[c], Error(par[c], e, f),
                                    Error(par[c], e, f) - ctl[c].Err)]
      /\ spent' = [spent EXCEPT ![c] =
                    Spent(par[c], ctl[c], spent[c], Error(par[c], e, f))]
      /\ par' = par /\ dis' = dis /\ inited' = inited /\ jump' = jump
    BY DEF PID_Control
<1>5. /\ ctl' \in [Controllers -> CtlType] /\ spent' \in [Controllers -> Nat]
      /\ OutputLimited' /\ WindupBounded'
    BY <1>2, <1>3, <1>4, ControllerStep
<1>6. TypeOK'
    BY <1>4, <1>5 DEF IInv, TypeOK, CtlType
<1>7. SpikeHeld'
    BY <1>4 DEF IInv, SpikeHeld
<1> QED BY <1>5, <1>6, <1>7 DEF IInv

LEMMA NextIInv == IInv /\ [Next]_vars => IInv'
<1> SUFFICES ASSUME IInv, [Next]_vars PROVE IInv'
    OBVIOUS
<1>1. CASE Total_PID_Init
    <2>1. \A c \in Controllers : PID_Init(c) \in Row
        BY TableAssumption DEF PID_Init
    <2>2. ZeroCtl \in CtlType /\ ZeroCtl.Control_OutPut = 0
          /\ ZeroCtl.Last_Control_OutPut = 0 /\ ZeroCtl.Integrate = 0
        BY DEF ZeroCtl, CtlType
    <2>3. TypeOK'
        BY <1>1, <2>1, <2>2 DEF Total_PID_Init, IInv, TypeOK, CtlType
    <2>4. OutputLimited' /\ WindupBounded'
        <3> SUFFICES ASSUME NEW c \in Controllers
                     PROVE  /\ ctl'[c] = ZeroCtl /\ spent'[c] = 0
                            /\ par'[c].Control_OutPut_Limit \in Nat
                            /\ par'[c].Integrate_Max \in Nat
            BY <2>2 DEF OutputLimited, WindupBounded, Abs
        <3>1. PID_Init(c) \in Row
            BY <2>1
        <3> QED BY <1>1, <3>1 DEF Total_PID_Init, Row
    <2>5. SpikeHeld'
        BY <1>1 DEF Total_PID_Init, IInv, SpikeHeld
    <2> QED BY <2>3, <2>4, <2>5 DEF IInv
<1>2. CASE Depth_PID_Control
    <2>1. PICK e \in Expects["High_Position"], f \in FeedBacks["High_Position"] :
                PID_Control("High_Position", e, f)
        BY <1>2 DEF Depth_PID_Control
    <2>2. "High_Position" \in Controllers /\ e \in Int /\ f \in Int
          /\ Yaw' \in Int
        BY <1>2, InputsAssumption DEF Depth_PID_Control, IInv, TypeOK
    <2> QED BY <2>1, <2>2, PlainStep
<1>3. CASE Angle_Control
    <2>1. PICK e \in Expects["Yaw_Angle"], y \in FeedBacks["Yaw_Angle"] :
                /\ Yaw' = Compensated(y)
                /\ PID_Control("Yaw_Angle", e, Yaw')
        BY <1>3 DEF Angle_Control
    <2>2. "Yaw_Angle" \in Controllers /\ e \in Int /\ y \in Int /\ Yaw \in Int
        BY <1>3, InputsAssumption DEF Angle_Control, IInv, TypeOK
    <2>3. Yaw' \in Int
        BY <2>1, <2>2 DEF Compensated
    <2> QED BY <2>1, <2>2, <2>3, PlainStep
<1>4. CASE PID_Control_Div_LPF
    <2> DEFINE c == "Yaw_Gyro"
    <2>1. PICK e \in Expects["Yaw_Gyro"], f \in FeedBacks["Yaw_Gyro"] :
            LET raw == (e - f) - ctl[c].Err
                err == Error(par[c], e, f)
                d == Filtered(dis[c], raw)
            IN  /\ dis' = [dis EXCEPT ![c] = d]
                /\ ctl' = [ctl EXCEPT ![c] = Stepped(par[c], ctl[c], err, d.History[1])]
                /\ spent' = [spent EXCEPT ![c] = Spent(par[c], ctl[c], spent[c], err)]
                /\ jump' = [a |-> dis[c].Pre_Last, b |-> dis[c].Last, c |-> raw,
                            out |-> d.Last]
        BY <1>4 DEF PID_Control_Div_LPF
    <2> DEFINE raw == (e - f) - ctl[c].Err
               err == Error(par[c], e, f)
               d == Filtered(dis[c], raw)
    <2>2. c \in Controllers /\ e \in Int /\ f \in Int
          /\ par' = par /\ Yaw' = Yaw /\ inited' = inited
        BY <1>4, InputsAssumption DEF PID_Control_Div_LPF
    <2>3. par[c] \in Row /\ ctl[c] \in CtlType /\ dis[c] \in DisType
          /\ Len(dis[c].History) = 5
        BY <2>2 DEF IInv, TypeOK, CtlType, DisType
    <2>4. raw \in Int /\ err \in Int
        <3>1. ctl[c].Err \in Int
            BY <2>3 DEF CtlType
        <3>2. err \in Int
            BY <2>2, <2>3, PieceTypes
        <3> QED BY <2>2, <3>1, <3>2
    <2> HIDE DEF raw
    <2>5. d \in DisType /\ Len(d.History) = 5 /\ d.History[1] \in Int
          /\ d.Last = Middle(dis[c].Pre_Last, dis[c].Last, raw)
        BY <2>3, <2>4, FilteredType
    <2> HIDE DEF d, err
    <2>6. /\ dis' = [dis EXCEPT ![c] = d]
          /\ ctl' = [ctl EXCEPT ![c] = Stepped(par[c], ctl[c], err, d.History[1])]
          /\ spent' = [spent EXCEPT ![c] = Spent(par[c], ctl[c], spent[c], err)]
          /\ jump' = [a |-> dis[c].Pre_Last, b |-> dis[c].Last, c |-> raw,
                      out |-> d.Last]
        BY <2>1 DEF raw, err, d
    <2>7. /\ ctl' \in [Controllers -> CtlType] /\ spent' \in [Controllers -> Nat]
          /\ OutputLimited' /\ WindupBounded'
        BY <2>2, <2>4, <2>5, <2>6, ControllerStep
    <2>8. dis[c].Pre_Last \in Int /\ dis[c].Last \in Int /\ d.Last \in Int
        BY <2>3, <2>5 DEF DisType
    <2>9. dis' \in [Controllers -> DisType]
          /\ \A x \in Controllers : Len(dis'[x].History) = 5
        BY <2>2, <2>5, <2>6 DEF IInv, TypeOK, DisType
    <2>10. TypeOK'
        BY <2>2, <2>4, <2>6, <2>7, <2>8, <2>9 DEF IInv, TypeOK, CtlType, DisType
    <2>11. SpikeHeld'
        <3>1. jump'.a = dis[c].Pre_Last /\ jump'.b = dis[c].Last
              /\ jump'.out = Middle(dis[c].Pre_Last, dis[c].Last, raw)
            BY <2>5, <2>6
        <3> DEFINE a == dis[c].Pre_Last
                   b == dis[c].Last
        <3>2. a # b => /\ Middle(a, b, raw) >= Min3(a, b, b)
                       /\ Middle(a, b, raw) <= Max3(a, b, b)
            BY <2>4, <2>8, MiddleHeld
        <3> QED BY <3>1, <3>2 DEF SpikeHeld
    <2> QED BY <2>7, <2>10, <2>11 DEF IInv
<1>5. CASE UNCHANGED vars
    BY <1>5 DEF vars, IInv, TypeOK, OutputLimited, WindupBounded, SpikeHeld
<1> QED BY <1>1, <1>2, <1>3, <1>4, <1>5 DEF Next

----------------------------------------------------------------------------
\* The controllers keep their types, whatever they are fed.
THEOREM TypeCorrect == Spec => []TypeOK
<1>1. Spec => []IInv
    BY InitIInv, NextIInv, PTL DEF Spec
<1> QED BY <1>1, PTL DEF IInv

\* PID_Control and its variants: no output ever leaves its limit.
THEOREM OutputSafe == Spec => []OutputLimited
<1>1. Spec => []IInv
    BY InitIInv, NextIInv, PTL DEF Spec
<1> QED BY <1>1, PTL DEF IInv

\* The integral limit bounds how long a windup can resist a reversed error.
THEOREM WindupSafe == Spec => []WindupBounded
<1>1. Spec => []IInv
    BY InitIInv, NextIInv, PTL DEF Spec
<1> QED BY <1>1, PTL DEF IInv

\* PID_Control_Div_LPF: a spike never passes between two different kept values.
THEOREM SpikeSafe == Spec => []SpikeHeld
<1>1. Spec => []IInv
    BY InitIInv, NextIInv, PTL DEF Spec
<1> QED BY <1>1, PTL DEF IInv
=============================================================================
