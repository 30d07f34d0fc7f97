-------------------------- MODULE PropellerProofs --------------------------
(***************************************************************************)
(* What Propeller guarantees for every vehicle mode, every set of limits,  *)
(* every stick and every depth.                                            *)
(***************************************************************************)
EXTENDS Propeller, FiniteSetTheorems, TLAPS

USE DEF UNLOCK, LOCK

----------------------------------------------------------------------------
(* Lemmas about the operators *)

\* A truncated quotient is an integer (the (short) conversions of Control.c).
LEMMA TruncationsType ==
    ASSUME NEW n \in Int, NEW d \in Nat \ {0}
    PROVE  Truncations(n, d) \subseteq Int
<1>1. Abs(n) \in Nat
  BY DEF Abs
<1>2. Abs(n) \div d \in Nat
  BY <1>1
<1> QED
  BY <1>2 DEF Truncations, Sign

\* The mixed speeds are integers (left_speed, right_speed of FourtAxis_Control).
LEMMA SpeedsType ==
    ASSUME NEW p \in Horizontal, NEW x \in Int, NEW y \in Int
    PROVE  Speeds(p, x, y) \subseteq Int
<1>1. \A n \in Int, r \in Int : RootQuotient(n, r) \in Nat
  <2> SUFFICES ASSUME NEW n \in Int, NEW r \in Int
               PROVE  RootQuotient(n, r) \in Nat
    OBVIOUS
  <2>1. IsFiniteSet(1..MaxSpeed)
    <3>1. 1 \in Int /\ MaxSpeed \in Int
      BY DEF MaxSpeed
    <3> QED
      BY <3>1, FS_Interval
  <2>2. IsFiniteSet({k \in 1..MaxSpeed : k * k * r <= n * n})
    BY <2>1, FS_Subset
  <2> QED
    BY <2>2, FS_CardinalityType DEF RootQuotient
<1>2. Abs(x) * x \in Int /\ Abs(y) * y \in Int /\ x * x + y * y \in Int
  BY DEF Abs
<1>3. Mixed(p, x, y) \in Int
  BY <1>2 DEF Mixed
<1>4. (IF x * x + y * y = 0 THEN 0
        ELSE RootQuotient(Mixed(p, x, y), x * x + y * y)) \in Nat
  BY <1>1, <1>2, <1>3
<1> QED
  BY <1>3, <1>4 DEF Speeds, Sign

\* The thrust asked of a propeller is an integer.
LEMMA ThrustsType ==
    ASSUME NEW p \in Horizontal, NEW x \in Int, NEW y \in Int,
           NEW power \in 0..255, NEW t \in Thrusts(p, x, y, power)
    PROVE  t \in Int
<1>1. PICK s \in Speeds(p, x, y) : t \in Truncations(power * s, 80)
  BY DEF Thrusts
<1>2. s \in Int
  BY SpeedsType
<1>3. power * s \in Int
  BY <1>2
<1> QED
  BY <1>1, <1>3, TruncationsType

\* Speed_Buffer leaves the thrust within BufferRange - 1 of the value it
\* remembers, and both within that distance of the value remembered before.
LEMMA SpeedBufferBounds ==
    ASSUME NEW now \in Int, NEW lst \in Int
    PROVE  LET b == Speed_Buffer(now, lst)
           IN  /\ b.now \in Int /\ b.last \in Int
               /\ b.last - 3 <= b.now /\ b.now <= b.last + 3
               /\ lst - 3 <= b.now /\ b.now <= lst + 3
BY DEF Speed_Buffer, Abs, BufferRange, STEP_VALUE

\* Clamp returns a value between its bounds.
LEMMA ClampBounds ==
    ASSUME NEW v \in Int, NEW lo \in Int, NEW hi \in Int, lo <= hi
    PROVE  Clamp(v, lo, hi) \in lo..hi
BY DEF Clamp

\* It returns more than it was given only at the lower bound.
LEMMA ClampRaises ==
    ASSUME NEW v \in Int, NEW lo \in Int, NEW hi \in Int
    PROVE  Clamp(v, lo, hi) <= v \/ Clamp(v, lo, hi) = lo
BY DEF Clamp

\* The asked depth, absorbed.
LEMMA AbsorbedBounds ==
    ASSUME NEW e \in Int
    PROVE  Absorbed(e) \in Int /\ (Absorbed(e) <= e \/ Absorbed(e) <= 0)
<1>1. -RiseBound \in Int /\ -RiseBound <= DiveBound /\ DiveBound \in Int /\ -RiseBound <= 0
  BY LimitAssumption
<1>2. Absorbed(e) \in -RiseBound..DiveBound
  BY <1>1, ClampBounds DEF Absorbed
<1>3. Absorbed(e) <= e \/ Absorbed(e) = -RiseBound
  BY <1>1, ClampRaises DEF Absorbed
<1> QED
  BY <1>1, <1>2, <1>3

\* Limiting never moves two thrusts further apart.
LEMMA LimitContracts ==
    ASSUME NEW a \in Int, NEW b \in Int, NEW n \in Nat,
           a - b <= n, b - a <= n
    PROVE  /\ Propeller_Output_Limit(a) - Propeller_Output_Limit(b) <= n
           /\ Propeller_Output_Limit(b) - Propeller_Output_Limit(a) <= n
BY ParameterAssumption DEF Propeller_Output_Limit, Clamp

\* Limiting keeps the order of two thrusts.
LEMMA LimitMonotone ==
    ASSUME NEW a \in Int, NEW b \in Int, a <= b
    PROVE  Propeller_Output_Limit(a) <= Propeller_Output_Limit(b)
BY ParameterAssumption DEF Propeller_Output_Limit, Clamp

\* A limited thrust is an integer.
LEMMA LimitType ==
    ASSUME NEW a \in Int
    PROVE  Propeller_Output_Limit(a) \in Int
BY ParameterAssumption DEF Propeller_Output_Limit, Clamp

----------------------------------------------------------------------------
(* The inductive invariant *)

\* The output PWM of p lies in the window the speed buffer left around last.
InWindow(p) ==
    /\ Propeller_Output_Limit(last[p] - 3) <= power_test[p] - PowerMed
    /\ power_test[p] - PowerMed <= Propeller_Output_Limit(last[p] + 3)

\* Between FourtAxis_Control and Propeller_Output the new thrust of p is near
\* last, and near the PWM of a previous motion cycle.
Buffered(p) ==
    /\ last[p] - 3 <= PropellerPower[p] /\ PropellerPower[p] <= last[p] + 3
    /\ prevRan =>
         /\ Propeller_Output_Limit(PropellerPower[p]) + PowerMed
                - power_test[p] <= 6
         /\ power_test[p] - PowerMed
                - Propeller_Output_Limit(PropellerPower[p]) <= 6

SlewInv ==
    /\ pc \in {"ConvertX", "ConvertY", "ConvertZ", "CheckAgain", "FourtAxis"} => ~ran
    /\ pc \notin {"Depth", "Output"} /\ prevRan => \A p \in Horizontal : InWindow(p)
    /\ pc \in {"Depth", "Output"} /\ ran => \A p \in Horizontal : Buffered(p)

\* After an output under a standing lock the thread can only be on the
\* stopping path, with all thrusts zero until they are output.
LockInv ==
    cmd.All_Lock # UNLOCK /\ sinceLock >= 1 =>
        /\ pc \in {"CheckLock", "CheckAgain", "Output"}
        /\ pc # "CheckLock" => \A p \in Propellers : PropellerPower[p] = 0
        /\ sinceLock = 2 => \A p \in Propellers : power_test[p] = PowerMed

\* An output below the limit means the asked depth was within reach of the
\* depth it was computed from.
DepthInv ==
    TotalPidInit =>
        \E d \in Depths :
            /\ Expect_Depth <= 100 * d + 200 * DepthOutLimit + 127
            /\ Control_OutPut < 200 * DepthOutLimit =>
                    Expect_Depth <= 100 * d + 200 * DepthOutLimit

IInv == SlewInv /\ LockInv /\ DepthInv /\ PwmWithinLimits

----------------------------------------------------------------------------
(* Type correctness *)

\* Every variable keeps its type in every behaviour of propeller_thread and
\* the threads that write under it.
THEOREM TypeCorrect == Spec => []TypeOK
<1>1. Init => TypeOK
  <2> SUFFICES ASSUME Init PROVE TypeOK
    OBVIOUS
  <2>1. PICK m \in StickBytes["Move"], t \in StickBytes["Translation"],
             v \in StickBytes["Vertical"], w \in StickBytes["Power"] :
            cmd = [All_Lock |-> 0, Move |-> m, Translation |-> t,
                   Vertical |-> v, Power |-> w]
    BY DEF Init
  <2>2. m \in 0..255 /\ t \in 0..255 /\ v \in 0..255 /\ w \in 0..255
    BY DivesAssumption DEF Init, StickFields
  <2>3. cmd \in [StickFields \cup {"All_Lock"} -> 0..255]
    BY <2>1, <2>2 DEF StickFields
  <2>4. Rocker \in [X : -126..129, Y : -128..127, Z : -127..128]
    BY DEF Init
  <2>5. /\ PropellerPower \in [Propellers -> Int]
        /\ last \in [Horizontal -> Int]
        /\ power_test \in [Propellers -> Int]
    BY DEF Init
  <2>6. pc \in PCs /\ ran \in BOOLEAN /\ prevRan \in BOOLEAN
    BY DEF Init, PCs
  <2>7. Expect_Depth \in Int /\ Control_OutPut \in Int /\ sinceLock \in 0..2
    BY DEF Init
  <2>8. Depth \in Depths
    BY DivesAssumption DEF Init
  <2> QED
    BY <2>3, <2>4, <2>5, <2>6, <2>7, <2>8, DivesAssumption DEF Init, TypeOK
<1>2. TypeOK /\ [Next]_vars => TypeOK'
  <2> SUFFICES ASSUME TypeOK, [Next]_vars PROVE TypeOK'
    OBVIOUS
  <2>0. StickBytes' = StickBytes /\ Depths' = Depths
    BY DEF Next, propeller_thread, surroundings, dive, vars
  <2> USE <2>0
  <2>1. CASE Propeller_Init
    BY <2>1 DEF Propeller_Init, TypeOK, PCs, hist
  <2>2. CASE CheckLock
    <3>1. PropellerPower' \in [Propellers -> Int]
      BY <2>2 DEF CheckLock, Propeller_Stop, TypeOK
    <3>2. pc' \in PCs
      BY <2>2 DEF CheckLock, PCs
    <3> QED
      BY <2>2, <3>1, <3>2 DEF CheckLock, TypeOK
  <2>3. CASE Convert_RockerValue
    <3>1. cmd["Move"] \in 0..255 /\ cmd["Translation"] \in 0..255
            /\ cmd["Vertical"] \in 0..255
      BY DEF TypeOK, StickFields
    <3>2. Rocker' \in [X : -126..129, Y : -128..127, Z : -127..128]
      <4>1. RockerX \in -126..129 /\ RockerY \in -128..127 /\ RockerZ \in -127..128
        BY <3>1 DEF RockerX, RockerY, RockerZ
      <4>2. Rocker \in [X : -126..129, Y : -128..127, Z : -127..128]
        BY DEF TypeOK
      <4>3. \/ Rocker' = [Rocker EXCEPT !.X = RockerX] \/ Rocker' = Rocker
            \/ Rocker' = [Rocker EXCEPT !.Y = RockerY]
            \/ Rocker' = [Rocker EXCEPT !.Z = RockerZ]
        BY <2>3 DEF Convert_RockerValue
      <4> QED BY <4>1, <4>2, <4>3
    <3> QED
      BY <2>3, <3>2 DEF Convert_RockerValue, TypeOK, PCs, hist
  <2>4. CASE CheckAgain
    BY <2>4, ModeAssumption DEF CheckAgain, TypeOK, PCs, hist
  <2>5. CASE FourtAxis_Control
    <3>1. PICK l \in Thrusts("leftDown", Rocker.X, Rocker.Y, cmd.Power),
               r \in Thrusts("rightDown", Rocker.X, Rocker.Y, cmd.Power) :
            /\ PropellerPower' = [PropellerPower EXCEPT
                    !["leftDown"] = Speed_Buffer(l, last["leftDown"]).now,
                    !["rightDown"] = Speed_Buffer(r, last["rightDown"]).now]
            /\ last' = [last EXCEPT
                    !["leftDown"] = Speed_Buffer(l, last["leftDown"]).last,
                    !["rightDown"] = Speed_Buffer(r, last["rightDown"]).last]
      BY <2>5 DEF FourtAxis_Control
    <3>2. l \in Int /\ r \in Int
      <4>1. Rocker.X \in Int /\ Rocker.Y \in Int /\ cmd.Power \in 0..255
        BY DEF TypeOK, StickFields
      <4>2. "leftDown" \in Horizontal /\ "rightDown" \in Horizontal
        BY DEF Horizontal
      <4> QED
        BY <4>1, <4>2, ThrustsType
    <3>3. last["leftDown"] \in Int /\ last["rightDown"] \in Int
      BY DEF TypeOK, Horizontal
    <3>4. /\ Speed_Buffer(l, last["leftDown"]).now \in Int
          /\ Speed_Buffer(l, last["leftDown"]).last \in Int
          /\ Speed_Buffer(r, last["rightDown"]).now \in Int
          /\ Speed_Buffer(r, last["rightDown"]).last \in Int
      BY <3>2, <3>3, SpeedBufferBounds
    <3>5. PropellerPower' \in [Propellers -> Int] /\ last' \in [Horizontal -> Int]
      BY <3>1, <3>4 DEF TypeOK
    <3> QED
      BY <2>5, <3>5 DEF FourtAxis_Control, TypeOK, PCs
  <2>6. CASE ROV_Depth_Control
    <3>0. NewExpect(Rocker.Z) \in Int
      BY DEF NewExpect, TypeOK
    <3>1. Expect_Depth' \in Int
      BY <2>6, <3>0, AbsorbedBounds DEF ROV_Depth_Control
    <3>2. Control_OutPut' \in Int
      BY <2>6, <3>1, LimitAssumption
      DEF ROV_Depth_Control, Depth_PID, Clamp, PidOutLimit, TypeOK
    <3>3. PropellerPower' \in [Propellers -> Int]
      <4>1. -Control_OutPut' \in Int /\ 200 \in Nat \ {0}
        BY <3>2
      <4>2. Truncations(-Control_OutPut', 200) \subseteq Int
        BY <4>1, TruncationsType
      <4> QED
        BY <2>6, <4>2 DEF ROV_Depth_Control, TypeOK
    <3> QED
      BY <2>6, <3>1, <3>2, <3>3 DEF ROV_Depth_Control, TypeOK, PCs, hist
  <2>7. CASE Propeller_Output
    <3>1. PropellerPower' \in [Propellers -> Int]
      BY <2>7, ParameterAssumption
      DEF Propeller_Output, Propeller_Output_Limit, Clamp, TypeOK
    <3>2. power_test' \in [Propellers -> Int]
      BY <2>7, <3>1, ParameterAssumption DEF Propeller_Output
    <3> QED
      BY <2>7, <3>1, <3>2 DEF Propeller_Output, TypeOK, PCs
  <2>8. ASSUME NEW f \in StickFields, RecvStick(f)
        PROVE  TypeOK'
    <3>1. PICK v \in StickBytes[f] : cmd' = [cmd EXCEPT ![f] = v]
      BY <2>8 DEF RecvStick
    <3>2. v \in 0..255
      BY DEF TypeOK
    <3> QED
      BY <2>8, <3>1, <3>2 DEF RecvStick, TypeOK, hist
  <2>9. CASE RecvLock
    BY <2>9 DEF RecvLock, TypeOK
  <2>10. CASE SensorDepth
    BY <2>10 DEF SensorDepth, TypeOK, hist
  <2>11. CASE UNCHANGED vars
    BY <2>11 DEF vars, TypeOK
  <2> QED
    BY <2>1, <2>2, <2>3, <2>4, <2>5, <2>6, <2>7, <2>8, <2>9, <2>10, <2>11
    DEF Next, propeller_thread, surroundings
<1> QED
  BY <1>1, <1>2, PTL DEF Spec

----------------------------------------------------------------------------
(* The invariant is inductive: one lemma per part *)

\* PWM counts stay within the limits.
LEMMA PwmStep ==
    ASSUME TypeOK, PwmWithinLimits, [Next]_vars
    PROVE  PwmWithinLimits'
<1>1. CASE Propeller_Output
  <2>1. \A p \in Propellers :
            Propeller_Output_Limit(PropellerPower[p])
                \in (PowerMin - PowerMed)..(PowerMax - PowerMed)
    BY ParameterAssumption DEF Propeller_Output_Limit, Clamp, TypeOK
  <2>2. \A p \in Propellers :
            power_test'[p] = PowerMed + Propeller_Output_Limit(PropellerPower[p])
    BY <1>1 DEF Propeller_Output
  <2>3. \A p \in Propellers : power_test'[p] \in PowerMin..PowerMax
    BY <2>1, <2>2, ParameterAssumption
  <2> QED
    BY <2>3 DEF PwmWithinLimits
<1>2. CASE ~Propeller_Output
  <2>1. power_test' = power_test
    BY <1>2 DEF Next, propeller_thread, surroundings, Propeller_Init, CheckLock,
        Convert_RockerValue, CheckAgain, FourtAxis_Control,
        ROV_Depth_Control, RecvStick, RecvLock, SensorDepth, vars
  <2> QED
    BY <2>1 DEF PwmWithinLimits
<1> QED
  BY <1>1, <1>2

\* A standing lock keeps the thread on the stopping path.
LEMMA LockStep ==
    ASSUME TypeOK, LockInv, [Next]_vars
    PROVE  LockInv'
<1>1. CASE CheckLock
  BY <1>1 DEF CheckLock, Propeller_Stop, LockInv
<1>2. CASE CheckAgain
  <2>1. /\ cmd' = cmd /\ sinceLock' = sinceLock
        /\ PropellerPower' = PropellerPower /\ power_test' = power_test
    BY <1>2 DEF CheckAgain, hist
  <2>2. cmd.All_Lock # UNLOCK => pc = "CheckAgain" /\ pc' = "Output"
    BY <1>2 DEF CheckAgain
  <2> QED
    BY <2>1, <2>2 DEF LockInv
<1>3. CASE Propeller_Output
  <2> SUFFICES ASSUME cmd.All_Lock # UNLOCK
               PROVE  LockInv'
    BY <1>3 DEF Propeller_Output, LockInv
  <2>1. pc' = "CheckLock"
    BY <1>3 DEF Propeller_Output
  <2>2. ASSUME sinceLock' = 2, NEW p \in Propellers
        PROVE  power_test'[p] = PowerMed
    <3>1. sinceLock >= 1
      BY <1>3, <2>2 DEF Propeller_Output, TypeOK
    <3>2. PropellerPower[p] = 0
      BY <1>3, <3>1 DEF Propeller_Output, LockInv
    <3>3. Propeller_Output_Limit(0) = 0
      BY ParameterAssumption DEF Propeller_Output_Limit, Clamp
    <3>4. power_test'[p] = PowerMed + Propeller_Output_Limit(PropellerPower[p])
      BY <1>3 DEF Propeller_Output
    <3> QED
      BY <3>2, <3>3, <3>4, ParameterAssumption
  <2> QED
    BY <2>1, <2>2 DEF LockInv
<1>4. CASE RecvLock
  <2>1. sinceLock' = 0
    BY <1>4 DEF RecvLock
  <2> QED
    BY <2>1 DEF LockInv
<1>5. ASSUME NEW f \in StickFields, RecvStick(f)
      PROVE  LockInv'
  <2>1. cmd'.All_Lock = cmd.All_Lock
    BY <1>5 DEF RecvStick, StickFields, TypeOK
  <2> QED
    BY <1>5, <2>1 DEF RecvStick, LockInv, hist
<1>6. CASE SensorDepth
  BY <1>6 DEF SensorDepth, LockInv, hist
<1>7. CASE Propeller_Init \/ Convert_RockerValue \/ FourtAxis_Control
              \/ ROV_Depth_Control
  <2>1. pc \notin {"CheckLock", "CheckAgain", "Output"}
    BY <1>7 DEF Propeller_Init, Convert_RockerValue, FourtAxis_Control,
        ROV_Depth_Control
  <2>2. cmd' = cmd /\ sinceLock' = sinceLock
    BY <1>7 DEF Propeller_Init, Convert_RockerValue, FourtAxis_Control,
        ROV_Depth_Control, hist
  <2> QED
    BY <2>1, <2>2 DEF LockInv
<1>8. CASE UNCHANGED vars
  BY <1>8 DEF vars, LockInv
<1> QED
  BY <1>1, <1>2, <1>3, <1>4, <1>5, <1>6, <1>7, <1>8 DEF Next, propeller_thread, surroundings

\* An output below the limit comes from a depth within reach of the measured one.
LEMMA PidReach ==
    ASSUME TotalPidInit, NEW e \in Int, NEW d \in Int,
           Depth_PID(e, d) < 200 * DepthOutLimit
    PROVE  e <= 100 * d + 200 * DepthOutLimit
<1>1. 200 * DepthOutLimit \in Nat /\ 200 * DepthOutLimit <= 800000
  BY LimitAssumption
<1> QED
  BY <1>1 DEF Depth_PID, Clamp, PidOutLimit

\* The asked depth stays within reach of the controller.
LEMMA DepthStep ==
    ASSUME TypeOK, DepthInv, [Next]_vars
    PROVE  DepthInv'
<1>0. UNCHANGED dive
  BY DEF Next, propeller_thread, surroundings, vars, dive
<1>1. CASE ROV_Depth_Control
  <2> SUFFICES ASSUME TotalPidInit PROVE DepthInv'
    BY DEF DepthInv
  <2> DEFINE L == 200 * DepthOutLimit
  <2>0. L \in Nat /\ L <= 800000
    BY LimitAssumption
  <2>1. PICK d \in Depths : /\ Expect_Depth <= 100 * d + L + 127
                            /\ Control_OutPut < L => Expect_Depth <= 100 * d + L
    BY DEF DepthInv
  <2>2. /\ d \in Int /\ Depth \in Int /\ Depth \in Depths
        /\ Expect_Depth \in Int /\ Control_OutPut \in Int
        /\ Rocker.Z \in -127..128
    BY DEF TypeOK
  <2>3. NewExpect(Rocker.Z) \in Int /\ NewExpect(Rocker.Z) <= 100 * d + L + 127
    BY <2>0, <2>1, <2>2 DEF NewExpect
  <2>4. Expect_Depth' \in Int
    BY <1>1, <2>3, AbsorbedBounds DEF ROV_Depth_Control
  <2>9. Expect_Depth' <= NewExpect(Rocker.Z) \/ Expect_Depth' <= 0
    BY <1>1, <2>3, AbsorbedBounds DEF ROV_Depth_Control
  <2>5. Control_OutPut' = Depth_PID(Expect_Depth', Depth)
    BY <1>1 DEF ROV_Depth_Control
  <2>6. Control_OutPut' < L => Expect_Depth' <= 100 * Depth + L
    BY <2>2, <2>4, <2>5, PidReach
  <2>7. CASE Control_OutPut' < L
    BY <1>0, <2>0, <2>2, <2>4, <2>6, <2>7 DEF DepthInv, dive
  <2>8. CASE ~(Control_OutPut' < L)
    <3>1. Expect_Depth' <= 100 * d + L + 127 \/ Expect_Depth' <= 100 * 0 + L + 127
      BY <2>0, <2>2, <2>3, <2>4, <2>9
    <3> QED
      BY <1>0, <2>8, <3>1 DEF DepthInv, dive, TypeOK
  <2> QED
    BY <2>7, <2>8
<1>2. CASE ~ROV_Depth_Control
  <2>1. Expect_Depth' = Expect_Depth /\ Control_OutPut' = Control_OutPut
    BY <1>2 DEF Next, propeller_thread, surroundings, Propeller_Init, CheckLock,
        Convert_RockerValue, CheckAgain, FourtAxis_Control,
        Propeller_Output, RecvStick, RecvLock, SensorDepth, vars
  <2> QED
    BY <1>0, <2>1 DEF DepthInv, dive
<1> QED
  BY <1>1, <1>2

\* The speed buffer keeps thrust, memory and output together.
LEMMA SlewInvStep ==
    ASSUME TypeOK, SlewInv, [Next]_vars
    PROVE  SlewInv'
<1>0. \A p \in Horizontal : /\ p \in Propellers /\ last[p] \in Int
                            /\ power_test[p] \in Int /\ PropellerPower[p] \in Int
  BY DEF TypeOK, Propellers
<1>1. CASE CheckLock
  <2>1. last' = last /\ power_test' = power_test /\ prevRan' = prevRan
    BY <1>1 DEF CheckLock
  <2>2. pc = "CheckLock" /\ ran' = FALSE
    BY <1>1 DEF CheckLock
  <2>3. \A p \in Horizontal : InWindow(p) => InWindow(p)'
    BY <2>1 DEF InWindow
  <2> QED
    BY <2>1, <2>2, <2>3 DEF SlewInv
<1>2. CASE Propeller_Init \/ Convert_RockerValue \/ CheckAgain
  <2>1. /\ last' = last /\ power_test' = power_test
        /\ prevRan' = prevRan /\ ran' = ran
    BY <1>2 DEF Propeller_Init, Convert_RockerValue, CheckAgain, hist
  <2>2. /\ pc \notin {"Depth", "Output"}
        /\ pc' \in {"Depth", "Output"} => pc = "CheckAgain"
        /\ pc' \in {"ConvertX", "ConvertY", "ConvertZ", "CheckAgain", "FourtAxis"}
             => pc \in {"ConvertX", "ConvertY", "ConvertZ", "CheckAgain", "FourtAxis"}
    BY <1>2 DEF Propeller_Init, Convert_RockerValue, CheckAgain
  <2>3. \A p \in Horizontal : InWindow(p) => InWindow(p)'
    BY <2>1 DEF InWindow
  <2> QED
    BY <2>1, <2>2, <2>3 DEF SlewInv
<1>3. CASE FourtAxis_Control
  <2>1. \A p \in Horizontal :
            /\ last'[p] \in Int /\ PropellerPower'[p] \in Int
            /\ last'[p] - 3 <= PropellerPower'[p]
            /\ PropellerPower'[p] <= last'[p] + 3
            /\ last[p] - 3 <= PropellerPower'[p]
            /\ PropellerPower'[p] <= last[p] + 3
    <3>1. PICK l \in Thrusts("leftDown", Rocker.X, Rocker.Y, cmd.Power),
               r \in Thrusts("rightDown", Rocker.X, Rocker.Y, cmd.Power) :
            /\ PropellerPower' = [PropellerPower EXCEPT
                    !["leftDown"] = Speed_Buffer(l, last["leftDown"]).now,
                    !["rightDown"] = Speed_Buffer(r, last["rightDown"]).now]
            /\ last' = [last EXCEPT
                    !["leftDown"] = Speed_Buffer(l, last["leftDown"]).last,
                    !["rightDown"] = Speed_Buffer(r, last["rightDown"]).last]
      BY <1>3 DEF FourtAxis_Control
    <3>2. "leftDown" \in Horizontal /\ "rightDown" \in Horizontal
      BY DEF Horizontal
    <3>3. l \in Int /\ r \in Int
      <4>1. Rocker.X \in Int /\ Rocker.Y \in Int /\ cmd.Power \in 0..255
        BY DEF TypeOK, StickFields
      <4> QED
        BY <4>1, <3>2, ThrustsType
    <3>4. /\ PropellerPower'["leftDown"] = Speed_Buffer(l, last["leftDown"]).now
          /\ last'["leftDown"] = Speed_Buffer(l, last["leftDown"]).last
          /\ PropellerPower'["rightDown"] = Speed_Buffer(r, last["rightDown"]).now
          /\ last'["rightDown"] = Speed_Buffer(r, last["rightDown"]).last
      BY <3>1, <3>2, <1>0 DEF TypeOK, Horizontal
    <3>5. last["leftDown"] \in Int /\ last["rightDown"] \in Int
      BY <3>2, <1>0
    <3>6. \A p \in Horizontal : p = "leftDown" \/ p = "rightDown"
      BY DEF Horizontal
    <3> QED
      BY <3>3, <3>4, <3>5, <3>6, SpeedBufferBounds
  <2>2. pc = "FourtAxis" /\ pc' = "Depth" /\ ran' = TRUE
            /\ prevRan' = prevRan /\ power_test' = power_test
    BY <1>3 DEF FourtAxis_Control
  <2>3. ASSUME NEW p \in Horizontal, prevRan
        PROVE  /\ Propeller_Output_Limit(PropellerPower'[p]) + PowerMed
                    - power_test[p] <= 6
               /\ power_test[p] - PowerMed
                    - Propeller_Output_Limit(PropellerPower'[p]) <= 6
    <3>1. InWindow(p)
      BY <2>2, <2>3 DEF SlewInv
    <3>2. /\ last[p] - 3 \in Int /\ last[p] + 3 \in Int
          /\ PropellerPower'[p] \in Int /\ power_test[p] \in Int
      BY <1>0, <2>1
    <3>3. Propeller_Output_Limit(PropellerPower'[p])
            - Propeller_Output_Limit(last[p] - 3) <= 6
      BY <2>1, <3>2, <1>0, LimitContracts
    <3>4. Propeller_Output_Limit(last[p] + 3)
            - Propeller_Output_Limit(PropellerPower'[p]) <= 6
      BY <2>1, <3>2, <1>0, LimitContracts
    <3>5. /\ Propeller_Output_Limit(PropellerPower'[p]) \in Int
          /\ Propeller_Output_Limit(last[p] - 3) \in Int
          /\ Propeller_Output_Limit(last[p] + 3) \in Int
      BY <3>2, LimitType
    <3> QED
      BY <3>1, <3>2, <3>3, <3>4, <3>5, ParameterAssumption DEF InWindow
  <2>4. \A p \in Horizontal : Buffered(p)'
    BY <2>1, <2>2, <2>3 DEF Buffered
  <2> QED
    BY <2>2, <2>4 DEF SlewInv
<1>4. CASE ROV_Depth_Control
  <2>1. /\ last' = last /\ power_test' = power_test
        /\ prevRan' = prevRan /\ ran' = ran /\ pc = "Depth" /\ pc' = "Output"
    BY <1>4 DEF ROV_Depth_Control, hist
  <2>2. \A p \in Horizontal : PropellerPower'[p] = PropellerPower[p]
    BY <1>4 DEF ROV_Depth_Control, Horizontal, Middle, Propellers
  <2>3. \A p \in Horizontal : Buffered(p) => Buffered(p)'
    BY <2>1, <2>2 DEF Buffered
  <2> QED
    BY <2>1, <2>3 DEF SlewInv
<1>5. CASE Propeller_Output
  <2>1. pc = "Output" /\ pc' = "CheckLock" /\ prevRan' = ran /\ last' = last
    BY <1>5 DEF Propeller_Output
  <2>2. ASSUME ran, NEW p \in Horizontal
        PROVE  InWindow(p)'
    <3>1. Buffered(p)
      BY <2>1, <2>2 DEF SlewInv
    <3>2. power_test'[p] = PowerMed + Propeller_Output_Limit(PropellerPower[p])
      BY <1>0, <1>5 DEF Propeller_Output
    <3>3. /\ Propeller_Output_Limit(last[p] - 3)
                <= Propeller_Output_Limit(PropellerPower[p])
          /\ Propeller_Output_Limit(PropellerPower[p])
                <= Propeller_Output_Limit(last[p] + 3)
      BY <1>0, <3>1, LimitMonotone DEF Buffered
    <3>4. Propeller_Output_Limit(PropellerPower[p]) \in Int
      BY <1>0, LimitType
    <3>5. power_test'[p] - PowerMed = Propeller_Output_Limit(PropellerPower[p])
      BY <3>2, <3>4, ParameterAssumption
    <3> QED
      BY <2>1, <3>3, <3>5 DEF InWindow
  <2> QED
    BY <2>1, <2>2 DEF SlewInv
<1>6. CASE (\E f \in StickFields : RecvStick(f)) \/ RecvLock \/ SensorDepth
              \/ UNCHANGED vars
  <2>1. /\ last' = last /\ power_test' = power_test
        /\ PropellerPower' = PropellerPower
        /\ prevRan' = prevRan /\ ran' = ran /\ pc' = pc
    BY <1>6 DEF RecvStick, RecvLock, SensorDepth, hist, vars
  <2>2. \A p \in Horizontal : /\ InWindow(p) => InWindow(p)'
                              /\ Buffered(p) => Buffered(p)'
    BY <2>1 DEF InWindow, Buffered
  <2> QED
    BY <2>1, <2>2 DEF SlewInv
<1> QED
  BY <1>1, <1>2, <1>3, <1>4, <1>5, <1>6 DEF Next, propeller_thread, surroundings

----------------------------------------------------------------------------
(* Theorems *)

\* IInv holds in every reachable state.
THEOREM Invariance == Spec => [](TypeOK /\ IInv)
<1>1. Init /\ TypeOK => IInv
  <2> SUFFICES ASSUME Init, TypeOK PROVE IInv
    OBVIOUS
  <2>1. SlewInv
    BY DEF Init, SlewInv
  <2>2. LockInv
    BY DEF Init, LockInv
  <2>3. DepthInv
    <3>1. 0 \in Depths /\ Expect_Depth = 0
      BY DEF Init, TypeOK
    <3>2. /\ Expect_Depth <= 100 * 0 + 200 * DepthOutLimit + 127
          /\ Expect_Depth <= 100 * 0 + 200 * DepthOutLimit
      BY <3>1, LimitAssumption
    <3> QED
      BY <3>1, <3>2 DEF DepthInv
  <2>4. PwmWithinLimits
    BY DEF Init, PwmWithinLimits
  <2> QED
    BY <2>1, <2>2, <2>3, <2>4 DEF IInv
<1>2. TypeOK /\ IInv /\ [Next]_vars => IInv'
  BY PwmStep, LockStep, DepthStep, SlewInvStep DEF IInv
<1> QED
  BY <1>1, <1>2, TypeCorrect, PTL DEF Spec

\* Propeller_Output never writes a PWM count outside PowerMin..PowerMax.
THEOREM PwmSafe == Spec => []PwmWithinLimits
<1>1. IInv => PwmWithinLimits
  BY DEF IInv
<1> QED
  BY <1>1, Invariance, PTL

\* A lock takes effect by the second output after it, whatever recv_thread
\* stores between the two reads of All_Lock.
THEOREM LockSafe == Spec => []LockStopsWithinTwoOutputs
<1>1. TypeOK /\ IInv => LockStopsWithinTwoOutputs
  BY DEF IInv, LockInv, LockStopsWithinTwoOutputs
<1> QED
  BY <1>1, Invariance, PTL

\* Diving stops accumulating before the asked depth leaves the controller's
\* reach.
THEOREM DiveSafe == Spec => []DiveWindupBounded
<1>1. IInv => DiveWindupBounded
  BY DEF IInv, DepthInv, DiveWindupBounded
<1> QED
  BY <1>1, Invariance, PTL

\* Consecutive motion outputs of a horizontal propeller are slew limited.
THEOREM SlewSafe == Spec => SlewLimited
<1>1. TypeOK /\ IInv /\ [Next]_vars => [SlewStep]_power_test
  <2> SUFFICES ASSUME TypeOK, IInv, [Next]_vars,
                      power_test' # power_test,
                      pc = "Output", ran, prevRan, NEW p \in Horizontal
               PROVE  Abs(power_test'[p] - power_test[p]) <= 2 * (BufferRange - 1)
    BY DEF SlewStep
  <2>1. Propeller_Output
    BY DEF Next, propeller_thread, surroundings, Propeller_Init, CheckLock,
        Convert_RockerValue, CheckAgain, FourtAxis_Control,
        ROV_Depth_Control, RecvStick, RecvLock, SensorDepth, vars
  <2>2. Buffered(p)
    BY DEF IInv, SlewInv
  <2>3. /\ p \in Propellers /\ power_test[p] \in Int
        /\ PropellerPower[p] \in Int
    BY DEF TypeOK, Propellers
  <2>4. power_test'[p] = PowerMed + Propeller_Output_Limit(PropellerPower[p])
    BY <2>1, <2>3 DEF Propeller_Output
  <2>5. Propeller_Output_Limit(PropellerPower[p]) \in Int
    BY <2>3, LimitType
  <2> QED
    BY <2>2, <2>3, <2>4, <2>5, ParameterAssumption DEF Buffered, Abs, BufferRange
<1> QED
  BY <1>1, Invariance, PTL DEF Spec, SlewLimited

----------------------------------------------------------------------------
(* How soon a standing lock is obeyed *)

\* Steps propeller_thread has left in its cycle, the output included.
StepsAt(at) ==
    CASE at = "Output" -> 1 [] at = "Depth" -> 2 [] at = "FourtAxis" -> 3
      [] at = "CheckAgain" -> 4 [] at = "ConvertZ" -> 5 [] at = "ConvertY" -> 6
      [] at = "ConvertX" -> 7 [] at = "CheckLock" -> 8 [] OTHER -> 9

\* The same up to the second output, when this many outputs are done.
LeftAfter(outputs, at) ==
    IF outputs = 2 THEN 0 ELSE (1 - outputs) * 8 + StepsAt(at)

\* Steps propeller_thread has left until a lock that stands is obeyed.
StopLeft == LeftAfter(sinceLock, pc)

\* Nothing left: every propeller stands still.
StoppedAtZero ==
    /\ StopLeft \in 0..17
    /\ StopLeft = 0 /\ cmd.All_Lock # UNLOCK
            => \A p \in Propellers : power_test[p] = PowerMed

StopStep ==
    cmd'.All_Lock = cmd.All_Lock =>
        /\ StopLeft' <= StopLeft
        /\ propeller_thread => StopLeft' < StopLeft \/ StopLeft = 0

StopSteps == [][StopStep]_vars

LEMMA StepsNumbers ==
    ASSUME NEW at \in PCs
    PROVE  StepsAt(at) \in 1..9 /\ (at = "Output" => StepsAt(at) = 1)
BY DEF PCs, StepsAt

LEMMA LeftNumbers ==
    ASSUME NEW k \in 0..2, NEW at \in PCs
    PROVE  /\ LeftAfter(k, at) \in 0..17
           /\ LeftAfter(k, at) = 0 <=> k = 2
<1> DEFINE n == StepsAt(at)
<1>1. n \in 1..9
  BY StepsNumbers
<1>2. LeftAfter(k, at) = IF k = 2 THEN 0 ELSE (1 - k) * 8 + n
  BY DEF LeftAfter
<1> HIDE DEF n
<1>3. CASE k = 0
  BY <1>1, <1>2, <1>3
<1>4. CASE k = 1
  BY <1>1, <1>2, <1>4
<1>5. CASE k = 2
  BY <1>1, <1>2, <1>5
<1> QED
  BY <1>3, <1>4, <1>5

\* Fewer steps left than before, or none.
Nearer(now, before) == now < before \/ (now = 0 /\ before = 0)

\* A step inside the cycle.
LEMMA LeftForward ==
    ASSUME NEW k \in 0..2, NEW at \in PCs, NEW after \in PCs,
           StepsAt(after) < StepsAt(at)
    PROVE  Nearer(LeftAfter(k, after), LeftAfter(k, at))
<1> DEFINE m == StepsAt(after)
           n == StepsAt(at)
<1>1. m \in 1..9 /\ n \in 1..9 /\ m < n
  BY StepsNumbers
<1>2. /\ LeftAfter(k, at) = IF k = 2 THEN 0 ELSE (1 - k) * 8 + n
      /\ LeftAfter(k, after) = IF k = 2 THEN 0 ELSE (1 - k) * 8 + m
  BY DEF LeftAfter
<1> HIDE DEF m, n
<1>3. CASE k = 0
  BY <1>1, <1>2, <1>3 DEF Nearer
<1>4. CASE k = 1
  BY <1>1, <1>2, <1>4 DEF Nearer
<1>5. CASE k = 2
  BY <1>2, <1>5 DEF Nearer
<1> QED
  BY <1>3, <1>4, <1>5

\* An output.
LEMMA LeftOutput ==
    ASSUME NEW k \in 0..2
    PROVE  Nearer(LeftAfter(IF k < 2 THEN k + 1 ELSE 2, "CheckLock"),
                  LeftAfter(k, "Output"))
<1>1. StepsAt("Output") = 1 /\ StepsAt("CheckLock") = 8
  BY DEF StepsAt
<1>2. CASE k = 0
  BY <1>1, <1>2 DEF LeftAfter, Nearer
<1>3. CASE k = 1
  BY <1>1, <1>3 DEF LeftAfter, Nearer
<1>4. CASE k = 2
  BY <1>4 DEF LeftAfter, Nearer
<1> QED
  BY <1>2, <1>3, <1>4

\* The thread's steps: one of its cycle, or the output.
LEMMA ThreadSteps ==
    ASSUME TypeOK, propeller_thread
    PROVE  /\ pc \in PCs /\ pc' \in PCs /\ sinceLock \in 0..2
           /\ \/ sinceLock' = sinceLock /\ StepsAt(pc') < StepsAt(pc)
              \/ /\ pc = "Output" /\ pc' = "CheckLock"
                 /\ sinceLock' = IF sinceLock < 2 THEN sinceLock + 1 ELSE 2
<1>1. pc \in PCs /\ sinceLock \in 0..2
  BY DEF TypeOK
<1> DEFINE Moves == {<<"Init", "CheckLock">>, <<"CheckLock", "ConvertX">>,
                     <<"CheckLock", "CheckAgain">>, <<"ConvertX", "ConvertY">>,
                     <<"ConvertX", "CheckAgain">>, <<"ConvertY", "ConvertZ">>,
                     <<"ConvertZ", "CheckAgain">>, <<"CheckAgain", "FourtAxis">>,
                     <<"CheckAgain", "Depth">>, <<"CheckAgain", "Output">>,
                     <<"FourtAxis", "Depth">>, <<"Depth", "Output">>}
<1>2. \A m \in Moves : m[2] \in PCs /\ StepsAt(m[2]) < StepsAt(m[1])
  BY DEF StepsAt, PCs
<1>3. CASE Propeller_Output
  BY <1>1, <1>3 DEF Propeller_Output, PCs
<1>4. CASE ~Propeller_Output
  <2>1. <<pc, pc'>> \in Moves
    BY <1>4 DEF propeller_thread, Propeller_Init, CheckLock, Convert_RockerValue,
        CheckAgain, FourtAxis_Control, ROV_Depth_Control
  <2>2. sinceLock' = sinceLock
    BY <1>4 DEF propeller_thread, Propeller_Init, CheckLock, Convert_RockerValue,
        CheckAgain, FourtAxis_Control, ROV_Depth_Control, hist
  <2> HIDE DEF Moves
  <2> QED
    BY <1>1, <1>2, <2>1, <2>2
<1> QED
  BY <1>3, <1>4

\* The other threads leave the cycle alone, and only a change of All_Lock
\* starts the count again.
LEMMA SurroundingsSteps ==
    ASSUME TypeOK, surroundings, cmd'.All_Lock = cmd.All_Lock
    PROVE  pc' = pc /\ sinceLock' = sinceLock
<1>1. CASE \E f \in StickFields : RecvStick(f)
  BY <1>1 DEF RecvStick, hist
<1>2. CASE RecvLock
  <2>1. PICK v \in {UNLOCK, LOCK} :
            v # cmd.All_Lock /\ cmd' = [cmd EXCEPT !.All_Lock = v]
    BY <1>2 DEF RecvLock
  <2>2. cmd'.All_Lock = v
    BY <2>1 DEF TypeOK
  <2> QED
    BY <2>1, <2>2
<1>3. CASE SensorDepth
  BY <1>3 DEF SensorDepth, hist
<1> QED
  BY <1>1, <1>2, <1>3 DEF surroundings

\* propeller_thread: a lock that stands is obeyed after at most seventeen steps
\* of the thread, its delay at the start and two cycles, whatever the sticks
\* and the depth do meanwhile: what LockEventuallyObeyed says of fair
\* schedules, in numbers.
THEOREM StopBounded == Spec => []StoppedAtZero /\ StopSteps
<1>1. TypeOK /\ IInv => StoppedAtZero
  <2> SUFFICES ASSUME TypeOK, IInv PROVE StoppedAtZero
    OBVIOUS
  <2>1. sinceLock \in 0..2 /\ pc \in PCs
    BY DEF TypeOK
  <2>2. StopLeft \in 0..17 /\ (StopLeft = 0 => sinceLock = 2)
    BY <2>1, LeftNumbers DEF StopLeft
  <2> QED
    BY <2>2 DEF StoppedAtZero, IInv, LockInv
<1>2. TypeOK /\ [Next]_vars => [StopStep]_vars
  <2> SUFFICES ASSUME TypeOK, Next, cmd'.All_Lock = cmd.All_Lock
               PROVE  /\ StopLeft' <= StopLeft
                      /\ propeller_thread => StopLeft' < StopLeft \/ StopLeft = 0
    BY DEF StopStep
  <2> DEFINE left == StopLeft
             after == StopLeft'
  <2>1. sinceLock \in 0..2 /\ pc \in PCs /\ left \in 0..17
    BY LeftNumbers DEF TypeOK, StopLeft
  <2>2. ASSUME propeller_thread
        PROVE  after \in 0..17 /\ Nearer(after, left)
    <3>1. CASE sinceLock' = sinceLock /\ StepsAt(pc') < StepsAt(pc)
      <4>1. pc' \in PCs
        BY <2>2, ThreadSteps
      <4>2. after = LeftAfter(sinceLock, pc')
        BY <3>1 DEF StopLeft
      <4>3. LeftAfter(sinceLock, pc') \in 0..17
        BY <2>1, <4>1, LeftNumbers
      <4>4. Nearer(LeftAfter(sinceLock, pc'), LeftAfter(sinceLock, pc))
        BY <2>1, <3>1, <4>1, LeftForward
      <4> QED
        BY Zenon, <4>2, <4>3, <4>4 DEF StopLeft
    <3>2. CASE /\ pc = "Output" /\ pc' = "CheckLock"
               /\ sinceLock' = IF sinceLock < 2 THEN sinceLock + 1 ELSE 2
      <4> DEFINE k == IF sinceLock < 2 THEN sinceLock + 1 ELSE 2
      <4>1. k \in 0..2 /\ "CheckLock" \in PCs
        BY <2>1 DEF PCs
      <4>2. after = LeftAfter(k, "CheckLock") /\ left = LeftAfter(sinceLock, "Output")
        BY <3>2 DEF StopLeft
      <4>3. LeftAfter(k, "CheckLock") \in 0..17
        BY <4>1, LeftNumbers
      <4>4. Nearer(LeftAfter(k, "CheckLock"), LeftAfter(sinceLock, "Output"))
        BY <2>1, LeftOutput
      <4> QED
        BY Zenon, <4>2, <4>3, <4>4
    <3> QED
      BY <2>2, <3>1, <3>2, ThreadSteps
  <2>3. ASSUME surroundings PROVE after = left
    BY <2>3, SurroundingsSteps DEF StopLeft
  <2>4. ASSUME propeller_thread PROVE after <= left
    <3> HIDE DEF after, left
    <3> QED BY <2>1, <2>2, <2>4 DEF Nearer
  <2>5. ASSUME surroundings PROVE after <= left /\ (propeller_thread => after < left \/ left = 0)
    <3>1. propeller_thread => after < left \/ left = 0
      BY <2>2 DEF Nearer
    <3>2. after <= left
      <4> HIDE DEF after, left
      <4> QED BY <2>1, <2>3, <2>5
    <3> QED BY <3>1, <3>2
  <2> QED
    BY <2>2, <2>4, <2>5 DEF Next, Nearer
<1> QED
  BY <1>1, <1>2, Invariance, PTL DEF Spec, StopSteps
============================================================================
