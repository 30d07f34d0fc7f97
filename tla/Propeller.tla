----------------------------- MODULE Propeller -----------------------------
(***************************************************************************)
(* propeller_thread (user/DeviceThread.c) with everything it calls: rocker *)
(* conversion, four-axis mixing and speed buffer (user/Control.c), depth   *)
(* control, output limit (user/PropellerControl.c), the depth row of the   *)
(* PID table (applications/PID.c) and PWM_Update (applications/            *)
(* pwmDevices.c).  recv_thread rewrites the command it reads at any time,  *)
(* one field at a time and without a lock; the depth sensor thread         *)
(* rewrites the measured depth.                                            *)
(*                                                                         *)
(* Units: Expect_Depth is kept in 1/100 (the code adds Z/100), the PID     *)
(* output in 1/200 (the depth row has Kp = 0.5), so both are integers.     *)
(***************************************************************************)
EXTENDS Integers, FiniteSets

CONSTANTS
    VehicleMode,            \* "FOUR_AXIS" or "SIX_AXIS"
    TotalPidInit,           \* has Total_PID_Init filled the PID table?
    PowerMax, PowerMed, PowerMin,        \* PropellerParameter
    DepthOutLimit,          \* the 300 of robot_upDown and ROV_Depth_Control
    Dives,                  \* what may be sent and measured: see DivesAssumption
    RiseBound, DiveBound    \* where Expect_Depth, a float, no longer changes

StickFields == {"Move", "Translation", "Vertical", "Power"}

ASSUME ModeAssumption == VehicleMode \in {"FOUR_AXIS", "SIX_AXIS"}
ASSUME PidAssumption == TotalPidInit \in BOOLEAN
ASSUME ParameterAssumption ==
    /\ PowerMax \in Int /\ PowerMed \in Int /\ PowerMin \in Int
    /\ PowerMin <= PowerMed /\ PowerMed <= PowerMax
ASSUME LimitAssumption ==
    /\ DepthOutLimit \in 0..4000         \* not above PidOutLimit
    /\ RiseBound \in Nat /\ DiveBound \in Nat
ASSUME DivesAssumption ==
    \A d \in Dives : /\ d.sticks \in [StickFields -> SUBSET (0..255)]
                     /\ d.depths \subseteq Int /\ 0 \in d.depths

UNLOCK == 1
LOCK == 2
BufferRange == 4            \* third argument of Speed_Buffer
STEP_VALUE == 1             \* STEP_VLAUE in the code
PidOutLimit == 4000         \* Control_OutPut_Limit of High_Position

Horizontal == {"leftDown", "rightDown"}
Middle == {"leftMiddle", "rightMiddle"}
Propellers == Horizontal \cup Middle \cup {"leftUp", "rightUp"}

VARIABLES
    StickBytes,     \* [field -> set of bytes the operator of this dive sends]
    Depths,         \* depths the sensor reports in it
    cmd,            \* the command record recv_thread fills
    Rocker,         \* X, Y, Z of the converted sticks
    PropellerPower, \* signed thrust per propeller
    last,           \* last_left_speed / last_right_speed of the speed buffer
    Expect_Depth,   \* in 1/100
    Control_OutPut, \* of the depth PID, in 1/200
    Depth,          \* Sensor.DepthSensor.Depth
    power_test,     \* the PWM counts PWM_Update computes
    pc,             \* where propeller_thread is
    ran, prevRan,   \* history: did FourtAxis_Control run this / last cycle
    sinceLock       \* history: outputs since All_Lock last changed, up to 2

dive == <<StickBytes, Depths>>
vars == <<dive, cmd, Rocker, PropellerPower, last, Expect_Depth, Control_OutPut,
          Depth, power_test, pc, ran, prevRan, sinceLock>>
hist == <<ran, prevRan, sinceLock>>

----------------------------------------------------------------------------
Abs(n) == IF n < 0 THEN -n ELSE n
Sign(n) == IF n < 0 THEN -1 ELSE 1
Clamp(v, lo, hi) == IF v > hi THEN hi ELSE IF v < lo THEN lo ELSE v

\* What a (short) conversion of the real n/d may give: truncation, and one
\* unit less in magnitude when n/d is an integer the floating point
\* evaluation may have missed from below.
Truncations(n, d) ==
    LET q == Abs(n) \div d
        short == IF q > 0 /\ Abs(n) % d = 0 THEN {q, q - 1} ELSE {q}
    IN  {Sign(n) * k : k \in short}

\* |n| / sqrt(r), rounded down: the number of k >= 1 with k <= |n| / sqrt(r).
MaxSpeed == 182
RootQuotient(n, r) == Cardinality({k \in 1..MaxSpeed : k * k * r <= n * n})

\* The rocker angle lies within 12 degrees of straight ahead or astern
\* (tan 12 = 0.21256).
Straight(x, y) == x # 0 /\ 100000 * Abs(y) <= 21256 * Abs(x)

\* left_speed and right_speed: with sin = x/sqrt(r), cos = y/sqrt(r) both
\* are (|x|x +- |y|y)/sqrt(r), and without the y term when going straight.
Mixed(p, x, y) ==
    LET yy == IF Straight(x, y) THEN 0 ELSE Abs(y) * y
    IN  Abs(x) * x + (IF p = "leftDown" THEN yy ELSE -yy)

Speeds(p, x, y) ==
    LET n == Mixed(p, x, y)
        r == x * x + y * y
        q == IF r = 0 THEN 0 ELSE RootQuotient(n, r)
        exact == q > 0 /\ q * q * r = n * n
    IN  {Sign(n) * k : k \in IF exact THEN {q, q - 1} ELSE {q}}

\* Thrust asked of propeller p before buffering; PropellerDir is 1 and
\* PropellerError 0 for every propeller.
Thrusts(p, x, y, power) ==
    UNION {Truncations(power * s, 80) : s \in Speeds(p, x, y)}

\* Mutant: the difference is tested but the thrust is not stepped.
Speed_Buffer_NoStep(now, lst) == [now |-> now, last |-> now]

\* Speed_Buffer: the pair (*now_value, *last_value) it leaves behind.
Speed_Buffer(now, lst) ==
    IF Abs(lst - now) >= BufferRange
    THEN LET stepped == IF now <= lst THEN lst - STEP_VALUE
                                      ELSE lst + STEP_VALUE
         IN  [now |-> stepped, last |-> stepped]
    ELSE [now |-> now, last |-> lst]

\* Mutant: only the forward limit.
Propeller_Output_Limit_Forward(v) ==
    IF v > PowerMax - PowerMed THEN PowerMax - PowerMed ELSE v

Propeller_Output_Limit(v) == Clamp(v, PowerMin - PowerMed, PowerMax - PowerMed)

\* PID_Control on the High_Position controller followed by the in-place
\* limit of robot_upDown.  Before Total_PID_Init the table is all zero, so
\* the gain and the output limit are zero.
Depth_PID(expect, depth) ==
    LET err == expect - 100 * depth
        out == IF TotalPidInit
               THEN Clamp(err, -200 * PidOutLimit, 200 * PidOutLimit)
               ELSE 0
    IN  Clamp(out, -200 * DepthOutLimit, 200 * DepthOutLimit)

\* Mutant: diving accumulates without looking at the depth output.
NewExpect_NoStop(z) ==
    IF VehicleMode = "FOUR_AXIS" /\ Abs(z) > 5 THEN Expect_Depth - z
                                              ELSE Expect_Depth

\* ROV_Depth_Control: the depth the operator now asks for.  Only the upward
\* direction has no limit.
NewExpect(z) ==
    CASE VehicleMode = "FOUR_AXIS" /\ z > 5 -> Expect_Depth - z
      [] VehicleMode = "FOUR_AXIS" /\ z < -5
           /\ Control_OutPut < 200 * DepthOutLimit -> Expect_Depth - z
      [] OTHER -> Expect_Depth

\* A float far enough from 0 absorbs the steps of the stick; the bounds bring
\* this nearer.
Absorbed(expect) == Clamp(expect, -RiseBound, DiveBound)

\* Mutant: the horizontal propellers are forgotten.
Propeller_Stop_Middle ==
    [p \in Propellers |-> IF p \in Middle THEN 0 ELSE PropellerPower[p]]

Propeller_Stop == [p \in Propellers |-> 0]

\* Stick bytes to signed rocker values.
RockerX == cmd.Move - 126
RockerY == cmd.Translation - 128
RockerZ == cmd.Vertical - 127

----------------------------------------------------------------------------
Init ==
    /\ \E d \in Dives : StickBytes = d.sticks /\ Depths = d.depths
    /\ \E m \in StickBytes["Move"], t \in StickBytes["Translation"],
          v \in StickBytes["Vertical"], w \in StickBytes["Power"] :
            cmd = [All_Lock |-> 0, Move |-> m, Translation |-> t,
                   Vertical |-> v, Power |-> w]
    /\ Rocker = [X |-> 0, Y |-> 0, Z |-> 0]
    /\ PropellerPower = [p \in Propellers |-> 0]
    /\ last = [p \in Horizontal |-> 0]
    /\ Expect_Depth = 0
    /\ Control_OutPut = 0
    /\ Depth = 0
    /\ power_test = [p \in Propellers |-> 0]
    /\ pc = "Init"
    /\ ran = FALSE /\ prevRan = FALSE /\ sinceLock = 0

\* Propeller_Init: two delays; the ESC arming writes are commented out.
Propeller_Init ==
    /\ pc = "Init"
    /\ pc' = "CheckLock"
    /\ UNCHANGED <<cmd, Rocker, PropellerPower, last, Expect_Depth,
                   Control_OutPut, Depth, power_test, hist>>

\* First read of All_Lock: convert the sticks, or stop.
CheckLock ==
    /\ pc = "CheckLock"
    /\ ran' = FALSE
    /\ \/ /\ cmd.All_Lock = UNLOCK
          /\ pc' = "ConvertX"
          /\ UNCHANGED PropellerPower
       \/ /\ cmd.All_Lock # UNLOCK
          /\ PropellerPower' = Propeller_Stop
          /\ pc' = "CheckAgain"
    /\ UNCHANGED <<cmd, Rocker, last, Expect_Depth, Control_OutPut, Depth,
                   power_test, prevRan, sinceLock>>

\* Convert_RockerValue reads the three sticks one after the other while
\* recv_thread may be storing a new frame.  Frame_EndFlag is written by no
\* code of this repository, so it reads as anything.
Convert_RockerValue ==
    /\ \/ /\ pc = "ConvertX" /\ pc' = "ConvertY"
          /\ Rocker' = [Rocker EXCEPT !.X = RockerX]
       \/ /\ pc = "ConvertX" /\ pc' = "CheckAgain"      \* flag not set
          /\ UNCHANGED Rocker
       \/ /\ pc = "ConvertY" /\ pc' = "ConvertZ"
          /\ Rocker' = [Rocker EXCEPT !.Y = RockerY]
       \/ /\ pc = "ConvertZ" /\ pc' = "CheckAgain"
          /\ Rocker' = [Rocker EXCEPT !.Z = RockerZ]
    /\ UNCHANGED <<cmd, PropellerPower, last, Expect_Depth, Control_OutPut,
                   Depth, power_test, hist>>

\* Mutant: the output belongs to the unlocked branch only.
CheckAgain_SkipsOutput ==
    /\ pc = "CheckAgain"
    /\ pc' = IF cmd.All_Lock = UNLOCK
             THEN IF VehicleMode = "FOUR_AXIS" THEN "FourtAxis" ELSE "Depth"
             ELSE "CheckLock"
    /\ UNCHANGED <<cmd, Rocker, PropellerPower, last, Expect_Depth,
                   Control_OutPut, Depth, power_test, hist>>

\* Second read of All_Lock.  When it is no longer UNLOCK the powers of the
\* previous cycle stay and are output once more.
CheckAgain ==
    /\ pc = "CheckAgain"
    /\ \/ /\ cmd.All_Lock = UNLOCK
          /\ pc' = IF VehicleMode = "FOUR_AXIS" THEN "FourtAxis" ELSE "Depth"
       \/ /\ cmd.All_Lock # UNLOCK
          /\ pc' = "Output"
    /\ UNCHANGED <<cmd, Rocker, PropellerPower, last, Expect_Depth,
                   Control_OutPut, Depth, power_test, hist>>

FourtAxis_Control ==
    /\ pc = "FourtAxis"
    /\ \E l \in Thrusts("leftDown", Rocker.X, Rocker.Y, cmd.Power),
          r \in Thrusts("rightDown", Rocker.X, Rocker.Y, cmd.Power) :
            LET lb == Speed_Buffer(l, last["leftDown"])
                rb == Speed_Buffer(r, last["rightDown"])
            IN  /\ PropellerPower' = [PropellerPower EXCEPT
                        !["leftDown"] = lb.now, !["rightDown"] = rb.now]
                /\ last' = [last EXCEPT
                        !["leftDown"] = lb.last, !["rightDown"] = rb.last]
    /\ ran' = TRUE
    /\ pc' = "Depth"
    /\ UNCHANGED <<cmd, Rocker, Expect_Depth, Control_OutPut, Depth,
                   power_test, prevRan, sinceLock>>

\* Depth_PID_Control and robot_upDown are its tail: depth_output is a
\* pointer, so the "else" of robot_upDown is never taken.
ROV_Depth_Control ==
    /\ pc = "Depth"
    /\ Expect_Depth' = Absorbed(NewExpect(Rocker.Z))
    /\ Control_OutPut' = Depth_PID(Expect_Depth', Depth)
    /\ \E m \in Truncations(-Control_OutPut', 200) :
            PropellerPower' = [p \in Propellers |->
                IF p \in Middle THEN m ELSE PropellerPower[p]]
    /\ pc' = "Output"
    /\ UNCHANGED <<cmd, Rocker, last, Depth, power_test, hist>>

\* Propeller_Output: limit every thrust, then PWM_Update.
Propeller_Output ==
    /\ pc = "Output"
    /\ PropellerPower' = [p \in Propellers |->
                            Propeller_Output_Limit(PropellerPower[p])]
    /\ power_test' = [p \in Propellers |-> PowerMed + PropellerPower'[p]]
    /\ pc' = "CheckLock"
    /\ prevRan' = ran
    /\ sinceLock' = IF sinceLock < 2 THEN sinceLock + 1 ELSE 2
    /\ UNCHANGED <<cmd, Rocker, last, Expect_Depth, Control_OutPut, Depth, ran>>

\* recv_thread stores one field of an accepted frame.  A frame that changes
\* several fields is several of these steps, in any order other frames allow.
RecvStick(f) ==
    /\ \E v \in StickBytes[f] : cmd' = [cmd EXCEPT ![f] = v]
    /\ UNCHANGED <<Rocker, PropellerPower, last, Expect_Depth, Control_OutPut,
                   Depth, power_test, pc, hist>>

RecvLock ==
    /\ \E v \in {UNLOCK, LOCK} :
         /\ v # cmd.All_Lock
         /\ cmd' = [cmd EXCEPT !.All_Lock = v]
    /\ sinceLock' = 0
    /\ UNCHANGED <<Rocker, PropellerPower, last, Expect_Depth, Control_OutPut,
                   Depth, power_test, pc, ran, prevRan>>

\* The depth sensor thread stores a new measurement.
SensorDepth ==
    /\ Depth' \in Depths
    /\ UNCHANGED <<cmd, Rocker, PropellerPower, last, Expect_Depth,
                   Control_OutPut, power_test, pc, hist>>

propeller_thread ==
    /\ \/ Propeller_Init \/ CheckLock \/ Convert_RockerValue \/ CheckAgain
       \/ FourtAxis_Control \/ ROV_Depth_Control \/ Propeller_Output
    /\ UNCHANGED dive

surroundings ==
    /\ (\E f \in StickFields : RecvStick(f)) \/ RecvLock \/ SensorDepth
    /\ UNCHANGED dive

Next == propeller_thread \/ surroundings

Spec == Init /\ [][Next]_vars

\* The thread is never blocked: it has no lock to wait for and its delays end.
FairSpec == Spec /\ WF_vars(propeller_thread)

----------------------------------------------------------------------------
(* Properties *)

PCs == {"Init", "CheckLock", "ConvertX", "ConvertY", "ConvertZ", "CheckAgain",
        "FourtAxis", "Depth", "Output"}

\* Type invariant.
TypeOK ==
    /\ StickBytes \in [StickFields -> SUBSET (0..255)]
    /\ Depths \subseteq Int /\ 0 \in Depths
    /\ cmd \in [StickFields \cup {"All_Lock"} -> 0..255]
    /\ Rocker \in [X : -126..129, Y : -128..127, Z : -127..128]
    /\ PropellerPower \in [Propellers -> Int]
    /\ last \in [Horizontal -> Int]
    /\ Expect_Depth \in Int /\ Control_OutPut \in Int /\ Depth \in Depths
    /\ power_test \in [Propellers -> Int]
    /\ pc \in PCs
    /\ ran \in BOOLEAN /\ prevRan \in BOOLEAN /\ sinceLock \in 0..2

\* Every PWM count written after a cycle lies in PowerMin..PowerMax, whatever
\* the mixing, the buffer and the depth loop produced (Propeller_Output_Limit).
PwmWithinLimits ==
    \/ power_test = [p \in Propellers |-> 0]      \* nothing output yet
    \/ \A p \in Propellers : power_test[p] \in PowerMin..PowerMax

\* Once All_Lock has left UNLOCK, at most one more cycle outputs thrust: the
\* second output after the lock, and all later ones, are at PowerMed.  The
\* two unsynchronised reads of All_Lock make the first one unavoidable.
LockStopsWithinTwoOutputs ==
    cmd.All_Lock # UNLOCK /\ sinceLock = 2 =>
        \A p \in Propellers : power_test[p] = PowerMed

\* Speed_Buffer: in consecutive cycles that run FourtAxis_Control, the PWM of
\* a horizontal propeller moves by at most twice the unbuffered difference,
\* however the sticks jump.
SlewStep ==
    pc = "Output" /\ ran /\ prevRan =>
        \A p \in Horizontal :
            Abs(power_test'[p] - power_test[p]) <= 2 * (BufferRange - 1)
SlewLimited == [][SlewStep]_power_test

\* ROV_Depth_Control stops accumulating when the depth output is at its
\* limit, so the asked depth stays within the reach of the controller.
DiveWindupBounded ==
    TotalPidInit =>
        \E d \in Depths : Expect_Depth <= 100 * d + 200 * DepthOutLimit + 127

\* A lock that stays is obeyed for good: all propellers end up at PowerMed.
LockEventuallyObeyed ==
    <>[](cmd.All_Lock # UNLOCK) =>
        <>[](\A p \in Propellers : power_test[p] = PowerMed)
============================================================================
