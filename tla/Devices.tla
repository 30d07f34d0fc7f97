------------------------------ MODULE Devices ------------------------------
(***************************************************************************)
(* devices_thread (user/DeviceThread.c): robotic arm, search light and     *)
(* gimbal (applications/pwmDevices.c).  Each control function switches on  *)
(* its command byte, moves and limits its value, and clears the byte;      *)
(* recv_thread stores command bytes at any time, without a lock.  WorkMode *)
(* is WORK throughout: nothing assigns it.                                 *)
(***************************************************************************)
EXTENDS Integers

CONSTANTS
    ArmMax, ArmMin, ArmMed, ArmSpeed,                \* RoboticArm
    YunTaiMax, YunTaiMin, YunTaiMed, YunTaiSpeed,    \* YunTai
    LightMax, LightStep,                             \* 90 and 5
    Bytes                   \* [device -> command bytes the operator sends]

Devs == {"Arm", "Light", "Yuntai"}

ASSUME ArmAssumption ==
    /\ ArmMax \in Int /\ ArmMin \in Int /\ ArmMed \in Int /\ ArmSpeed \in Nat \ {0}
    /\ ArmMin < ArmMed /\ ArmMed < ArmMax
ASSUME YunTaiAssumption ==
    /\ YunTaiMax \in Int /\ YunTaiMin \in Int /\ YunTaiMed \in Int
    /\ YunTaiSpeed \in Nat \ {0}
    /\ YunTaiMin < YunTaiMed /\ YunTaiMed < YunTaiMax
ASSUME LightAssumption == LightMax \in Nat /\ LightStep \in Nat
ASSUME BytesAssumption == Bytes \in [Devs -> SUBSET (0..255)]

VARIABLES
    cmd,            \* command byte per device
    value,          \* CurrentValue of the servos, light_value
    on_off,         \* the self-latching "initialised" flags of the servos
    hint,           \* device_hint_flag: the set of its bits that are set
    pc,             \* where devices_thread is
    seen,           \* the byte the running control function switched on
    fresh,          \* history: a byte was stored after that switch
    sent            \* history: flips whenever a byte is stored

vars == <<cmd, value, on_off, hint, pc, seen, fresh, sent>>

----------------------------------------------------------------------------
Limited(v, lo, hi) == IF v > hi THEN hi ELSE IF v < lo THEN lo ELSE v

Servo_Output_Limit(d, v) ==
    IF d = "Arm" THEN Limited(v, ArmMin, ArmMax)
                 ELSE Limited(v, YunTaiMin, YunTaiMax)

Light_Output_Limit(v) == Limited(v, 0, LightMax)

\* Mutant: the latch is never set, so every call starts at the centre.
Current_NoLatch(d) == IF d = "Arm" THEN ArmMed ELSE YunTaiMed

\* The servo's value at the switch: its centre on the first call.
Current(d) ==
    IF d \in on_off THEN value[d] ELSE IF d = "Arm" THEN ArmMed ELSE YunTaiMed

\* Before the limit is applied.
ArmMoved(b) ==
    CASE b = 1 -> Current("Arm") + ArmSpeed
      [] b = 2 -> Current("Arm") - ArmSpeed
      [] OTHER -> Current("Arm")

\* Mutant: the end flag is not cleared when the arm leaves an end.
ArmHint_Sticky(b) ==
    IF (b = 1 /\ ArmMoved(b) >= ArmMax) \/ (b = 2 /\ ArmMoved(b) <= ArmMin)
    THEN hint \cup {"arm"} ELSE hint

\* device_hint_flag bit 0x01: set or cleared by a move, else kept.
ArmHint(b) ==
    IF b \notin {1, 2} THEN hint
    ELSE IF (b = 1 /\ ArmMoved(b) >= ArmMax) \/ (b = 2 /\ ArmMoved(b) <= ArmMin)
         THEN hint \cup {"arm"} ELSE hint \ {"arm"}

\* Up decreases, down increases, 3 centres.
YunTaiMoved(b) ==
    CASE b = 1 -> Current("Yuntai") - YunTaiSpeed
      [] b = 2 -> Current("Yuntai") + YunTaiSpeed
      [] b = 3 -> YunTaiMed
      [] OTHER -> Current("Yuntai")

\* device_hint_flag bit 0x02, with the comparisons as the code has them.
YunTaiHint(b) ==
    IF b \notin {1, 2} THEN hint
    ELSE IF (b = 1 /\ YunTaiMoved(b) <= YunTaiMax)
              \/ (b = 2 /\ YunTaiMoved(b) >= YunTaiMin)
         THEN hint \cup {"yuntai"} ELSE hint \ {"yuntai"}

LightMoved(b) ==
    CASE b = 1 -> value["Light"] + LightStep
      [] b = 2 -> value["Light"] - LightStep
      [] OTHER -> value["Light"]

----------------------------------------------------------------------------
Init ==
    /\ cmd = [d \in Devs |-> 0]
    /\ value = [d \in Devs |-> 0]
    /\ on_off = {}
    /\ hint = {}
    /\ pc = "Arm"
    /\ seen = 0
    /\ fresh = FALSE /\ sent = 0

\* The body of each control function up to the clearing of its byte.
RoboticArm_Control ==
    /\ pc = "Arm"
    /\ on_off' = on_off \cup {"Arm"}
    /\ value' = [value EXCEPT !["Arm"] =
                    Servo_Output_Limit("Arm", ArmMoved(cmd["Arm"]))]
    /\ hint' = ArmHint(cmd["Arm"])
    /\ seen' = cmd["Arm"] /\ fresh' = FALSE
    /\ pc' = "ArmClear"
    /\ UNCHANGED <<cmd, sent>>

Search_Light_Control ==
    /\ pc = "Light"
    /\ value' = [value EXCEPT !["Light"] =
                    Light_Output_Limit(LightMoved(cmd["Light"]))]
    /\ seen' = cmd["Light"] /\ fresh' = FALSE
    /\ pc' = "LightClear"
    /\ UNCHANGED <<cmd, on_off, hint, sent>>

YunTai_Control ==
    /\ pc = "Yuntai"
    /\ on_off' = on_off \cup {"Yuntai"}
    /\ value' = [value EXCEPT !["Yuntai"] =
                    Servo_Output_Limit("Yuntai", YunTaiMoved(cmd["Yuntai"]))]
    /\ hint' = YunTaiHint(cmd["Yuntai"])
    /\ seen' = cmd["Yuntai"] /\ fresh' = FALSE
    /\ pc' = "YuntaiClear"
    /\ UNCHANGED <<cmd, sent>>

ClearPc == [d \in Devs |-> CASE d = "Arm" -> "ArmClear"
                             [] d = "Light" -> "LightClear"
                             [] d = "Yuntai" -> "YuntaiClear"]
NextPc == [d \in Devs |-> CASE d = "Arm" -> "Light"
                            [] d = "Light" -> "Yuntai"
                            [] d = "Yuntai" -> "Arm"]

\* Mutant: RoboticArm_Control leaves its byte in place.
Clear_ForgottenArm(d) ==
    /\ pc = ClearPc[d]
    /\ cmd' = [cmd EXCEPT ![d] = IF d = "Arm" THEN @ ELSE 0]
    /\ pc' = NextPc[d]
    /\ fresh' = FALSE
    /\ UNCHANGED <<value, on_off, hint, seen, sent>>

\* "*action = 0x00": whatever was stored meanwhile is cleared too.  After the
\* gimbal the thread sleeps and starts over with the arm.
Clear(d) ==
    /\ pc = ClearPc[d]
    /\ cmd' = [cmd EXCEPT ![d] = 0]
    /\ pc' = NextPc[d]
    /\ fresh' = FALSE
    /\ UNCHANGED <<value, on_off, hint, seen, sent>>

\* recv_thread stores the byte for device d of an accepted frame.
Recv(d) ==
    /\ \E b \in Bytes[d] : cmd' = [cmd EXCEPT ![d] = b]
    /\ fresh' = (fresh \/ pc = ClearPc[d])
    /\ sent' = 1 - sent
    /\ UNCHANGED <<value, on_off, hint, pc, seen>>

devices_thread ==
    \/ RoboticArm_Control \/ Search_Light_Control \/ YunTai_Control
    \/ \E d \in Devs : Clear(d)

Next == devices_thread \/ \E d \in Devs : Recv(d)

Spec == Init /\ [][Next]_vars

\* The thread only ever sleeps.
FairSpec == Spec /\ WF_vars(devices_thread)

----------------------------------------------------------------------------
(* Properties *)

\* Type invariant.
TypeOK ==
    /\ cmd \in [Devs -> 0..255]
    /\ value \in [Devs -> Int]
    /\ on_off \subseteq {"Arm", "Yuntai"}
    /\ hint \subseteq {"arm", "yuntai"}
    /\ pc \in Devs \cup {"ArmClear", "LightClear", "YuntaiClear"}
    /\ seen \in 0..255
    /\ fresh \in BOOLEAN /\ sent \in {0, 1}

\* No sequence of commands drives an actuator beyond its ends
\* (Servo_Output_Limit, Light_Output_Limit).
WithinEnds ==
    /\ "Arm" \in on_off => value["Arm"] \in ArmMin..ArmMax
    /\ "Yuntai" \in on_off => value["Yuntai"] \in YunTaiMin..YunTaiMax
    /\ value["Light"] \in 0..LightMax

\* The arm's hint bit is set exactly while the arm stands at an end
\* (RoboticArm_Control sets and clears it on moves only).
ArmHintExact ==
    "arm" \in hint <=> "Arm" \in on_off /\ value["Arm"] \in {ArmMin, ArmMax}

\* If "open" keeps being obeyed and "close" is never seen, the arm reaches
\* its end and says so.
HeldOpenReachesEnd ==
    []<>(pc = "ArmClear" /\ seen = 1) /\ [](pc = "ArmClear" => seen # 2)
        => <>("arm" \in hint)

\* The mailbox of a device: between the switch and the clearing it is empty
\* unless a new byte has arrived.
Box(d) == IF pc = ClearPc[d] /\ ~fresh THEN 0 ELSE cmd[d]

ArmServo == INSTANCE CommandedServo WITH
    MaxValue <- ArmMax, MinValue <- ArmMin, MedValue <- ArmMed, Speed <- ArmSpeed,
    Increase <- {1}, Decrease <- {2}, Centre <- {},
    pos <- Current("Arm"), box <- Box("Arm")
YunTaiServo == INSTANCE CommandedServo WITH
    MaxValue <- YunTaiMax, MinValue <- YunTaiMin, MedValue <- YunTaiMed,
    Speed <- YunTaiSpeed, Increase <- {2}, Decrease <- {1}, Centre <- {3},
    pos <- Current("Yuntai"), box <- Box("Yuntai")
LightServo == INSTANCE CommandedServo WITH
    MaxValue <- LightMax, MinValue <- 0, MedValue <- 0, Speed <- LightStep,
    Increase <- {1}, Decrease <- {2}, Centre <- {},
    pos <- value["Light"], box <- Box("Light")

ArmImplements == ArmServo!Spec
YunTaiImplements == YunTaiServo!Spec
LightImplements == LightServo!Spec

\* Each of the three actuators implements CommandedServo, however its byte is
\* stored, switched on and cleared by two threads: it moves only by obeying a
\* stored command, by one step within its ends, and obeys no command twice
\* ("*action = 0x00", pwmDevices.c).
ImplementsServos == ArmImplements /\ YunTaiImplements /\ LightImplements
============================================================================
