--------------------------- MODULE DevicesProofs ---------------------------
(***************************************************************************)
(* Proofs about the devices on pins and PWM channels: Devices, for every   *)
(* travel, speed and command sequence; the button of IoDevices; and the    *)
(* PWM chip of Pca9685, for every set of threads, channels and values.     *)
(***************************************************************************)
EXTENDS Devices, IoDevices, Pca9685, SequenceTheorems, TLAPS

\* Every variable keeps its type while recv_thread stores under devices_thread.
THEOREM TypeCorrect == Spec => []TypeOK
<1>1. Init => TypeOK
  <2> SUFFICES ASSUME Init PROVE TypeOK
    OBVIOUS
  <2>1. cmd \in [Devs -> 0..255] /\ value \in [Devs -> Int]
    BY DEF Init
  <2>2. /\ on_off \subseteq {"Arm", "Yuntai"} /\ hint \subseteq {"arm", "yuntai"}
        /\ pc \in Devs /\ fresh \in BOOLEAN
    BY DEF Init, Devs
  <2>3. seen \in 0..255 /\ sent \in {0, 1}
    BY DEF Init
  <2> QED
    BY <2>1, <2>2, <2>3 DEF TypeOK
<1>2. TypeOK /\ [Next]_vars => TypeOK'
  <2> SUFFICES ASSUME TypeOK, [Next]_vars PROVE TypeOK'
    OBVIOUS
  <2>0. \A d \in {"Arm", "Yuntai"} : Current(d) \in Int
    BY ArmAssumption, YunTaiAssumption DEF Current, TypeOK, Devs
  <2>1. CASE RoboticArm_Control
    <3>1. ArmMoved(cmd["Arm"]) \in Int
      BY <2>0, ArmAssumption DEF ArmMoved
    <3>2. Servo_Output_Limit("Arm", ArmMoved(cmd["Arm"])) \in Int
      BY <3>1, ArmAssumption DEF Servo_Output_Limit, Limited
    <3>3. value' \in [Devs -> Int]
      BY <2>1, <3>2 DEF RoboticArm_Control, TypeOK
    <3>4. hint' \subseteq {"arm", "yuntai"}
      BY <2>1 DEF RoboticArm_Control, ArmHint, TypeOK
    <3>5. /\ cmd' = cmd /\ sent' = sent /\ fresh' = FALSE
          /\ seen' = cmd["Arm"] /\ pc' = "ArmClear"
          /\ on_off' = on_off \cup {"Arm"}
      BY <2>1 DEF RoboticArm_Control
    <3>6. cmd["Arm"] \in 0..255
      BY DEF TypeOK, Devs
    <3> QED
      BY <3>3, <3>4, <3>5, <3>6 DEF TypeOK
  <2>2. CASE Search_Light_Control
    <3>1. LightMoved(cmd["Light"]) \in Int
      BY LightAssumption DEF LightMoved, TypeOK, Devs
    <3>2. Light_Output_Limit(LightMoved(cmd["Light"])) \in Int
      BY <3>1, LightAssumption DEF Light_Output_Limit, Limited
    <3>3. value' \in [Devs -> Int]
      BY <2>2, <3>2 DEF Search_Light_Control, TypeOK
    <3>4. /\ cmd' = cmd /\ sent' = sent /\ fresh' = FALSE /\ hint' = hint
          /\ seen' = cmd["Light"] /\ pc' = "LightClear" /\ on_off' = on_off
      BY <2>2 DEF Search_Light_Control
    <3>5. cmd["Light"] \in 0..255
      BY DEF TypeOK, Devs
    <3> QED
      BY <3>3, <3>4, <3>5 DEF TypeOK
  <2>3. CASE YunTai_Control
    <3>1. YunTaiMoved(cmd["Yuntai"]) \in Int
      BY <2>0, YunTaiAssumption DEF YunTaiMoved
    <3>2. Servo_Output_Limit("Yuntai", YunTaiMoved(cmd["Yuntai"])) \in Int
      BY <3>1, YunTaiAssumption DEF Servo_Output_Limit, Limited
    <3>3. value' \in [Devs -> Int]
      BY <2>3, <3>2 DEF YunTai_Control, TypeOK
    <3>4. hint' \subseteq {"arm", "yuntai"}
      BY <2>3 DEF YunTai_Control, YunTaiHint, TypeOK
    <3>5. /\ cmd' = cmd /\ sent' = sent /\ fresh' = FALSE
          /\ seen' = cmd["Yuntai"] /\ pc' = "YuntaiClear"
          /\ on_off' = on_off \cup {"Yuntai"}
      BY <2>3 DEF YunTai_Control
    <3>6. cmd["Yuntai"] \in 0..255
      BY DEF TypeOK, Devs
    <3> QED
      BY <3>3, <3>4, <3>5, <3>6 DEF TypeOK
  <2>4. ASSUME NEW d \in Devs, Clear(d)
        PROVE  TypeOK'
    <3>1. cmd' \in [Devs -> 0..255]
      BY <2>4 DEF Clear, TypeOK
    <3>2. pc' \in Devs
      BY <2>4 DEF Clear, NextPc, Devs
    <3> QED
      BY <2>4, <3>1, <3>2 DEF Clear, TypeOK
  <2>5. ASSUME NEW d \in Devs, Recv(d)
        PROVE  TypeOK'
    <3>1. Bytes[d] \subseteq 0..255
      BY BytesAssumption
    <3>2. cmd' \in [Devs -> 0..255]
      BY <2>5, <3>1 DEF Recv, TypeOK
    <3>3. fresh' \in BOOLEAN
      BY <2>5 DEF Recv
    <3>4. sent' \in {0, 1}
      BY <2>5 DEF Recv, TypeOK
    <3> QED
      BY <2>5, <3>2, <3>3, <3>4 DEF Recv, TypeOK
  <2>6. CASE UNCHANGED vars
    BY <2>6 DEF vars, TypeOK
  <2> QED
    BY <2>1, <2>2, <2>3, <2>4, <2>5, <2>6 DEF Next, devices_thread
<1> QED
  BY <1>1, <1>2, PTL DEF Spec

----------------------------------------------------------------------------
(* Safety: the ends and the arm's end flag *)

\* value, on_off and hint are what the two invariants speak of.
LEMMA OthersKeepValues ==
    ASSUME [Next]_vars, ~RoboticArm_Control, ~Search_Light_Control,
           ~YunTai_Control
    PROVE  UNCHANGED <<value, on_off, hint>>
BY DEF Next, devices_thread, Clear, Recv, vars

\* No command sequence drives an actuator beyond its ends, and the arm's hint
\* bit tells exactly whether the arm stands at one.
THEOREM ActuatorsSafe == Spec => [](WithinEnds /\ ArmHintExact)
<1>1. Init => WithinEnds /\ ArmHintExact
  BY LightAssumption DEF Init, WithinEnds, ArmHintExact, Devs
<1>2. TypeOK /\ WithinEnds /\ ArmHintExact /\ [Next]_vars
        => (WithinEnds /\ ArmHintExact)'
  <2> SUFFICES ASSUME TypeOK, WithinEnds, ArmHintExact, [Next]_vars
               PROVE  (WithinEnds /\ ArmHintExact)'
    OBVIOUS
  <2>0. "Arm" \in Devs /\ "Light" \in Devs /\ "Yuntai" \in Devs
    BY DEF Devs
  <2>1. CASE RoboticArm_Control
    <3> DEFINE v == Current("Arm")
               b == cmd["Arm"]
               w == Servo_Output_Limit("Arm", ArmMoved(b))
    <3>1. /\ v \in ArmMin..ArmMax
          /\ "arm" \in hint <=> v \in {ArmMin, ArmMax}
      BY ArmAssumption DEF Current, WithinEnds, ArmHintExact
    <3>2. w \in ArmMin..ArmMax
      BY <3>1, ArmAssumption DEF Servo_Output_Limit, Limited, ArmMoved
    <3>3. value'["Arm"] = w /\ value'["Yuntai"] = value["Yuntai"]
            /\ value'["Light"] = value["Light"]
      BY <2>0, <2>1 DEF RoboticArm_Control, TypeOK
    <3>4. on_off' = on_off \cup {"Arm"} /\ hint' = ArmHint(b)
      BY <2>1 DEF RoboticArm_Control
    <3>5. "arm" \in ArmHint(b) <=> w \in {ArmMin, ArmMax}
      <4>1. CASE b = 1
        BY <3>1, <4>1, ArmAssumption
        DEF ArmHint, ArmMoved, Servo_Output_Limit, Limited
      <4>2. CASE b = 2
        BY <3>1, <4>2, ArmAssumption
        DEF ArmHint, ArmMoved, Servo_Output_Limit, Limited
      <4>3. CASE b \notin {1, 2}
        <5>1. w = v /\ ArmHint(b) = hint
          BY <3>1, <4>3, ArmAssumption
          DEF ArmHint, ArmMoved, Servo_Output_Limit, Limited
        <5> QED
          BY <3>1, <5>1
      <4> QED
        BY <4>1, <4>2, <4>3
    <3> QED
      BY <3>2, <3>3, <3>4, <3>5 DEF WithinEnds, ArmHintExact
  <2>2. CASE Search_Light_Control
    <3>1. Light_Output_Limit(LightMoved(cmd["Light"])) \in 0..LightMax
      BY LightAssumption
      DEF Light_Output_Limit, Limited, LightMoved, WithinEnds
    <3>2. value'["Arm"] = value["Arm"] /\ value'["Yuntai"] = value["Yuntai"]
            /\ value'["Light"] \in 0..LightMax
      BY <2>0, <2>2, <3>1 DEF Search_Light_Control, TypeOK
    <3> QED
      BY <2>2, <3>2 DEF Search_Light_Control, WithinEnds, ArmHintExact
  <2>3. CASE YunTai_Control
    <3>1. Current("Yuntai") \in YunTaiMin..YunTaiMax
      BY YunTaiAssumption DEF Current, WithinEnds
    <3>2. Servo_Output_Limit("Yuntai", YunTaiMoved(cmd["Yuntai"]))
            \in YunTaiMin..YunTaiMax
      BY <3>1, YunTaiAssumption DEF Servo_Output_Limit, Limited, YunTaiMoved
    <3>3. value'["Arm"] = value["Arm"] /\ value'["Light"] = value["Light"]
            /\ value'["Yuntai"] \in YunTaiMin..YunTaiMax
      BY <2>0, <2>3, <3>2 DEF YunTai_Control, TypeOK
    <3>4. on_off' = on_off \cup {"Yuntai"}
      BY <2>3 DEF YunTai_Control
    <3>5. "arm" \in hint' <=> "arm" \in hint
      BY <2>3 DEF YunTai_Control, YunTaiHint
    <3> QED
      BY <3>3, <3>4, <3>5 DEF WithinEnds, ArmHintExact
  <2>4. CASE ~RoboticArm_Control /\ ~Search_Light_Control /\ ~YunTai_Control
    BY <2>4, OthersKeepValues DEF WithinEnds, ArmHintExact
  <2> QED
    BY <2>1, <2>2, <2>3, <2>4
<1> QED
  BY <1>1, <1>2, TypeCorrect, PTL DEF Spec

----------------------------------------------------------------------------
(* The arm reaches its end *)

\* How far the arm is from its open end.
ArmLeft == ArmMax - Current("Arm")

ArmTravels == ArmLeft \in 0..(ArmMax - ArmMin)

\* Only "close" takes the arm back, and every "open" takes it a full step
\* further or to an end, which it says.
OpeningSteps ==
    [][/\ RoboticArm_Control /\ cmd["Arm"] # 2 => ArmLeft' <= ArmLeft
       /\ RoboticArm_Control /\ cmd["Arm"] = 1 => ArmLeft' <= ArmLeft - ArmSpeed \/ "arm" \in hint'
       /\ ~RoboticArm_Control => ArmLeft' = ArmLeft /\ ("arm" \in hint' <=> "arm" \in hint)]_vars

\* RoboticArm_Control: however recv_thread stores meanwhile, at most
\* (ArmMax - ArmMin) / ArmSpeed calls that see "open" and none that sees "close"
\* lie between the arm and an end: what HeldOpenReachesEnd says of fair
\* schedules, in numbers.
THEOREM OpeningBounded == Spec => []ArmTravels /\ OpeningSteps
<1>1. WithinEnds => Current("Arm") \in ArmMin..ArmMax
  BY ArmAssumption DEF Current, WithinEnds
<1>2. WithinEnds => ArmTravels
  BY <1>1, ArmAssumption DEF ArmTravels, ArmLeft
<1>3. TypeOK /\ WithinEnds /\ [Next]_vars
        => [/\ RoboticArm_Control /\ cmd["Arm"] # 2 => ArmLeft' <= ArmLeft
            /\ RoboticArm_Control /\ cmd["Arm"] = 1
                    => ArmLeft' <= ArmLeft - ArmSpeed \/ "arm" \in hint'
            /\ ~RoboticArm_Control
                    => ArmLeft' = ArmLeft /\ ("arm" \in hint' <=> "arm" \in hint)]_vars
  <2> SUFFICES ASSUME TypeOK, WithinEnds, Next
               PROVE  /\ RoboticArm_Control /\ cmd["Arm"] # 2 => ArmLeft' <= ArmLeft
                      /\ RoboticArm_Control /\ cmd["Arm"] = 1
                            => ArmLeft' <= ArmLeft - ArmSpeed \/ "arm" \in hint'
                      /\ ~RoboticArm_Control
                            => ArmLeft' = ArmLeft /\ ("arm" \in hint' <=> "arm" \in hint)
    OBVIOUS
  <2>1. CASE RoboticArm_Control
    <3> DEFINE v == Current("Arm")
               b == cmd["Arm"]
               w == Servo_Output_Limit("Arm", ArmMoved(b))
    <3>1. v \in Int /\ ArmMin <= v /\ v <= ArmMax
      BY <1>1, ArmAssumption
    <3>2. Current("Arm")' = w /\ hint' = ArmHint(b)
      BY <2>1 DEF RoboticArm_Control, Current, TypeOK, Devs
    <3>3. ArmLeft = ArmMax - v /\ ArmLeft' = ArmMax - w
      BY <3>2 DEF ArmLeft
    <3>4. CASE b = 1
      <4>1. ArmMoved(b) = v + ArmSpeed
        BY <3>4 DEF ArmMoved
      <4>2. w = IF v + ArmSpeed > ArmMax THEN ArmMax ELSE v + ArmSpeed
        BY <3>1, <4>1, ArmAssumption DEF Servo_Output_Limit, Limited
      <4>3. v + ArmSpeed >= ArmMax => "arm" \in hint'
        BY <3>2, <3>4, <4>1 DEF ArmHint
      <4> HIDE DEF v, w, b
      <4> QED
        BY <2>1, <3>1, <3>3, <3>4, <4>2, <4>3, ArmAssumption DEF b
    <3>5. CASE b \notin {1, 2}
      <4>1. ArmMoved(b) = v
        BY <3>5 DEF ArmMoved
      <4>2. w = v
        BY <3>1, <4>1, ArmAssumption DEF Servo_Output_Limit, Limited
      <4> HIDE DEF v, w, b
      <4> QED
        BY <2>1, <3>1, <3>3, <3>5, <4>2, ArmAssumption DEF b
    <3> QED
      BY <2>1, <3>4, <3>5
  <2>2. CASE ~RoboticArm_Control
    <3>1. UNCHANGED <<value, on_off, hint>> \/ Search_Light_Control \/ YunTai_Control
      BY <2>2, OthersKeepValues
    <3>2. value'["Arm"] = value["Arm"] /\ ("Arm" \in on_off' <=> "Arm" \in on_off)
            /\ ("arm" \in hint' <=> "arm" \in hint)
      <4>1. CASE Search_Light_Control
        BY <4>1 DEF Search_Light_Control, TypeOK, Devs
      <4>2. CASE YunTai_Control
        BY <4>2 DEF YunTai_Control, YunTaiHint, TypeOK, Devs
      <4> QED
        BY <3>1, <4>1, <4>2
    <3>3. Current("Arm")' = Current("Arm")
      BY <3>2 DEF Current
    <3> QED
      BY <2>2, <3>2, <3>3 DEF ArmLeft
  <2> QED
    BY <2>1, <2>2
<1> QED
  BY <1>2, <1>3, TypeCorrect, ActuatorsSafe, PTL DEF Spec, OpeningSteps

----------------------------------------------------------------------------
(* Refinement: the arm and the gimbal obey each stored command at most once *)

\* Control steps and clearings of the other devices, and bytes stored for
\* them, are a store of what the mailbox holds, or nothing, for device d.
LEMMA OtherDevices ==
    ASSUME TypeOK, NEW d \in Devs, NEW e \in Devs, e # d,
           Clear(e) \/ Recv(e)
    PROVE  Box(d)' = Box(d) /\ sent' \in {sent, 1 - sent}
<1>1. cmd'[d] = cmd[d]
  BY DEF Clear, Recv, TypeOK
<1>2. CASE Clear(e)
  <2>1. pc # ClearPc[d] /\ pc' # ClearPc[d]
    BY <1>2 DEF Clear, ClearPc, NextPc, Devs
  <2> QED
    BY <1>1, <1>2, <2>1 DEF Clear, Box
<1>3. CASE Recv(e)
  <2>1. pc = ClearPc[d] => pc # ClearPc[e]
    BY DEF ClearPc, Devs
  <2>2. pc' = pc /\ fresh' = (fresh \/ pc = ClearPc[e]) /\ sent' = 1 - sent
    BY <1>3 DEF Recv
  <2>3. pc = ClearPc[d] => fresh' = fresh
    BY <2>1, <2>2 DEF TypeOK
  <2> QED
    BY <1>1, <2>2, <2>3 DEF Box
<1> QED
  BY <1>2, <1>3

\* Clearing empties the mailbox of its device.
LEMMA ClearBox ==
    ASSUME TypeOK, NEW d \in Devs, Clear(d)
    PROVE  Box(d)' = 0
<1>1. cmd'[d] = 0 /\ pc' = NextPc[d]
  BY DEF Clear, TypeOK
<1> QED
  BY <1>1 DEF Box

\* The robotic arm implements CommandedServo: every step of the threads
\* stores, obeys or drops a command, or leaves the arm alone.
THEOREM ArmRefines == Spec => ArmImplements
<1> USE DEF Devs
<1>1. Init => ArmServo!Init
  BY DEF Init, ArmServo!Init, Current, Box, ClearPc
<1>2. TypeOK /\ TypeOK' /\ WithinEnds /\ [Next]_vars
        => [ArmServo!Next]_<<Current("Arm"), Box("Arm"), sent>>
  <2> SUFFICES ASSUME TypeOK, TypeOK', WithinEnds, [Next]_vars
               PROVE  [ArmServo!Next]_<<Current("Arm"), Box("Arm"), sent>>
    OBVIOUS
  <2>1. CASE RoboticArm_Control
    <3>1. Box("Arm") = cmd["Arm"] /\ Box("Arm")' = 0 /\ sent' = sent
      BY <2>1 DEF RoboticArm_Control, Box, ClearPc
    <3>2. Current("Arm") \in ArmMin..ArmMax
      BY ArmAssumption DEF Current, WithinEnds
    <3>3. Current("Arm")' = Servo_Output_Limit("Arm", ArmMoved(cmd["Arm"]))
      BY <2>1 DEF RoboticArm_Control, Current, TypeOK
    <3>4. Servo_Output_Limit("Arm", ArmMoved(cmd["Arm"])) = ArmServo!Move(Current("Arm"), cmd["Arm"])
      BY <3>2, ArmAssumption
      DEF ArmServo!Move, Servo_Output_Limit, Limited, ArmMoved
    <3> QED
      BY <3>1, <3>3, <3>4 DEF ArmServo!Next, ArmServo!Obey
  <2>2. CASE YunTai_Control \/ Search_Light_Control
    <3>1. Current("Arm")' = Current("Arm")
      BY <2>2 DEF YunTai_Control, Search_Light_Control, Current, TypeOK
    <3>2. Box("Arm")' = Box("Arm") /\ sent' = sent
      BY <2>2 DEF YunTai_Control, Search_Light_Control, Box, ClearPc
    <3> QED
      BY <3>1, <3>2
  <2>3. ASSUME NEW e \in Devs, Clear(e) PROVE
            ArmServo!Next \/ UNCHANGED <<Current("Arm"), Box("Arm"), sent>>
    <3>1. Current("Arm")' = Current("Arm") /\ sent' = sent
      BY <2>3 DEF Clear, Current
    <3>2. CASE e = "Arm"
      BY <2>3, <3>1, <3>2, ClearBox DEF ArmServo!Next, ArmServo!Drop
    <3>3. CASE e # "Arm"
      BY <2>3, <3>1, <3>3, OtherDevices
    <3> QED
      BY <3>2, <3>3
  <2>4. ASSUME NEW e \in Devs, Recv(e) PROVE
            ArmServo!Next \/ UNCHANGED <<Current("Arm"), Box("Arm"), sent>>
    <3>1. Current("Arm")' = Current("Arm") /\ sent' = 1 - sent
      BY <2>4 DEF Recv, Current
    <3>2. Box("Arm")' \in 0..255
      BY DEF TypeOK, Box
    <3> QED
      BY <3>1, <3>2 DEF ArmServo!Next, ArmServo!Store
  <2>5. CASE UNCHANGED vars
    BY <2>5 DEF vars, Current, Box
  <2> QED
    BY <2>1, <2>2, <2>3, <2>4, <2>5 DEF Next, devices_thread
<1> QED
  BY <1>1, <1>2, TypeCorrect, ActuatorsSafe, PTL
  DEF Spec, ArmImplements, ArmServo!Spec

\* The gimbal implements CommandedServo: every step of the threads
\* stores, obeys or drops a command, or leaves the gimbal alone.
THEOREM YunTaiRefines == Spec => YunTaiImplements
<1> USE DEF Devs
<1>1. Init => YunTaiServo!Init
  BY DEF Init, YunTaiServo!Init, Current, Box, ClearPc
<1>2. TypeOK /\ TypeOK' /\ WithinEnds /\ [Next]_vars
        => [YunTaiServo!Next]_<<Current("Yuntai"), Box("Yuntai"), sent>>
  <2> SUFFICES ASSUME TypeOK, TypeOK', WithinEnds, [Next]_vars
               PROVE  [YunTaiServo!Next]_<<Current("Yuntai"), Box("Yuntai"), sent>>
    OBVIOUS
  <2>1. CASE YunTai_Control
    <3>1. Box("Yuntai") = cmd["Yuntai"] /\ Box("Yuntai")' = 0 /\ sent' = sent
      BY <2>1 DEF YunTai_Control, Box, ClearPc
    <3>2. Current("Yuntai") \in YunTaiMin..YunTaiMax
      BY YunTaiAssumption DEF Current, WithinEnds
    <3>3. Current("Yuntai")' = Servo_Output_Limit("Yuntai", YunTaiMoved(cmd["Yuntai"]))
      BY <2>1 DEF YunTai_Control, Current, TypeOK
    <3>4. Servo_Output_Limit("Yuntai", YunTaiMoved(cmd["Yuntai"])) = YunTaiServo!Move(Current("Yuntai"), cmd["Yuntai"])
      BY <3>2, YunTaiAssumption
      DEF YunTaiServo!Move, Servo_Output_Limit, Limited, YunTaiMoved
    <3> QED
      BY <3>1, <3>3, <3>4 DEF YunTaiServo!Next, YunTaiServo!Obey
  <2>2. CASE RoboticArm_Control \/ Search_Light_Control
    <3>1. Current("Yuntai")' = Current("Yuntai")
      BY <2>2 DEF RoboticArm_Control, Search_Light_Control, Current, TypeOK
    <3>2. Box("Yuntai")' = Box("Yuntai") /\ sent' = sent
      BY <2>2 DEF RoboticArm_Control, Search_Light_Control, Box, ClearPc
    <3> QED
      BY <3>1, <3>2
  <2>3. ASSUME NEW e \in Devs, Clear(e) PROVE
            YunTaiServo!Next \/ UNCHANGED <<Current("Yuntai"), Box("Yuntai"), sent>>
    <3>1. Current("Yuntai")' = Current("Yuntai") /\ sent' = sent
      BY <2>3 DEF Clear, Current
    <3>2. CASE e = "Yuntai"
      BY <2>3, <3>1, <3>2, ClearBox DEF YunTaiServo!Next, YunTaiServo!Drop
    <3>3. CASE e # "Yuntai"
      BY <2>3, <3>1, <3>3, OtherDevices
    <3> QED
      BY <3>2, <3>3
  <2>4. ASSUME NEW e \in Devs, Recv(e) PROVE
            YunTaiServo!Next \/ UNCHANGED <<Current("Yuntai"), Box("Yuntai"), sent>>
    <3>1. Current("Yuntai")' = Current("Yuntai") /\ sent' = 1 - sent
      BY <2>4 DEF Recv, Current
    <3>2. Box("Yuntai")' \in 0..255
      BY DEF TypeOK, Box
    <3> QED
      BY <3>1, <3>2 DEF YunTaiServo!Next, YunTaiServo!Store
  <2>5. CASE UNCHANGED vars
    BY <2>5 DEF vars, Current, Box
  <2> QED
    BY <2>1, <2>2, <2>3, <2>4, <2>5 DEF Next, devices_thread
<1> QED
  BY <1>1, <1>2, TypeCorrect, ActuatorsSafe, PTL
  DEF Spec, YunTaiImplements, YunTaiServo!Spec

\* The search light implements CommandedServo: every step of the threads
\* stores, obeys or drops a command, or leaves the light alone.
THEOREM LightRefines == Spec => LightImplements
<1> USE DEF Devs
<1>1. Init => LightServo!Init
  BY DEF Init, LightServo!Init, Box, ClearPc
<1>2. TypeOK /\ TypeOK' /\ WithinEnds /\ [Next]_vars
        => [LightServo!Next]_<<value["Light"], Box("Light"), sent>>
  <2> SUFFICES ASSUME TypeOK, TypeOK', WithinEnds, [Next]_vars
               PROVE  [LightServo!Next]_<<value["Light"], Box("Light"), sent>>
    OBVIOUS
  <2>1. CASE Search_Light_Control
    <3>1. Box("Light") = cmd["Light"] /\ Box("Light")' = 0 /\ sent' = sent
      BY <2>1 DEF Search_Light_Control, Box, ClearPc
    <3>2. value["Light"] \in 0..LightMax
      BY LightAssumption DEF WithinEnds
    <3>3. value'["Light"] = Light_Output_Limit(LightMoved(cmd["Light"]))
      BY <2>1 DEF Search_Light_Control, TypeOK
    <3>4. Light_Output_Limit(LightMoved(cmd["Light"])) = LightServo!Move(value["Light"], cmd["Light"])
      BY <3>2, LightAssumption
      DEF LightServo!Move, Light_Output_Limit, Limited, LightMoved
    <3> QED
      BY <3>1, <3>3, <3>4 DEF LightServo!Next, LightServo!Obey
  <2>2. CASE RoboticArm_Control \/ YunTai_Control
    <3>1. value'["Light"] = value["Light"]
      BY <2>2 DEF RoboticArm_Control, YunTai_Control, TypeOK
    <3>2. Box("Light")' = Box("Light") /\ sent' = sent
      BY <2>2 DEF RoboticArm_Control, YunTai_Control, Box, ClearPc
    <3> QED
      BY <3>1, <3>2
  <2>3. ASSUME NEW e \in Devs, Clear(e) PROVE
            LightServo!Next \/ UNCHANGED <<value["Light"], Box("Light"), sent>>
    <3>1. value'["Light"] = value["Light"] /\ sent' = sent
      BY <2>3 DEF Clear
    <3>2. CASE e = "Light"
      BY <2>3, <3>1, <3>2, ClearBox DEF LightServo!Next, LightServo!Drop
    <3>3. CASE e # "Light"
      BY <2>3, <3>1, <3>3, OtherDevices
    <3> QED
      BY <3>2, <3>3
  <2>4. ASSUME NEW e \in Devs, Recv(e) PROVE
            LightServo!Next \/ UNCHANGED <<value["Light"], Box("Light"), sent>>
    <3>1. value'["Light"] = value["Light"] /\ sent' = 1 - sent
      BY <2>4 DEF Recv
    <3>2. Box("Light")' \in 0..255
      BY DEF TypeOK, Box
    <3> QED
      BY <3>1, <3>2 DEF LightServo!Next, LightServo!Store
  <2>5. CASE UNCHANGED vars
    BY <2>5 DEF vars, Box
  <2> QED
    BY <2>1, <2>2, <2>3, <2>4, <2>5 DEF Next, devices_thread
<1> QED
  BY <1>1, <1>2, TypeCorrect, ActuatorsSafe, PTL
  DEF Spec, LightImplements, LightServo!Spec

\* Whatever bytes arrive and whenever they do, the three actuators implement
\* CommandedServo: each moves only by obeying a stored command and obeys none
\* twice.
THEOREM ServosRefine == Spec => ImplementsServos
  BY ArmRefines, YunTaiRefines, LightRefines DEF ImplementsServos

\* While the released flag is up, no press has been reported since the last
\* release, and the thread debounces only while it is up.
ReleasedInv ==
    /\ button_up = 1 => ~ reported
    /\ bpc = "debounce" => button_up = 1

\* A press is reported once, however the contact bounces between the polls
\* and under the debouncing (button_thread).
THEOREM PressReportedOnce == Io_Spec => OneReportPerPress
  <1>1. Io_Init => ReleasedInv
    BY DEF Io_Init, ReleasedInv
  <1>2. ReleasedInv /\ [Io_Next]_ioVars => ReleasedInv'
    <2> SUFFICES ASSUME ReleasedInv, [Io_Next]_ioVars PROVE ReleasedInv'
      OBVIOUS
    <2>1. CASE UNCHANGED buttonVars
      BY <2>1 DEF ReleasedInv, buttonVars
    <2>2. CASE Contact
      BY <2>2 DEF Contact, ReleasedInv
    <2>3. CASE Poll
      BY <2>3 DEF Poll, ReleasedInv
    <2>4. CASE PollElse
      <3>1. bpc' = "poll" /\ button_up' = (IF contact = 1 THEN 1 ELSE button_up)
        BY <2>4 DEF PollElse
      <3>2. reported' => reported /\ contact = 0
        BY <2>4, Zenon DEF PollElse
      <3> QED BY <3>1, <3>2 DEF ReleasedInv
    <2>5. CASE Debounce
      BY <2>5 DEF Debounce, ReleasedInv
    <2> QED
      BY <2>1, <2>2, <2>3, <2>4, <2>5
         DEF Io_Next, softPWM_thread, button_thread, PwmStart, softPwm_process, ioVars, buttonVars
  <1>3. ReleasedInv => (bpc = "debounce" /\ bpc' = "poll" /\ contact = 0 => ~ reported)
    BY DEF ReleasedInv
  <1> QED BY <1>1, <1>2, <1>3, PTL DEF Io_Spec, OneReportPerPress

\* Before the settings everything is off; afterwards the descriptors keep the
\* mode they were set to, and a pin is driven only by an endless device or one
\* that has calls left.
SoundInv ==
    /\ turn \in 0..4
    /\ pwm \in [PwmDevs -> [cnt : Nat, time : Nat, period : Nat, duty : 0..100, flag : {0, 1}]]
    /\ level \in [PwmDevs -> {0, 1}]
    /\ \A d \in PwmDevs : /\ turn = 0 => level[d] = 0
                          /\ turn # 0 => pwm[d].flag = Settings[d].flag
                                         /\ pwm[d].time <= Settings[d].time \div div
                          /\ level[d] = 1 => pwm[d].time > 0 \/ pwm[d].flag = 1

\* A device without the endless mode is driven only while it has calls left.
SoundsWhileLeft ==
    \A d \in PwmDevs : level[d] = 1 /\ Settings[d].flag = 0
        => pwm[d].time \in 1..(Settings[d].time \div div)

\* Every call for a device takes one of its calls off, and none gives one back.
DurationSteps ==
    [][turn # 0 =>
         \A d \in PwmDevs :
            /\ pwm'[d].time <= pwm[d].time
            /\ softPWM_thread /\ Order[turn] = d
                    => pwm'[d].time < pwm[d].time \/ (pwm'[d].time = 0 /\ pwm[d].time = 0)]_ioVars

LEMMA TickedIs ==
    ASSUME NEW p \in [cnt : Nat, time : Nat, period : Nat, duty : 0..100, flag : {0, 1}]
    PROVE  /\ Ticked(p) \in [cnt : Nat, time : Nat, period : Nat, duty : 0..100, flag : {0, 1}]
           /\ Ticked(p).flag = p.flag
           /\ Ticked(p).time <= p.time /\ (p.time = 0 \/ Ticked(p).time < p.time)
  <1> DEFINE t == IF p.time >= 1 THEN p.time - 1 ELSE p.time
             n == IF t # 0 \/ p.flag = 1
                  THEN IF p.cnt + 1 >= p.period THEN 0 ELSE p.cnt + 1
                  ELSE p.cnt
  <1>1. t \in Nat /\ t <= p.time /\ (p.time = 0 \/ t < p.time) /\ n \in Nat
    OBVIOUS
  <1>2. Ticked(p) = [p EXCEPT !.time = t, !.cnt = n]
    BY DEF Ticked
  <1> HIDE DEF t, n
  <1> QED BY <1>1, <1>2

LEMMA OutputIs ==
    ASSUME NEW q
    PROVE  Output(q) \in {0, 1} /\ (Output(q) = 1 => Active(q))
  <1> DEFINE on == Active(q) /\ q.cnt <= (q.period * q.duty) \div 100
  <1>1. Output(q) = IF on THEN 1 ELSE 0
    BY DEF Output
  <1>2. on => Active(q)
    OBVIOUS
  <1> HIDE DEF on
  <1> QED BY <1>1, <1>2

LEMMA SoundStep ==
    SoundInv /\ [Io_Next]_ioVars
      => SoundInv' /\ [turn # 0 =>
            \A d \in PwmDevs :
                /\ pwm'[d].time <= pwm[d].time
                /\ softPWM_thread /\ Order[turn] = d
                      => pwm'[d].time < pwm[d].time \/ (pwm'[d].time = 0 /\ pwm[d].time = 0)]_ioVars
  <1> SUFFICES ASSUME SoundInv, [Io_Next]_ioVars
               PROVE  SoundInv' /\ [turn # 0 =>
            \A d \in PwmDevs :
                /\ pwm'[d].time <= pwm[d].time
                /\ softPWM_thread /\ Order[turn] = d
                      => pwm'[d].time < pwm[d].time \/ (pwm'[d].time = 0 /\ pwm[d].time = 0)]_ioVars
    OBVIOUS
  <1> DEFINE Descriptors == [cnt : Nat, time : Nat, period : Nat, duty : 0..100, flag : {0, 1}]
  <1>1. pwm \in [PwmDevs -> Descriptors] /\ turn \in 0..4 /\ level \in [PwmDevs -> {0, 1}]
    BY DEF SoundInv
  <1>2. \A d \in PwmDevs : pwm[d].time \in Nat
    BY <1>1
  <1>3. CASE UNCHANGED pwmVars /\ ~softPWM_thread
    <2>1. UNCHANGED <<pwm, level, turn>>
      BY <1>3 DEF pwmVars
    <2>2. SoundInv'
      BY <2>1 DEF SoundInv
    <2> QED BY <1>2, <1>3, <2>1, <2>2
  <1>4. CASE PwmStart
    <2>1. /\ turn = 0 /\ turn' = 1 /\ level' = level
          /\ pwm' = [d \in PwmDevs |-> sotfPwmSet(d)]
      BY <1>4 DEF PwmStart
    <2>2. ASSUME NEW d \in PwmDevs
          PROVE  /\ sotfPwmSet(d) \in Descriptors
                 /\ sotfPwmSet(d).flag = Settings[d].flag
                 /\ sotfPwmSet(d).time <= Settings[d].time \div div
      <3>1. Settings[d] \in [time : Nat, per : Nat, duty : 0..100, flag : {0, 1}]
        BY SettingsAssumption
      <3>2. \A i \in Nat : i \div 10 \in Nat
        OBVIOUS
      <3>3. Settings[d].time \div div \in Nat /\ Settings[d].per \div div \in Nat
        BY <3>1, <3>2 DEF div
      <3>4. pwm[d].cnt \in Nat
        BY <1>1
      <3> QED BY <3>1, <3>3, <3>4 DEF sotfPwmSet
    <2>3. \A d \in PwmDevs : level'[d] = 0
      BY <2>1 DEF SoundInv
    <2>4. SoundInv'
      BY <1>1, <2>1, <2>2, <2>3 DEF SoundInv
    <2> QED BY <2>1, <2>4
  <1>5. CASE softPwm_process
    <2> DEFINE c == Order[turn]
               p == Ticked(pwm[c])
    <2>1. /\ turn # 0 /\ turn' = IF turn = 4 THEN 1 ELSE turn + 1
          /\ pwm' = [pwm EXCEPT ![c] = p] /\ level' = [level EXCEPT ![c] = Output(p)]
      BY <1>5 DEF softPwm_process
    <2>2. c \in PwmDevs
      BY <1>1, <2>1 DEF Order, PwmDevs
    <2>3. /\ p \in Descriptors /\ p.flag = pwm[c].flag
          /\ p.time <= pwm[c].time /\ (pwm[c].time = 0 \/ p.time < pwm[c].time)
      BY <1>1, <2>2, TickedIs
    <2> HIDE DEF p, c
    <2>4. /\ Output(p) \in {0, 1}
          /\ Output(p) = 1 => p.time # 0 \/ p.flag = 1
      BY OutputIs DEF Active
    <2>5. /\ pwm'[c] = p /\ level'[c] = Output(p)
          /\ \A d \in PwmDevs : d # c => pwm'[d] = pwm[d] /\ level'[d] = level[d]
          /\ pwm' \in [PwmDevs -> Descriptors] /\ level' \in [PwmDevs -> {0, 1}]
      BY <1>1, <2>1, <2>2, <2>3, <2>4
    <2>6. turn' \in 1..4
      BY <1>1, <2>1
    <2>7. ASSUME NEW d \in PwmDevs
          PROVE  /\ pwm'[d].flag = Settings[d].flag
                 /\ pwm'[d].time <= pwm[d].time
                 /\ pwm'[d].time <= Settings[d].time \div div
                 /\ level'[d] = 1 => pwm'[d].time > 0 \/ pwm'[d].flag = 1
                 /\ c = d => pwm'[d].time < pwm[d].time \/ (pwm'[d].time = 0 /\ pwm[d].time = 0)
      <3>1. /\ pwm[d].flag = Settings[d].flag /\ pwm[d].time <= Settings[d].time \div div
            /\ level[d] = 1 => pwm[d].time > 0 \/ pwm[d].flag = 1
        BY <2>1 DEF SoundInv
      <3>2. Settings[d].time \div div \in Int
        <4>1. Settings[d].time \in Nat
          BY SettingsAssumption
        <4> QED BY <4>1 DEF div
      <3>3. CASE d # c
        BY <1>2, <2>5, <3>1, <3>3
      <3>4. CASE d = c
        <4>1. p.time \in Nat /\ pwm[c].time \in Nat
          BY <1>2, <2>2, <2>3
        <4> QED BY <2>3, <2>4, <2>5, <3>1, <3>2, <3>4, <4>1
      <3> QED BY <3>3, <3>4
    <2>8. SoundInv'
      BY <2>5, <2>6, <2>7 DEF SoundInv
    <2> QED BY <2>7, <2>8 DEF c
  <1>6. button_thread \/ Contact => UNCHANGED pwmVars
    BY DEF button_thread, Poll, PollElse, Debounce, Contact
  <1>7. CASE UNCHANGED ioVars
    <2>1. UNCHANGED <<pwm, level, turn>>
      BY <1>7 DEF ioVars
    <2>2. SoundInv'
      BY <2>1 DEF SoundInv
    <2> QED BY <1>7, <2>2
  <1> QED BY <1>3, <1>4, <1>5, <1>6, <1>7 DEF Io_Next, softPWM_thread

\* softPWM_thread: for every setting, a device with a duration is driven during
\* at most a tenth of it, counted in calls for that device, and then never
\* again: what DurationObeyed says of fair schedules, in numbers.
THEOREM DurationBounded == Io_Spec => []SoundsWhileLeft /\ DurationSteps
  <1>1. Io_Init => SoundInv
    BY DEF Io_Init, SoundInv
  <1>2. SoundInv => SoundsWhileLeft
    <2> SUFFICES ASSUME SoundInv, NEW d \in PwmDevs, level[d] = 1, Settings[d].flag = 0
                 PROVE  pwm[d].time \in 1..(Settings[d].time \div div)
      BY DEF SoundsWhileLeft
    <2>1. pwm[d].time \in Nat /\ Settings[d].time \in Nat
      BY SettingsAssumption DEF SoundInv
    <2>2. pwm[d].time > 0 /\ pwm[d].time <= Settings[d].time \div div
      BY DEF SoundInv
    <2>3. Settings[d].time \div div \in Int
      BY <2>1 DEF div
    <2> QED BY <2>1, <2>2, <2>3
  <1> QED BY <1>1, <1>2, SoundStep, PTL DEF Io_Spec, DurationSteps

\* The head and the tail of a call of up to four transactions.
LEMMA OneLeft == \A s, a : s = <<a>> => Head(s) = a /\ Tail(s) = <<>>
  OBVIOUS

\* ... of two of them, ...
LEMMA TwoLeft ==
    \A s, a, b : s = <<a, b>> => Head(s) = a /\ Tail(s) = <<b>> /\ Tail(s) # <<>>
  OBVIOUS

\* ... of three, ...
LEMMA ThreeLeft ==
    \A s, a, b, x : s = <<a, b, x>> => Head(s) = a /\ Tail(s) = <<b, x>> /\ Tail(s) # <<>>
  OBVIOUS

\* ... and of four.
LEMMA FourLeft ==
    \A s, a, b, x, y :
        s = <<a, b, x, y>> => Head(s) = a /\ Tail(s) = <<b, x, y>> /\ Tail(s) # <<>>
  OBVIOUS

\* Two calls of two transactions, one after the other.
LEMMA Joined ==
    \A a, b, x, y : <<a, b>> \o <<x, y>> = <<a, b, x, y>>
  <1> TAKE a, b, x, y
  <1> DEFINE S == {a, b, x, y}
             s == <<a, b>>
             t == <<x, y>>
             u == <<a, b, x, y>>
  <1>1. /\ s \in Seq(S) /\ t \in Seq(S) /\ u \in Seq(S)
        /\ Len(s) = 2 /\ Len(t) = 2 /\ Len(u) = 4
    OBVIOUS
  <1>1a. s[1] = a /\ s[2] = b /\ t[1] = x /\ t[2] = y /\ u[1] = a /\ u[2] = b /\ u[3] = x /\ u[4] = y
    OBVIOUS
  <1> HIDE DEF s, t, u, S
  <1>2. /\ s \o t \in Seq(S) /\ Len(s \o t) = 4
        /\ (s \o t)[1] = a /\ (s \o t)[2] = b /\ (s \o t)[3] = x /\ (s \o t)[4] = y
    <2>1. s \o t \in Seq(S) /\ Len(s \o t) = Len(s) + Len(t)
      BY <1>1, ConcatProperties
    <2>2. \A i \in 1..(Len(s) + Len(t)) : (s \o t)[i] = IF i <= Len(s) THEN s[i] ELSE t[i - Len(s)]
      BY <1>1, ConcatProperties
    <2> QED BY <1>1, <1>1a, <2>1, <2>2
  <1>3. \A i \in 1..4 : (s \o t)[i] = u[i]
    BY <1>1a, <1>2
  <1>4. s \o t = u
    BY <1>1, <1>2, <1>3
  <1> QED BY <1>4 DEF s, t, u


\* A number below the modulus is its own remainder.
LEMMA SmallRemainder ==
    ASSUME NEW m \in Nat \ {0}, NEW x \in Nat, x < m
    PROVE  x % m = x /\ x \div m = 0
  <1>1. x = m * (x \div m) + (x % m) /\ x \div m \in Int /\ x % m \in 0..(m - 1)
    OBVIOUS
  <1>2. \A q \in Int : q >= 1 => m * q >= m
    BY SMT
  <1>3. \A q \in Int : q <= -1 => m * q <= -m
    BY SMT
  <1>4. x \div m = 0
    BY <1>1, <1>2, <1>3
  <1> QED BY <1>1, <1>4

\* A counter value in its two registers.
LEMMA Halves ==
    ASSUME NEW v \in Nat
    PROVE  v \div Byte \in Nat /\ v % Byte \in Nat
  <1>1. Byte \in Nat \ {0}
    BY HalvesAssumption
  <1>2. v = Byte * (v \div Byte) + (v % Byte) /\ v \div Byte \in Int /\ v % Byte \in 0..(Byte - 1)
    BY <1>1
  <1>3. \A q \in Int : q <= -1 => Byte * q <= -Byte
    BY <1>1, SMT
  <1>4. v \div Byte >= 0
    BY <1>1, <1>2, <1>3
  <1> QED BY <1>1, <1>2, <1>4

\* The number of counter values is positive.
LEMMA Max12Type == Max12 \in Nat \ {0} /\ 0 % Max12 = 0
  <1>1. Max12 \in Nat \ {0}
    BY HalvesAssumption, SMT DEF Max12
  <1> QED BY <1>1, SmallRemainder

----------------------------------------------------------------------------
(* The registers.                                                          *)

\* The two registers of a half, and the two halves of a channel.
Register == [full : BOOLEAN, hi : Nat, lo : Nat]
Led == [on : Register, off : Register]

\* A channel has one of its full bits set.
FullBit(l) == l.on.full \/ l.off.full

\* Then that bit decides what it is set to.
LEMMA CommandedValue ==
    \A l \in Led : FullBit(l) => Commanded(l) = IF l.off.full THEN 0 ELSE Max12
  BY DEF Led, Register, FullBit, Commanded

\* A word of a counter's value fits its registers.
LEMMA WordType == \A f \in BOOLEAN : \A v \in Nat : Word(f, v) \in Register
  BY Halves DEF Word, Register

----------------------------------------------------------------------------
(* The calls.                                                              *)

\* The types of what the chip and the calls hold.
PcaTypes ==
    /\ led \in [Pins -> Led]
    /\ todo = [c \in Callers |-> todo[c]]
    /\ state \in [Callers -> Nat]
    /\ target \in [Callers -> Pins \cup {PIN_ALL}]
    /\ target["main"] = PIN_ALL
    /\ asked \in [Pins -> {0, Max12}]
    /\ clashed \subseteq Pins
    /\ inited \in {"no", "running", "yes", "failed"}

\* MODE1 is as it was powered up; what pca9685PWMSetFreq writes back is what it
\* has read first.
Asleep ==
    /\ mode1 = [sleep |-> TRUE, ai |-> FALSE, restart |-> FALSE]
    /\ inited = "running" =>
         \/ todo["main"] # <<>> /\ Head(todo["main"]) = ReadMode
         \/ local = mode1

\* The channels of the call of t that no other call is about.
Mine(t) == baseReg(target[t]) \ clashed

\* They are as the call found them, it asks v of them, or they are as was asked.
Old(t) == \A p \in Mine(t) : Commanded(led[p]) = before[p]
Asks(t, v) == \A p \in Mine(t) : asked[p] = v
Settled(t) == \A p \in Mine(t) : Commanded(led[p]) = asked[p]

\* Where a call stands: pca9685FullOff, ...
OffReads(t) ==
    /\ todo[t] = <<Read8(target[t], "off"), Write8(target[t], "off", TRUE)>>
    /\ Asks(t, 0) /\ Old(t)
OffWrites(t) ==
    /\ todo[t] = <<Write8(target[t], "off", TRUE)>>
    /\ Asks(t, 0) /\ Old(t)

\* ... pca9685FullOn, ...
OnReads(t) ==
    /\ todo[t] = <<Read8(target[t], "on"), Write8(target[t], "on", TRUE),
                   Read8(target[t], "off"), Write8(target[t], "off", FALSE)>>
    /\ Asks(t, Max12) /\ Old(t)
OnWrites(t) ==
    /\ todo[t] = <<Write8(target[t], "on", TRUE),
                   Read8(target[t], "off"), Write8(target[t], "off", FALSE)>>
    /\ Asks(t, Max12) /\ Old(t)

\* The full-on bits are set, and full-off may still hide them.
TurnedOn(t) == \A p \in Mine(t) : led[p].on.full
ClearReads(t) ==
    /\ todo[t] = <<Read8(target[t], "off"), Write8(target[t], "off", FALSE)>>
    /\ Asks(t, Max12) /\ Old(t) /\ TurnedOn(t)
ClearWrites(t) ==
    /\ todo[t] = <<Write8(target[t], "off", FALSE)>>
    /\ Asks(t, Max12) /\ Old(t) /\ TurnedOn(t)

\* ... pca9685PWMWrite.
CountOn(t) ==
    \E v \in Nat :
        /\ todo[t] = <<Write16(target[t], "on", Word(FALSE, 0)),
                       Write16(target[t], "off", Word(FALSE, v))>>
        /\ Settled(t)
CountOff(t) ==
    \E v \in Nat : todo[t] = <<Write16(target[t], "off", Word(FALSE, v))>> /\ Settled(t)

\* A thread is between two calls or at a point of one of them.
CallInv(t) ==
    \/ todo[t] = <<>>
    \/ OffReads(t) \/ OffWrites(t)
    \/ OnReads(t) \/ OnWrites(t) \/ ClearReads(t) \/ ClearWrites(t)
    \/ CountOn(t) \/ CountOff(t)

\* The transactions of pca9685Setup, none of which changes a full bit.
ModeOps == {WriteMode(sl, rs) : sl \in BOOLEAN, rs \in BOOLEAN}
PrescaleOps == {WritePrescale(Prescale(f)) : f \in Freqs \cup {FREQ_MIN, FREQ_MAX}}
LaterOps ==
    {NewNode, Write16(PIN_ALL, "on", Word(FALSE, 0)), Write16(PIN_ALL, "off", Word(TRUE, 0))}
        \cup ModeOps \cup PrescaleOps
SetupOps == {ReadMode} \cup LaterOps

\* Until pca9685Setup has returned, every channel is full-off and no thread calls.
SettingUp ==
    /\ todo["main"] \in Seq(SetupOps)
    /\ inited # "running" => todo["main"] = <<>>
    /\ inited # "yes" => /\ \A p \in Pins : led[p].off.full
                         /\ asked = [p \in Pins |-> 0]
                         /\ clashed = {}
                         /\ \A t \in Threads : todo[t] = <<>>

\* A channel that no two calls were about at once: its full bits, what it is set
\* to between calls, the one call that is about it, and where that stands.
ChannelInv ==
    /\ \A p \in Pins \ clashed : FullBit(led[p])
    /\ \A p \in Pins \ clashed : ~ Busy(p) => Commanded(led[p]) = asked[p]
    /\ \A p \in Pins \ clashed, s, t \in Callers :
         /\ todo[s] # <<>> /\ p \in baseReg(target[s])
         /\ todo[t] # <<>> /\ p \in baseReg(target[t])
         => s = t
    /\ \A t \in Threads : CallInv(t)

\* The inductive invariant of the PCA9685.
PcaInv == PcaTypes /\ Asleep /\ SettingUp /\ ChannelInv

----------------------------------------------------------------------------

\* A step that is about other channels leaves a call where it stands.
LEMMA CallKept ==
    ASSUME NEW t, CallInv(t),
           todo'[t] = todo[t], target'[t] = target[t], clashed \subseteq clashed',
           \A p \in baseReg(target[t]) \ clashed' :
               led'[p] = led[p] /\ asked'[p] = asked[p] /\ before'[p] = before[p]
    PROVE  CallInv(t)'
  <1>1. \A p \in Mine(t)' : /\ p \in Mine(t) /\ led'[p] = led[p]
                            /\ asked'[p] = asked[p] /\ before'[p] = before[p]
    BY DEF Mine
  <1>2. /\ \A v : Asks(t, v) => Asks(t, v)'
        /\ Old(t) => Old(t)'
        /\ Settled(t) => Settled(t)'
        /\ TurnedOn(t) => TurnedOn(t)'
    BY <1>1 DEF Asks, Old, Settled, TurnedOn
  <1>3. (OffReads(t) => OffReads(t)') /\ (OffWrites(t) => OffWrites(t)')
    BY <1>2 DEF OffReads, OffWrites
  <1>4. (OnReads(t) => OnReads(t)') /\ (OnWrites(t) => OnWrites(t)')
    BY <1>2 DEF OnReads, OnWrites
  <1>5. (ClearReads(t) => ClearReads(t)') /\ (ClearWrites(t) => ClearWrites(t)')
    BY <1>2 DEF ClearReads, ClearWrites
  <1>6. (CountOn(t) => CountOn(t)') /\ (CountOff(t) => CountOff(t)')
    BY <1>2 DEF CountOn, CountOff
  <1> QED BY <1>3, <1>4, <1>5, <1>6 DEF CallInv

\* What the chip holds when it is powered up.
LEMMA PoweredUpValue == PoweredUp \in Led /\ PoweredUp.off.full
  <1>1. Word(FALSE, 0) \in Register /\ Word(TRUE, 0) \in Register /\ Word(TRUE, 0).full
    BY WordType DEF Word
  <1> QED BY <1>1 DEF PoweredUp, Led

\* While pca9685Setup runs, every channel is off as it was asked to be.
LEMMA SetupChannels == PcaTypes /\ SettingUp /\ inited # "yes" => ChannelInv
  <1> SUFFICES ASSUME PcaTypes, SettingUp, inited # "yes" PROVE ChannelInv
    OBVIOUS
  <1>1. \A p \in Pins : led[p] \in Led /\ led[p].off.full /\ asked[p] = 0
    BY DEF PcaTypes, SettingUp
  <1>2. \A p \in Pins : FullBit(led[p]) /\ Commanded(led[p]) = asked[p]
    BY <1>1, CommandedValue DEF FullBit
  <1>3. \A t \in Threads : todo[t] = <<>>
    BY DEF SettingUp
  <1> QED BY <1>2, <1>3 DEF ChannelInv, CallInv, Callers

\* The invariant holds before pca9685Setup.
LEMMA PcaInit == Pca_Init => PcaInv
  <1> SUFFICES ASSUME Pca_Init PROVE PcaInv
    OBVIOUS
  <1>1. PcaTypes
    BY PoweredUpValue DEF Pca_Init, PcaTypes, Callers
  <1>2. SettingUp
    <2>1. <<>> \in Seq(SetupOps)
      OBVIOUS
    <2>2. \A p \in Pins : led[p] = PoweredUp
      BY DEF Pca_Init
    <2> QED BY <2>1, <2>2, PoweredUpValue DEF Pca_Init, SettingUp, Callers
  <1>3. Asleep /\ inited = "no"
    BY DEF Pca_Init, Asleep
  <1> QED BY <1>1, <1>2, <1>3, SetupChannels DEF PcaInv

\* What a transaction does to the calls.
Transaction(c) ==
    \/ ReadReg8(c) \/ WriteReg8(c) \/ WriteReg16(c)
    \/ Mode_Read(c) \/ Mode_Write(c) \/ Prescale_Write(c) \/ Node_Made(c)

\* A transaction is the head of its call, and changes nothing but the chip and
\* what was read.
LEMMA TransactionFrame ==
    ASSUME NEW c, Transaction(c)
    PROVE  /\ todo[c] # <<>> /\ todo' = [todo EXCEPT ![c] = Tail(@)]
           /\ UNCHANGED <<target, inited, asked, before, clashed>>
  BY DEF Transaction, ReadReg8, WriteReg8, WriteReg16, Mode_Read, Mode_Write, Prescale_Write,
         Node_Made, Next_Op, history

\* Which of them it is, the head of the call says.
LEMMA ReadStep ==
    ASSUME PcaTypes, NEW c \in Callers, Transaction(c),
           NEW pin \in Pins \cup {PIN_ALL}, NEW half \in {"on", "off"},
           Head(todo[c]) = Read8(pin, half)
    PROVE  UNCHANGED <<led, mode1, local>> /\ state' \in [Callers -> Nat]
  <1>1. Op(c).op = "read" /\ Op(c).pin = pin /\ Op(c).half = half
    BY DEF Op, Read8
  <1>2. ReadReg8(c)
    BY <1>1 DEF Transaction, WriteReg8, WriteReg16, Mode_Read, Mode_Write, Prescale_Write,
       Node_Made, Next_Op, Op
  <1>3. /\ UNCHANGED <<led, mode1, local>>
        /\ state' = [state EXCEPT ![c] = IF pin >= PIN_ALL THEN 0 ELSE led[pin][half].hi]
    BY <1>1, <1>2 DEF ReadReg8
  <1>4. (IF pin >= PIN_ALL THEN 0 ELSE led[pin][half].hi) \in Nat
    <2>1. CASE pin >= PIN_ALL
      BY <2>1
    <2>2. CASE ~ pin >= PIN_ALL
      <3>1. pin \in Pins
        BY <2>2, PinsAssumption
      <3>2. led[pin] \in Led
        BY <3>1 DEF PcaTypes
      <3>3. led[pin][half].hi \in Nat
        BY <3>2 DEF Led, Register
      <3> QED BY <2>2, <3>3
    <2> QED BY <2>1, <2>2
  <1> QED BY <1>3, <1>4 DEF PcaTypes

\* A write of a high register, when the head of the call says so.
LEMMA Write8Step ==
    ASSUME PcaTypes, NEW c \in Callers, Transaction(c),
           NEW pin \in Pins \cup {PIN_ALL}, NEW half \in {"on", "off"}, NEW tf \in BOOLEAN,
           Head(todo[c]) = Write8(pin, half, tf)
    PROVE  /\ UNCHANGED <<state, mode1, local>>
           /\ led' \in [Pins -> Led]
           /\ \A p \in Pins \ baseReg(pin) : led'[p] = led[p]
           /\ \A p \in Pins \cap baseReg(pin) :
                /\ led'[p][half].full = tf
                /\ \A o \in {"on", "off"} : o # half => led'[p][o] = led[p][o]
  <1>1. Op(c).op = "write8" /\ Op(c).pin = pin /\ Op(c).half = half /\ Op(c).full = tf
    BY DEF Op, Write8
  <1>2. WriteReg8(c)
    BY <1>1 DEF Transaction, ReadReg8, WriteReg16, Mode_Read, Mode_Write, Prescale_Write,
       Node_Made, Next_Op, Op
  <1>3. /\ UNCHANGED <<state, mode1, local>>
        /\ led' = [p \in Pins |-> IF p \notin baseReg(pin) THEN led[p]
                ELSE [led[p] EXCEPT ![half] = [full |-> tf, hi |-> state[c], lo |-> @.lo]]]
    BY <1>1, <1>2 DEF WriteReg8
  <1>4. state[c] \in Nat /\ \A p \in Pins : led[p] \in Led
    BY DEF PcaTypes
  <1>5. ASSUME NEW l \in Led
        PROVE  LET n == [l EXCEPT ![half] = [full |-> tf, hi |-> state[c], lo |-> @.lo]]
               IN  /\ n \in Led /\ n[half].full = tf
                   /\ \A o \in {"on", "off"} : o # half => n[o] = l[o]
    <2>1. [full |-> tf, hi |-> state[c], lo |-> l[half].lo] \in Register
      BY <1>4 DEF Led, Register
    <2>2. PICK r \in Register : r = [full |-> tf, hi |-> state[c], lo |-> l[half].lo]
      BY <2>1
    <2>3. r.full = tf
      BY <2>2
    <2>4. LET n == [l EXCEPT ![half] = r]
          IN  /\ n \in Led /\ n[half] = r
              /\ \A o \in {"on", "off"} : o # half => n[o] = l[o]
      BY DEF Led
    <2> QED BY <2>2, <2>3, <2>4
  <1> QED BY <1>3, <1>4, <1>5

\* A write of a word, which goes to the low register: the chip has no
\* auto-increment.
LEMMA Write16Step ==
    ASSUME PcaTypes, Asleep, NEW c \in Callers, Transaction(c),
           NEW pin \in Pins \cup {PIN_ALL}, NEW half \in {"on", "off"}, NEW w \in Register,
           Head(todo[c]) = Write16(pin, half, w)
    PROVE  /\ UNCHANGED <<state, mode1, local>>
           /\ led' \in [Pins -> Led]
           /\ \A p \in Pins \ baseReg(pin) : led'[p] = led[p]
           /\ \A p \in Pins : /\ led'[p].on.full = led[p].on.full
                              /\ led'[p].off.full = led[p].off.full
  <1>1. Op(c).op = "write16" /\ Op(c).pin = pin /\ Op(c).half = half /\ Op(c).word = w
    BY DEF Op, Write16
  <1>2. WriteReg16(c)
    BY <1>1 DEF Transaction, ReadReg8, WriteReg8, Mode_Read, Mode_Write, Prescale_Write,
       Node_Made, Next_Op, Op
  <1>3. PICK n \in Nat : n = w.hi + (IF w.full THEN Nibble ELSE 0)
    BY HalvesAssumption DEF Register
  <1>4. \A r : Stored(r, w) = [r EXCEPT !.lo = n]
    <2>1. ~ mode1.ai
      BY DEF Asleep
    <2> QED BY <1>3, <2>1 DEF Stored
  <1>5. /\ UNCHANGED <<state, mode1, local>>
        /\ led' = [p \in Pins |-> IF p \notin baseReg(pin) THEN led[p]
                ELSE [led[p] EXCEPT ![half] = Stored(led[p][half], w)]]
    BY <1>1, <1>2 DEF WriteReg16
  <1>6. ASSUME NEW l \in Led
        PROVE  LET m == [l EXCEPT ![half] = Stored(l[half], w)]
               IN  m \in Led /\ m.on.full = l.on.full /\ m.off.full = l.off.full
    <2>1. l[half] \in Register
      BY DEF Led
    <2>2. \A r \in Register : [r EXCEPT !.lo = n] \in Register /\ [r EXCEPT !.lo = n].full = r.full
      BY DEF Register
    <2>3. PICK r \in Register : r = Stored(l[half], w) /\ r.full = l[half].full
      BY <1>4, <2>1, <2>2
    <2>4. LET m == [l EXCEPT ![half] = r]
          IN  m \in Led /\ m.on.full = l.on.full /\ m.off.full = l.off.full
      BY <2>3 DEF Led
    <2> QED BY <2>3, <2>4
  <1>7. \A p \in Pins : led[p] \in Led
    BY DEF PcaTypes
  <1> QED BY <1>5, <1>6, <1>7

\* The channels of a pin.
LEMMA Channels ==
    \A pin \in Pins \cup {PIN_ALL} :
        /\ baseReg(pin) \subseteq Pins
        /\ ~ pin >= PIN_ALL => baseReg(pin) = {pin}
  BY PinsAssumption DEF baseReg

\* What a transaction of a thread has to keep.
LEMMA OpKept ==
    ASSUME PcaInv, NEW c \in Threads, Transaction(c),
           led' \in [Pins -> Led], state' \in [Callers -> Nat], UNCHANGED <<mode1, local>>,
           \A p \in Pins \ baseReg(target[c]) : led'[p] = led[p],
           \A p \in Mine(c) : FullBit(led'[p]),
           CallInv(c)',
           Tail(todo[c]) = <<>> => \A p \in Mine(c) : Commanded(led'[p]) = asked[p]
    PROVE  PcaInv'
  <1>1. /\ todo[c] # <<>> /\ todo' = [todo EXCEPT ![c] = Tail(@)]
        /\ UNCHANGED <<target, inited, asked, before, clashed>>
    BY TransactionFrame
  <1>2. c \in Callers /\ "main" \in Callers /\ c # "main"
    BY OwnsAssumption DEF Callers
  <1>3. inited = "yes" /\ todo["main"] = <<>>
    BY <1>1 DEF PcaInv, SettingUp
  <1>4. /\ todo' = [t \in Callers |-> todo'[t]] /\ todo'[c] = Tail(todo[c])
        /\ \A t \in Callers : t # c => todo'[t] = todo[t]
    <2>1. todo = [t \in Callers |-> todo[t]]
      BY DEF PcaInv, PcaTypes
    <2> QED BY <1>1, <1>2, <2>1
  <1>5. PcaTypes'
    BY <1>1, <1>4 DEF PcaInv, PcaTypes
  <1>6. SettingUp' /\ Asleep'
    BY <1>1, <1>2, <1>3, <1>4 DEF PcaInv, SettingUp, Asleep
  <1>7. Mine(c) = baseReg(target[c]) \ clashed /\ baseReg(target[c]) \subseteq Pins
    BY <1>2, Channels DEF PcaInv, PcaTypes, Mine
  <1>8. ASSUME NEW p \in Pins \ clashed PROVE FullBit(led'[p])
    <2>1. CASE p \in baseReg(target[c])
      BY <1>7, <1>8, <2>1
    <2>2. CASE p \notin baseReg(target[c])
      <3>1. FullBit(led[p]) /\ led'[p] = led[p]
        BY <2>2 DEF PcaInv, ChannelInv
      <3> QED BY <3>1
    <2> QED BY <2>1, <2>2
  <1>9. ASSUME NEW p \in Pins \ clashed, ~ Busy(p)' PROVE Commanded(led'[p]) = asked[p]
    <2>1. CASE p \in baseReg(target[c])
      <3>1. todo'[c] = <<>>
        BY <1>1, <1>2, <1>9, <2>1 DEF Busy
      <3> QED BY <1>4, <1>7, <1>9, <2>1, <3>1
    <2>2. CASE p \notin baseReg(target[c])
      <3>1. ~ Busy(p)
        BY <1>1, <1>4, <1>9, <2>2 DEF Busy
      <3>2. led'[p] = led[p] /\ Commanded(led[p]) = asked[p]
        BY <2>2, <3>1 DEF PcaInv, ChannelInv
      <3> QED BY <3>2
    <2> QED BY <2>1, <2>2
  <1>10. ASSUME NEW p \in Pins \ clashed, NEW s \in Callers, NEW t \in Callers,
                todo'[s] # <<>>, p \in baseReg(target[s]),
                todo'[t] # <<>>, p \in baseReg(target[t])
         PROVE  s = t
    <2>1. todo[s] # <<>> /\ todo[t] # <<>>
      BY <1>1, <1>4, <1>10
    <2> QED BY <1>10, <2>1 DEF PcaInv, ChannelInv
  <1>11. ASSUME NEW t \in Threads PROVE CallInv(t)'
    <2>1. CASE t = c
      BY <2>1
    <2>2. CASE t # c
      <3>1. t \in Callers /\ todo'[t] = todo[t] /\ target'[t] = target[t]
            /\ CallInv(t) /\ clashed' = clashed
        BY <1>1, <1>4, <2>2 DEF Callers, PcaInv, ChannelInv
      <3>2. CASE todo[t] = <<>>
        BY <3>1, <3>2 DEF CallInv
      <3>3. CASE todo[t] # <<>>
        <4>1. ASSUME NEW p \in baseReg(target[t]) \ clashed'
              PROVE led'[p] = led[p] /\ asked'[p] = asked[p] /\ before'[p] = before[p]
          <5>1. p \in Pins \ clashed
            BY <3>1, Channels DEF PcaInv, PcaTypes
          <5>2. p \notin baseReg(target[c])
            BY <1>1, <1>2, <2>2, <3>1, <3>3, <5>1 DEF PcaInv, ChannelInv
          <5> QED BY <1>1, <5>1, <5>2
        <4> QED BY <3>1, <4>1, CallKept
      <3> QED BY <3>2, <3>3
    <2> QED BY <2>1, <2>2
  <1>12. ChannelInv'
    BY <1>1, <1>8, <1>9, <1>10, <1>11 DEF ChannelInv, FullBit
  <1> QED BY <1>5, <1>6, <1>12 DEF PcaInv

\* A transaction of a thread: a call goes on where it stands.
LEMMA OpStep == ASSUME PcaInv, NEW c \in Threads, Transaction(c) PROVE PcaInv'
  <1>1. /\ todo[c] # <<>> /\ todo' = [todo EXCEPT ![c] = Tail(@)]
        /\ UNCHANGED <<target, inited, asked, before, clashed>>
    BY TransactionFrame
  <1>2. /\ c \in Callers /\ target[c] \in Pins \cup {PIN_ALL} /\ PcaTypes /\ Asleep
        /\ CallInv(c)
    BY DEF Callers, PcaInv, PcaTypes, ChannelInv
  <1>3. todo'[c] = Tail(todo[c])
    <2>1. todo = [t \in Callers |-> todo[t]]
      BY <1>2 DEF PcaTypes
    <2> QED BY <1>1, <1>2, <2>1
  <1>4. /\ Mine(c) \subseteq Pins \ clashed /\ Mine(c) \subseteq baseReg(target[c])
        /\ Mine(c)' = Mine(c)
    BY <1>1, <1>2, Channels DEF Mine
  <1>5. \A p \in Mine(c) : led[p] \in Led /\ FullBit(led[p])
    BY <1>2, <1>4 DEF PcaInv, ChannelInv, PcaTypes
  <1>6. \A v : Asks(c, v) => Asks(c, v)'
    BY <1>1, <1>4 DEF Asks
  \* Reads.
  <1>7. ASSUME NEW half \in {"on", "off"}, Head(todo[c]) = Read8(target[c], half),
               Tail(todo[c]) # <<>>
        PROVE  /\ Old(c) => Old(c)'
               /\ TurnedOn(c) => TurnedOn(c)'
               /\ CallInv(c)' => PcaInv'
    <2>1. UNCHANGED <<led, mode1, local>> /\ state' \in [Callers -> Nat]
      BY <1>2, <1>7, ReadStep
    <2>2. (Old(c) => Old(c)') /\ (TurnedOn(c) => TurnedOn(c)')
      BY <1>1, <1>4, <2>1 DEF Old, TurnedOn
    <2>3. ASSUME CallInv(c)' PROVE PcaInv'
      <3>1. led' \in [Pins -> Led] /\ \A p \in Mine(c) : FullBit(led'[p])
        BY <1>2, <1>5, <2>1 DEF PcaTypes
      <3> QED BY <1>7, <2>1, <2>3, <3>1, OpKept
    <2> QED BY <2>2, <2>3
  \* Writes of a high register.
  <1>8. ASSUME NEW half \in {"on", "off"}, NEW tf \in BOOLEAN,
               Head(todo[c]) = Write8(target[c], half, tf)
        PROVE  /\ \A p \in Mine(c) :
                    /\ half = "off" => led'[p].on = led[p].on /\ led'[p].off.full = tf
                    /\ half = "on" => led'[p].off = led[p].off /\ led'[p].on.full = tf
                    /\ led'[p] \in Led
               /\ /\ \A p \in Mine(c) : FullBit(led'[p])
                  /\ CallInv(c)'
                  /\ Tail(todo[c]) = <<>> => \A p \in Mine(c) : Commanded(led'[p]) = asked[p]
                  => PcaInv'
    <2>1. /\ UNCHANGED <<state, mode1, local>>
          /\ led' \in [Pins -> Led]
          /\ \A p \in Pins \ baseReg(target[c]) : led'[p] = led[p]
          /\ \A p \in Pins \cap baseReg(target[c]) :
               /\ led'[p][half].full = tf
               /\ \A o \in {"on", "off"} : o # half => led'[p][o] = led[p][o]
      BY <1>2, <1>8, Write8Step
    <2>2. ASSUME NEW p \in Mine(c)
          PROVE  /\ half = "off" => led'[p].on = led[p].on /\ led'[p].off.full = tf
                 /\ half = "on" => led'[p].off = led[p].off /\ led'[p].on.full = tf
                 /\ led'[p] \in Led
      <3>1. p \in Pins \cap baseReg(target[c])
        BY <1>4
      <3> QED BY <2>1, <3>1
    <2>3. ASSUME \A p \in Mine(c) : FullBit(led'[p]), CallInv(c)',
                 Tail(todo[c]) = <<>> => \A p \in Mine(c) : Commanded(led'[p]) = asked[p]
          PROVE  PcaInv'
      <3>1. state' \in [Callers -> Nat]
        BY <1>2, <2>1 DEF PcaTypes
      <3> QED BY <2>1, <2>3, <3>1, OpKept
    <2> QED BY <2>2, <2>3
  \* Writes of a word.
  <1>9. ASSUME NEW half \in {"on", "off"}, NEW f \in BOOLEAN, NEW v \in Nat, Settled(c),
               Head(todo[c]) = Write16(target[c], half, Word(f, v))
        PROVE  Settled(c)' /\ (CallInv(c)' => PcaInv')
    <2>1. PICK w \in Register : w = Word(f, v)
      BY WordType
    <2>2. /\ UNCHANGED <<state, mode1, local>>
          /\ led' \in [Pins -> Led]
          /\ \A p \in Pins \ baseReg(target[c]) : led'[p] = led[p]
          /\ \A p \in Pins : /\ led'[p].on.full = led[p].on.full
                             /\ led'[p].off.full = led[p].off.full
      <3>1. Head(todo[c]) = Write16(target[c], half, w)
        BY <1>9, <2>1
      <3> QED BY <1>2, <3>1, Write16Step
    <2>3. \A p \in Mine(c) : led'[p] \in Led /\ FullBit(led'[p])
      BY <1>4, <1>5, <2>2 DEF FullBit
    <2>4. \A p \in Mine(c) : Commanded(led'[p]) = Commanded(led[p])
      BY <1>4, <1>5, <2>2, <2>3, CommandedValue
    <2>5. \A p \in Mine(c) : Commanded(led'[p]) = asked[p]
      BY <1>9, <2>4 DEF Settled
    <2>6. Settled(c)'
      BY <1>1, <1>4, <2>5 DEF Settled
    <2>7. state' \in [Callers -> Nat]
      BY <1>2, <2>2 DEF PcaTypes
    <2> QED BY <2>2, <2>3, <2>5, <2>6, <2>7, OpKept
  \* Where the call stands.
  <1>10. CASE OffReads(c)
    <2>1. /\ Head(todo[c]) = Read8(target[c], "off")
          /\ Tail(todo[c]) = <<Write8(target[c], "off", TRUE)>> /\ Tail(todo[c]) # <<>>
      BY <1>10, TwoLeft, Zenon DEF OffReads
    <2>2. Old(c)' /\ (CallInv(c)' => PcaInv')
      BY <1>7, <1>10, <2>1 DEF OffReads
    <2>3. OffWrites(c)'
      BY <1>1, <1>3, <1>6, <1>10, <2>1, <2>2 DEF OffReads, OffWrites
    <2> QED BY <2>2, <2>3 DEF CallInv
  <1>11. CASE OffWrites(c)
    <2>1. Head(todo[c]) = Write8(target[c], "off", TRUE) /\ Tail(todo[c]) = <<>>
      BY <1>11, OneLeft, Zenon DEF OffWrites
    <2>2. \A p \in Mine(c) : led'[p].off.full = TRUE /\ led'[p] \in Led
      BY <1>8, <2>1
    <2>3. \A p \in Mine(c) : FullBit(led'[p]) /\ Commanded(led'[p]) = 0
      BY <2>2, CommandedValue DEF FullBit
    <2>4. \A p \in Mine(c) : Commanded(led'[p]) = asked[p]
      BY <1>11, <2>3 DEF OffWrites, Asks
    <2>5. CallInv(c)'
      BY <1>3, <2>1 DEF CallInv
    <2> QED BY <1>8, <2>1, <2>3, <2>4, <2>5
  <1>12. CASE OnReads(c)
    <2>0. todo[c] = <<Read8(target[c], "on"), Write8(target[c], "on", TRUE),
                   Read8(target[c], "off"), Write8(target[c], "off", FALSE)>>
      BY <1>12 DEF OnReads
    <2>1. /\ Head(todo[c]) = Read8(target[c], "on")
          /\ Tail(todo[c]) = <<Write8(target[c], "on", TRUE),
                               Read8(target[c], "off"), Write8(target[c], "off", FALSE)>>
          /\ Tail(todo[c]) # <<>>
      <3>1. PICK a, b, x, y : /\ a = Read8(target[c], "on") /\ b = Write8(target[c], "on", TRUE)
                              /\ x = Read8(target[c], "off") /\ y = Write8(target[c], "off", FALSE)
        OBVIOUS
      <3>2. todo[c] = <<a, b, x, y>>
        BY <2>0, <3>1
      <3>3. Head(todo[c]) = a /\ Tail(todo[c]) = <<b, x, y>> /\ Tail(todo[c]) # <<>>
        BY <3>2, FourLeft
      <3> QED BY <3>1, <3>3
    <2>2. Old(c)' /\ (CallInv(c)' => PcaInv')
      BY <1>7, <1>12, <2>1 DEF OnReads
    <2>3. OnWrites(c)'
      BY <1>1, <1>3, <1>4, <1>6, <1>12, <2>1, <2>2 DEF OnReads, OnWrites
    <2> QED BY <2>2, <2>3 DEF CallInv
  <1>13. CASE OnWrites(c)
    <2>0. todo[c] = <<Write8(target[c], "on", TRUE),
                   Read8(target[c], "off"), Write8(target[c], "off", FALSE)>>
      BY <1>13 DEF OnWrites
    <2>1. /\ Head(todo[c]) = Write8(target[c], "on", TRUE)
          /\ Tail(todo[c]) = <<Read8(target[c], "off"), Write8(target[c], "off", FALSE)>>
          /\ Tail(todo[c]) # <<>>
      <3>1. PICK a, b, x : /\ a = Write8(target[c], "on", TRUE)
                           /\ b = Read8(target[c], "off") /\ x = Write8(target[c], "off", FALSE)
        OBVIOUS
      <3>2. todo[c] = <<a, b, x>>
        BY <2>0, <3>1
      <3>3. Head(todo[c]) = a /\ Tail(todo[c]) = <<b, x>> /\ Tail(todo[c]) # <<>>
        BY <3>2, ThreeLeft
      <3> QED BY <3>1, <3>3
    <2>2. \A p \in Mine(c) : /\ led'[p] \in Led
                             /\ led'[p].off = led[p].off /\ led'[p].on.full = TRUE
      BY <1>8, <2>1
    <2>3. \A p \in Mine(c) : FullBit(led'[p]) /\ Commanded(led'[p]) = Commanded(led[p])
      BY <1>5, <2>2, CommandedValue DEF FullBit
    <2>4. Old(c)' /\ TurnedOn(c)' /\ Asks(c, Max12)
      BY <1>1, <1>4, <1>13, <2>2, <2>3 DEF OnWrites, Old, TurnedOn
    <2>5. ClearReads(c)'
      BY <1>1, <1>3, <1>6, <2>1, <2>4 DEF ClearReads
    <2>6. CallInv(c)'
      BY <2>5 DEF CallInv
    <2> QED BY <1>8, <2>1, <2>3, <2>6
  <1>14. CASE ClearReads(c)
    <2>1. /\ Head(todo[c]) = Read8(target[c], "off")
          /\ Tail(todo[c]) = <<Write8(target[c], "off", FALSE)>> /\ Tail(todo[c]) # <<>>
      BY <1>14, TwoLeft, Zenon DEF ClearReads
    <2>2. TurnedOn(c)' /\ Old(c)' /\ (CallInv(c)' => PcaInv')
      BY <1>7, <1>14, <2>1 DEF ClearReads
    <2>3. ClearWrites(c)'
      BY <1>1, <1>3, <1>6, <1>14, <2>1, <2>2 DEF ClearReads, ClearWrites
    <2> QED BY <2>2, <2>3 DEF CallInv
  <1>15. CASE ClearWrites(c)
    <2>1. Head(todo[c]) = Write8(target[c], "off", FALSE) /\ Tail(todo[c]) = <<>>
      BY <1>15, OneLeft, Zenon DEF ClearWrites
    <2>2. \A p \in Mine(c) : /\ led'[p] \in Led
                             /\ led'[p].on.full /\ led'[p].off.full = FALSE
      BY <1>8, <1>15, <2>1 DEF ClearWrites, TurnedOn
    <2>3. \A p \in Mine(c) : FullBit(led'[p]) /\ Commanded(led'[p]) = Max12
      BY <2>2, CommandedValue DEF FullBit
    <2>4. \A p \in Mine(c) : Commanded(led'[p]) = asked[p]
      BY <1>15, <2>3 DEF ClearWrites, Asks
    <2>5. CallInv(c)'
      BY <1>3, <2>1 DEF CallInv
    <2> QED BY <1>8, <2>1, <2>3, <2>4, <2>5
  <1>16. CASE CountOn(c)
    <2>1. PICK v \in Nat :
             /\ todo[c] = <<Write16(target[c], "on", Word(FALSE, 0)),
                            Write16(target[c], "off", Word(FALSE, v))>>
             /\ Settled(c)
      BY <1>16 DEF CountOn
    <2>2. /\ Head(todo[c]) = Write16(target[c], "on", Word(FALSE, 0))
          /\ Tail(todo[c]) = <<Write16(target[c], "off", Word(FALSE, v))>>
      BY <2>1, TwoLeft, Zenon
    <2>3. Settled(c)' /\ (CallInv(c)' => PcaInv')
      BY <1>9, <2>1, <2>2
    <2>4. CountOff(c)'
      BY <1>1, <1>3, <2>2, <2>3 DEF CountOff
    <2> QED BY <2>3, <2>4 DEF CallInv
  <1>17. CASE CountOff(c)
    <2>1. PICK v \in Nat :
             todo[c] = <<Write16(target[c], "off", Word(FALSE, v))>> /\ Settled(c)
      BY <1>17 DEF CountOff
    <2>2. Head(todo[c]) = Write16(target[c], "off", Word(FALSE, v)) /\ Tail(todo[c]) = <<>>
      BY <2>1, OneLeft, Zenon
    <2>3. CallInv(c)' => PcaInv'
      BY <1>9, <2>1, <2>2
    <2> QED BY <1>3, <2>2, <2>3 DEF CallInv
  <1> QED BY <1>1, <1>2, <1>10, <1>11, <1>12, <1>13, <1>14, <1>15, <1>16, <1>17 DEF CallInv

\* The transactions of pca9685Setup, by their kind.
LEMMA SetupKinds ==
    \A op \in SetupOps : \/ op.op \in {"readMode", "writeMode", "prescale", "node"}
                         \/ op = Write16(PIN_ALL, "on", Word(FALSE, 0))
                         \/ op = Write16(PIN_ALL, "off", Word(TRUE, 0))
  <1> DEFINE Kinds == {"readMode", "writeMode", "prescale", "node"}
  <1>1. ReadMode.op \in Kinds /\ NewNode.op \in Kinds
    BY DEF ReadMode, NewNode
  <1>2. \A sl, rs : WriteMode(sl, rs).op \in Kinds
    BY DEF WriteMode
  <1>3. \A v : WritePrescale(v).op \in Kinds
    BY DEF WritePrescale
  <1> HIDE DEF Kinds
  <1>4. \A op \in ModeOps : op.op \in Kinds
    BY <1>2 DEF ModeOps
  <1>5. \A op \in PrescaleOps : op.op \in Kinds
    BY <1>3 DEF PrescaleOps
  <1>6. \A op \in SetupOps : \/ op.op \in Kinds
                             \/ op = Write16(PIN_ALL, "on", Word(FALSE, 0))
                             \/ op = Write16(PIN_ALL, "off", Word(TRUE, 0))
    BY <1>1, <1>4, <1>5 DEF SetupOps, LaterOps
  <1> QED BY <1>6 DEF Kinds

\* A transaction of pca9685Setup.
LEMMA MainStep == ASSUME PcaInv, Transaction("main") PROVE PcaInv'
  <1>1. /\ todo["main"] # <<>> /\ todo' = [todo EXCEPT !["main"] = Tail(@)]
        /\ UNCHANGED <<target, inited, asked, before, clashed>>
    BY TransactionFrame
  <1>2. /\ "main" \in Callers /\ PcaTypes /\ Asleep /\ target["main"] = PIN_ALL
        /\ "main" \notin Threads
    BY OwnsAssumption DEF Callers, PcaInv, PcaTypes
  <1>3. /\ inited = "running" /\ todo["main"] \in Seq(SetupOps)
        /\ \A p \in Pins : led[p].off.full
    BY <1>1 DEF PcaInv, SettingUp
  <1>4. PICK op : op = Head(todo["main"]) /\ op \in SetupOps
    BY <1>1, <1>3
  <1>5. Tail(todo["main"]) \in Seq(SetupOps)
    BY <1>1, <1>3
  <1>6. /\ led' \in [Pins -> Led] /\ state' \in [Callers -> Nat]
        /\ \A p \in Pins : led'[p].off.full
        /\ mode1' = mode1 /\ local' = mode1
    <2>1. CASE op = ReadMode
      <3>1. op.op = "readMode"
        BY <2>1 DEF ReadMode
      <3>2. Mode_Read("main")
        BY <1>4, <3>1 DEF Transaction, ReadReg8, WriteReg8, WriteReg16, Mode_Write,
           Prescale_Write, Node_Made, Next_Op
      <3> QED BY <1>2, <1>3, <3>2 DEF Mode_Read, PcaTypes
    <2>2. op # ReadMode => local = mode1
      BY <1>2, <1>3, <1>4 DEF Asleep
    <2>3. CASE op # ReadMode /\ op.op \in {"readMode", "writeMode", "prescale", "node"}
      <3>1. ~ ReadReg8("main") /\ ~ WriteReg8("main") /\ ~ WriteReg16("main")
        BY <1>4, <2>3 DEF ReadReg8, WriteReg8, WriteReg16, Next_Op
      <3>2. UNCHANGED <<led, state>> /\ mode1' = mode1 /\ local' = mode1
        BY <2>2, <2>3, <3>1 DEF Transaction, Mode_Read, Mode_Write, Prescale_Write, Node_Made
      <3> QED BY <1>2, <1>3, <3>2 DEF PcaTypes
    <2>4. ASSUME NEW half \in {"on", "off"}, NEW f \in BOOLEAN,
                 op = Write16(PIN_ALL, half, Word(f, 0)), op # ReadMode
          PROVE  /\ led' \in [Pins -> Led] /\ state' \in [Callers -> Nat]
                 /\ \A p \in Pins : led'[p].off.full
                 /\ mode1' = mode1 /\ local' = mode1
      <3>1. PICK w \in Register : w = Word(f, 0)
        BY WordType
      <3>2. Head(todo["main"]) = Write16(PIN_ALL, half, w)
        BY <1>4, <2>4, <3>1
      <3>3. PIN_ALL \in Pins \cup {PIN_ALL}
        OBVIOUS
      <3>4. /\ UNCHANGED <<state, mode1, local>> /\ led' \in [Pins -> Led]
            /\ \A p \in Pins : led'[p].off.full = led[p].off.full
        BY <1>2, <3>2, <3>3, Write16Step
      <3> QED BY <1>2, <1>3, <2>2, <2>4, <3>4 DEF PcaTypes
    <2>5. \A half, f : Write16(PIN_ALL, half, Word(f, 0)) # ReadMode
      <3>1. ReadMode.op = "readMode" /\ \A half, w : Write16(PIN_ALL, half, w).op = "write16"
        BY DEF ReadMode, Write16
      <3> QED BY <3>1
    <2> QED BY <1>4, <2>1, <2>3, <2>4, <2>5, SetupKinds
  <1>7. /\ todo' = [t \in Callers |-> todo'[t]] /\ todo'["main"] = Tail(todo["main"])
        /\ \A t \in Threads : todo'[t] = todo[t]
    <2>1. todo = [t \in Callers |-> todo[t]]
      BY <1>2 DEF PcaTypes
    <2> QED BY <1>1, <1>2, <2>1 DEF Callers
  <1>8. PcaTypes' /\ Asleep'
    BY <1>1, <1>2, <1>6, <1>7 DEF PcaTypes, Asleep
  <1>9. SettingUp'
    BY <1>1, <1>3, <1>5, <1>6, <1>7 DEF PcaInv, SettingUp
  <1>10. (PcaTypes /\ SettingUp /\ inited # "yes" => ChannelInv)'
    BY SetupChannels, PTL
  <1> QED BY <1>1, <1>3, <1>8, <1>9, <1>10 DEF PcaInv

\* pca9685PWMSetFreq reads MODE1 before it writes it.
LEMMA FreqOps ==
    \A f \in Freqs : /\ pca9685PWMSetFreq(f) \in Seq(SetupOps)
                     /\ pca9685PWMSetFreq(f) # <<>>
                     /\ Head(pca9685PWMSetFreq(f)) = ReadMode
  <1> TAKE f \in Freqs
  <1>1. PICK g \in Freqs \cup {FREQ_MIN, FREQ_MAX} :
           pca9685PWMSetFreq(f) =
              <<ReadMode, WriteMode(TRUE, FALSE), WritePrescale(Prescale(g)),
                WriteMode(FALSE, FALSE), WriteMode(FALSE, TRUE)>>
    BY Zenon DEF pca9685PWMSetFreq
  <1>2. WritePrescale(Prescale(g)) \in SetupOps /\ ReadMode \in SetupOps
    BY DEF SetupOps, LaterOps, PrescaleOps
  <1>3. \A sl, rs \in BOOLEAN : WriteMode(sl, rs) \in SetupOps
    <2>1. \A sl, rs \in BOOLEAN : WriteMode(sl, rs) \in ModeOps
      BY DEF ModeOps
    <2> QED BY <2>1 DEF SetupOps, LaterOps
  <1>4. \A a, b, x, y, z \in SetupOps : /\ <<a, b, x, y, z>> \in Seq(SetupOps)
                                        /\ <<a, b, x, y, z>> # <<>>
                                        /\ Head(<<a, b, x, y, z>>) = a
    OBVIOUS
  <1>5. /\ WriteMode(TRUE, FALSE) \in SetupOps /\ WriteMode(FALSE, FALSE) \in SetupOps
        /\ WriteMode(FALSE, TRUE) \in SetupOps
    BY <1>3
  <1>6. PICK m, x, y, z \in SetupOps :
           /\ m = WriteMode(TRUE, FALSE) /\ x = WritePrescale(Prescale(g))
           /\ y = WriteMode(FALSE, FALSE) /\ z = WriteMode(FALSE, TRUE)
    BY <1>2, <1>5
  <1>7. pca9685PWMSetFreq(f) = <<ReadMode, m, x, y, z>>
    BY <1>1, <1>6, Zenon
  <1> QED BY <1>2, <1>4, <1>7

\* Two sequences, one after the other, begin with the head of the first.
LEMMA HeadJoined ==
    ASSUME NEW S, NEW s \in Seq(S), NEW t \in Seq(S), s # <<>>
    PROVE  s \o t \in Seq(S) /\ s \o t # <<>> /\ Head(s \o t) = Head(s)
  <1>1. Len(s) \in Nat /\ Len(s) > 0 /\ Len(t) \in Nat
    BY EmptySeq, LenProperties
  <1>2. s \o t \in Seq(S) /\ Len(s \o t) = Len(s) + Len(t) /\ (s \o t)[1] = s[1]
    BY <1>1, ConcatProperties
  <1>3. \A u \in Seq(S) : Len(u) > 0 => u # <<>> /\ Head(u) = u[1]
    BY HeadTailProperties, EmptySeq
  <1>4. Len(s \o t) > 0
    BY <1>1, <1>2
  <1> QED BY <1>1, <1>2, <1>3, <1>4

\* pca9685Setup: the bus cannot be opened, or the chip is set up.
LEMMA SetupStep == PcaInv /\ pca9685Setup => PcaInv'
  <1> SUFFICES ASSUME PcaInv, pca9685Setup PROVE PcaInv'
    OBVIOUS
  <1>1. /\ inited = "no"
        /\ UNCHANGED <<led, mode1, state, target, asked, before, clashed>>
    BY DEF pca9685Setup, history
  <1>2. "main" \in Callers /\ "main" \notin Threads /\ PcaTypes /\ SettingUp /\ Asleep
    BY OwnsAssumption DEF Callers, PcaInv
  <1>3. /\ inited' \in {"running", "failed"}
        /\ todo' = [t \in Callers |-> todo'[t]]
        /\ \A t \in Threads : todo'[t] = todo[t]
        /\ todo'["main"] \in Seq(SetupOps)
        /\ inited' = "failed" => todo'["main"] = <<>>
        /\ inited' = "running" => todo'["main"] # <<>> /\ Head(todo'["main"]) = ReadMode
    <2>1. CASE inited' = "failed" /\ UNCHANGED todo
      BY <1>1, <1>2, <2>1 DEF PcaTypes, SettingUp
    <2>2. ASSUME NEW f \in Freqs, inited' = "running",
                 todo' = [todo EXCEPT !["main"] =
                             pca9685PWMSetFreq(f) \o <<NewNode>> \o pca9685PWMReset]
          PROVE  /\ todo' = [t \in Callers |-> todo'[t]]
                 /\ \A t \in Threads : todo'[t] = todo[t]
                 /\ todo'["main"] \in Seq(SetupOps)
                 /\ todo'["main"] # <<>> /\ Head(todo'["main"]) = ReadMode
      <3> DEFINE ops == pca9685PWMSetFreq(f) \o <<NewNode>> \o pca9685PWMReset
      <3>1. <<NewNode>> \in Seq(SetupOps) /\ pca9685PWMReset \in Seq(SetupOps)
        BY DEF SetupOps, LaterOps, pca9685PWMReset
      <3>2. /\ pca9685PWMSetFreq(f) \o <<NewNode>> \in Seq(SetupOps)
            /\ pca9685PWMSetFreq(f) \o <<NewNode>> # <<>>
            /\ Head(pca9685PWMSetFreq(f) \o <<NewNode>>) = ReadMode
        BY <3>1, FreqOps, HeadJoined
      <3>3. ops \in Seq(SetupOps) /\ ops # <<>> /\ Head(ops) = ReadMode
        BY <3>1, <3>2, HeadJoined
      <3>4. todo = [t \in Callers |-> todo[t]]
        BY <1>2 DEF PcaTypes
      <3> HIDE DEF ops
      <3>5. todo' = [todo EXCEPT !["main"] = ops]
        BY <2>2 DEF ops
      <3> QED BY <1>2, <3>3, <3>4, <3>5 DEF Callers
    <2> QED BY <1>1, <2>1, <2>2 DEF pca9685Setup
  <1>4. PcaTypes' /\ Asleep'
    BY <1>1, <1>2, <1>3 DEF PcaTypes, Asleep
  <1>5. SettingUp'
    BY <1>1, <1>2, <1>3 DEF SettingUp
  <1>6. (PcaTypes /\ SettingUp /\ inited # "yes" => ChannelInv)'
    BY SetupChannels, PTL
  <1> QED BY <1>3, <1>4, <1>5, <1>6 DEF PcaInv

\* pca9685Setup returns.
LEMMA ReturnStep == PcaInv /\ Setup_Return => PcaInv'
  <1> SUFFICES ASSUME PcaInv, Setup_Return PROVE PcaInv'
    OBVIOUS
  <1>1. /\ todo["main"] = <<>> /\ inited' = "yes"
        /\ UNCHANGED <<led, mode1, todo, state, target, asked, before, clashed>>
    BY DEF Setup_Return, history
  <1>2. PcaTypes' /\ Asleep'
    BY <1>1 DEF PcaInv, PcaTypes, Asleep
  <1>3. SettingUp'
    BY <1>1 DEF PcaInv, SettingUp
  <1>4. \A t \in Threads : CallInv(t)'
    <2> TAKE t \in Threads
    <2> QED BY <1>1, CallKept DEF PcaInv, ChannelInv
  <1>5. ChannelInv'
    BY <1>1, <1>4 DEF PcaInv, ChannelInv, FullBit, Busy
  <1> QED BY <1>2, <1>3, <1>5 DEF PcaInv

\* The transactions of the three ways to ask for a value.
Asking(pin, v, ops) ==
    \/ v = 0 /\ ops = <<Read8(pin, "off"), Write8(pin, "off", TRUE)>>
    \/ v = Max12 /\ ops = <<Read8(pin, "on"), Write8(pin, "on", TRUE),
                            Read8(pin, "off"), Write8(pin, "off", FALSE)>>
    \/ v \in 1..(Max12 - 1) /\ ops = <<Write16(pin, "on", Word(FALSE, 0)),
                                       Write16(pin, "off", Word(FALSE, v))>>

\* pca9685FullOn sets full-on, then clears full-off.
LEMMA FullOnOps ==
    \A pin : pca9685FullOn(pin, TRUE) =
        <<Read8(pin, "on"), Write8(pin, "on", TRUE),
          Read8(pin, "off"), Write8(pin, "off", FALSE)>>
  <1> TAKE pin
  <1>1. pca9685FullOn(pin, TRUE) =
           <<Read8(pin, "on"), Write8(pin, "on", TRUE)>>
             \o <<Read8(pin, "off"), Write8(pin, "off", FALSE)>>
    BY Zenon DEF pca9685FullOn, pca9685FullOff
  <1> QED BY <1>1, Joined, Zenon

\* myPwmWrite asks for its value in one of the three ways.
LEMMA PwmAsks == \A pin : \A v \in Values : Asking(pin, v, myPwmWrite(pin, v))
  <1> TAKE pin
  <1> TAKE v \in Values
  <1>1. v \in Nat /\ v <= Max12 /\ Max12 \in Nat \ {0}
    BY Max12Type DEF Values
  <1>2. CASE v >= Max12
    <2>1. v = Max12 /\ myPwmWrite(pin, v) = pca9685FullOn(pin, TRUE)
      BY <1>1, <1>2 DEF myPwmWrite
    <2> QED BY <2>1, FullOnOps, Zenon DEF Asking
  <1>3. CASE ~ v >= Max12 /\ v > 0
    <2>1. v \in 1..(Max12 - 1) /\ myPwmWrite(pin, v) = pca9685PWMWrite(pin, 0, v)
      BY <1>1, <1>3 DEF myPwmWrite
    <2>2. v % Max12 = v /\ 0 % Max12 = 0
      BY <1>1, <1>3, SmallRemainder, Max12Type
    <2>3. pca9685PWMWrite(pin, 0, v) = <<Write16(pin, "on", Word(FALSE, 0)),
                                         Write16(pin, "off", Word(FALSE, v))>>
      BY <2>2, Zenon DEF pca9685PWMWrite
    <2> QED BY <2>1, <2>3, Zenon DEF Asking
  <1>4. CASE ~ v >= Max12 /\ ~ v > 0
    <2>1. v = 0 /\ myPwmWrite(pin, v) = pca9685FullOff(pin, TRUE)
      BY <1>1, <1>4 DEF myPwmWrite
    <2> QED BY <2>1, Zenon DEF Asking, pca9685FullOff
  <1> QED BY <1>2, <1>3, <1>4

\* So does myOnOffWrite.
LEMMA OnOffAsks ==
    \A pin : \A v \in {0, 1} : /\ v * Max12 \in Values
                               /\ Asking(pin, v * Max12, myOnOffWrite(pin, v))
  <1> TAKE pin
  <1> TAKE v \in {0, 1}
  <1>1. Max12 \in Nat
    BY Max12Type
  <1>2. CASE v = 0
    <2>1. v * Max12 = 0
      BY <1>1, <1>2, SMT
    <2>2. v * Max12 \in Values
      BY <1>1, <2>1 DEF Values
    <2>3. myOnOffWrite(pin, v) = <<Read8(pin, "off"), Write8(pin, "off", TRUE)>>
      BY <1>2, Zenon DEF myOnOffWrite, pca9685FullOff
    <2> QED BY <2>1, <2>2, <2>3, Zenon DEF Asking
  <1>3. CASE v = 1
    <2>1. v * Max12 = Max12 /\ v # 0
      BY <1>1, <1>3, SMT
    <2>2. v * Max12 \in Values
      BY <1>1, <2>1 DEF Values
    <2>3. myOnOffWrite(pin, v) = pca9685FullOn(pin, TRUE)
      BY <2>1, Zenon DEF myOnOffWrite
    <2>4. myOnOffWrite(pin, v) = <<Read8(pin, "on"), Write8(pin, "on", TRUE),
                                   Read8(pin, "off"), Write8(pin, "off", FALSE)>>
      BY <2>3, FullOnOps, Zenon
    <2> QED BY <2>1, <2>2, <2>4, Zenon DEF Asking
  <1> QED BY <1>2, <1>3

\* A thread asks a value of a pin: no other call is about the channels that are
\* not clashed on, and they are set to what was asked of them before.
LEMMA CallStep ==
    ASSUME PcaInv, NEW c \in Threads, NEW pin \in Owns[c], NEW v \in Values, NEW ops,
           Asking(pin, v, ops), Call(c, pin, v, ops)
    PROVE  PcaInv'
  <1>1. /\ inited = "yes" /\ todo[c] = <<>>
        /\ todo' = [todo EXCEPT ![c] = ops] /\ target' = [target EXCEPT ![c] = pin]
        /\ asked' = [p \in Pins |-> IF p \in baseReg(pin) /\ v \in {0, Max12} THEN v
                                    ELSE asked[p]]
        /\ before' = [p \in Pins |->
                         IF p \in baseReg(pin) THEN Commanded(led[p]) ELSE before[p]]
        /\ clashed' = clashed \cup {p \in baseReg(pin) : Busy(p)}
        /\ UNCHANGED <<led, mode1, local, state, inited>>
    BY DEF Call
  <1>2. /\ c \in Callers /\ "main" \in Callers /\ c # "main" /\ pin \in Pins \cup {PIN_ALL}
        /\ PcaTypes /\ SettingUp /\ ChannelInv /\ Asleep
    BY OwnsAssumption DEF Callers, PcaInv
  <1>3. baseReg(pin) \subseteq Pins
    BY <1>2, Channels
  <1>4. /\ todo'[c] = ops /\ target'[c] = pin
        /\ todo' = [t \in Callers |-> todo'[t]]
        /\ target' \in [Callers -> Pins \cup {PIN_ALL}]
        /\ \A t \in Callers : t # c => todo'[t] = todo[t] /\ target'[t] = target[t]
    <2>1. todo = [t \in Callers |-> todo[t]]
      BY <1>2 DEF PcaTypes
    <2> QED BY <1>1, <1>2, <2>1 DEF PcaTypes
  <1>5. PcaTypes' /\ Asleep'
    <2>1. asked' \in [Pins -> {0, Max12}]
      BY <1>1, <1>2 DEF PcaTypes
    <2> QED BY <1>1, <1>2, <1>3, <1>4, <2>1 DEF PcaTypes, Asleep
  <1>6. SettingUp'
    BY <1>1, <1>2, <1>4 DEF SettingUp
  <1>7. \A p \in Pins \ clashed' : FullBit(led'[p])
    BY <1>1, <1>2 DEF ChannelInv
  <1>8. ops # <<>>
    <2>1. \A a, b, x, y : <<a, b>> # <<>> /\ <<a, b, x, y>> # <<>>
      OBVIOUS
    <2> QED BY <2>1, Zenon DEF Asking
  <1>9. \A p \in baseReg(pin) \ clashed' : p \in Pins \ clashed /\ ~ Busy(p)
    BY <1>1, <1>3
  <1>10. ASSUME NEW p \in Pins \ clashed', ~ Busy(p)' PROVE Commanded(led'[p]) = asked'[p]
    <2>1. p \notin baseReg(pin)
      BY <1>2, <1>4, <1>8, <1>10 DEF Busy
    <2>2. ~ Busy(p)
      BY <1>1, <1>4, <1>10 DEF Busy
    <2> QED BY <1>1, <1>2, <2>1, <2>2 DEF ChannelInv
  <1>11. ASSUME NEW p \in Pins \ clashed', NEW s \in Callers, NEW t \in Callers,
                todo'[s] # <<>>, p \in baseReg(target'[s]),
                todo'[t] # <<>>, p \in baseReg(target'[t])
         PROVE  s = t
    <2>1. CASE s = c /\ t # c
      BY <1>4, <1>9, <1>11, <2>1 DEF Busy
    <2>2. CASE s # c /\ t = c
      BY <1>4, <1>9, <1>11, <2>2 DEF Busy
    <2>3. CASE s # c /\ t # c
      BY <1>1, <1>2, <1>4, <1>11, <2>3 DEF ChannelInv
    <2> QED BY <2>1, <2>2, <2>3
  <1>12. CallInv(c)'
    <2>1. Mine(c)' = baseReg(pin) \ clashed'
      BY <1>4 DEF Mine
    <2>2. /\ v \in {0, Max12} => Asks(c, v)'
          /\ Old(c)'
      BY <1>1, <1>3, <2>1 DEF Asks, Old
    <2>3. CASE v = 0 /\ ops = <<Read8(pin, "off"), Write8(pin, "off", TRUE)>>
      <3>1. OffReads(c)'
        BY <1>4, <2>2, <2>3 DEF OffReads
      <3> QED BY <3>1 DEF CallInv
    <2>4. CASE v = Max12 /\ ops = <<Read8(pin, "on"), Write8(pin, "on", TRUE),
                                    Read8(pin, "off"), Write8(pin, "off", FALSE)>>
      <3>1. OnReads(c)'
        BY <1>4, <2>2, <2>4 DEF OnReads
      <3> QED BY <3>1 DEF CallInv
    <2>5. CASE v \in 1..(Max12 - 1) /\ ops = <<Write16(pin, "on", Word(FALSE, 0)),
                                               Write16(pin, "off", Word(FALSE, v))>>
      <3>1. v \in Nat /\ v \notin {0, Max12}
        BY <2>5, Max12Type
      <3>2. \A p \in baseReg(pin) \ clashed' : Commanded(led[p]) = asked[p]
        BY <1>2, <1>9 DEF ChannelInv
      <3>3. Settled(c)'
        BY <1>1, <1>9, <2>1, <3>1, <3>2 DEF Settled
      <3>4. CountOn(c)'
        BY <1>4, <2>5, <3>1, <3>3 DEF CountOn
      <3> QED BY <3>4 DEF CallInv
    <2> QED BY <2>3, <2>4, <2>5 DEF Asking
  <1>13. ASSUME NEW t \in Threads PROVE CallInv(t)'
    <2>1. CASE t = c
      BY <1>12, <2>1
    <2>2. CASE t # c
      <3>1. t \in Callers /\ todo'[t] = todo[t] /\ target'[t] = target[t]
            /\ CallInv(t) /\ clashed \subseteq clashed'
        BY <1>1, <1>2, <1>4, <2>2 DEF Callers, ChannelInv
      <3>2. CASE todo[t] = <<>>
        BY <3>1, <3>2 DEF CallInv
      <3>3. CASE todo[t] # <<>>
        <4>1. ASSUME NEW p \in baseReg(target[t]) \ clashed'
              PROVE led'[p] = led[p] /\ asked'[p] = asked[p] /\ before'[p] = before[p]
          <5>1. p \in Pins
            BY <1>2, <3>1, Channels DEF PcaTypes
          <5>2. p \notin baseReg(pin)
            BY <1>9, <3>1, <3>3 DEF Busy
          <5> QED BY <1>1, <5>1, <5>2
        <4> QED BY <3>1, <4>1, CallKept
      <3> QED BY <3>2, <3>3
    <2> QED BY <2>1, <2>2
  <1>14. ChannelInv'
    BY <1>7, <1>10, <1>11, <1>13 DEF ChannelInv, FullBit
  <1> QED BY <1>5, <1>6, <1>14 DEF PcaInv

\* The invariant of the chip and of the calls under way.
LEMMA PcaInvStep == PcaInv /\ [Pca_Next]_pcaVars => PcaInv'
  <1> SUFFICES ASSUME PcaInv, [Pca_Next]_pcaVars PROVE PcaInv'
    OBVIOUS
  <1>1. CASE pca9685Setup
    BY <1>1, SetupStep
  <1>2. CASE Setup_Return
    BY <1>2, ReturnStep
  <1>3. ASSUME NEW t \in Threads, pwmWrite(t) PROVE PcaInv'
    BY <1>3, PwmAsks, CallStep DEF pwmWrite
  <1>4. ASSUME NEW t \in Threads, digitalWrite(t) PROVE PcaInv'
    BY <1>4, OnOffAsks, CallStep DEF digitalWrite
  <1>5. ASSUME NEW c \in Callers, Transaction(c) PROVE PcaInv'
    BY <1>5, OpStep, MainStep DEF Callers
  <1>6. CASE UNCHANGED pcaVars
    <2>1. UNCHANGED <<led, mode1, local, todo, state, target, inited, asked, before, clashed>>
      BY <1>6 DEF pcaVars, history
    <2>2. \A t \in Threads : CallInv(t)'
      <3> TAKE t \in Threads
      <3> QED BY <2>1, CallKept DEF PcaInv, ChannelInv
    <2>3. PcaTypes' /\ SettingUp' /\ Asleep'
      BY <2>1 DEF PcaInv, PcaTypes, SettingUp, Asleep
    <2> QED BY <2>1, <2>2, <2>3 DEF PcaInv, ChannelInv, FullBit, Busy
  <1> QED BY <1>1, <1>2, <1>3, <1>4, <1>5, <1>6 DEF Pca_Next, Transaction

\* The invariant holds in every reachable state of the chip.
LEMMA PcaAlways == Pca_Spec => []PcaInv
  BY PcaInit, PcaInvStep, PTL DEF Pca_Spec

\* pca9685.c:47-62: no output is ever driven, whatever the threads ask for and
\* whichever frequency is set: what is written to MODE1 is what was read from it.
THEOREM NeverWoken == Pca_Spec => []OutputsStayLow
  <1>1. PcaInv => OutputsStayLow
    BY DEF PcaInv, Asleep, OutputsStayLow, Driven
  <1> QED BY <1>1, PcaAlways, PTL

\* pca9685.c:89-116, 131-156: in the registers a channel is switched as was last
\* asked once the calls about it have returned, and in between is as it was or as
\* is asked, for every set of threads and every share of the channels, with counter
\* values written at any time.
THEOREM SwitchesObey == Pca_Spec => []SwitchedAsAsked
  <1>1. ASSUME PcaInv, inited = "yes", NEW p \in Pins \ clashed
        PROVE  /\ Commanded(led[p]) \in {before[p], asked[p]}
               /\ ~Busy(p) => Commanded(led[p]) = asked[p]
    <2>1. ~ Busy(p) => Commanded(led[p]) = asked[p]
      BY <1>1 DEF PcaInv, ChannelInv
    <2>2. ASSUME NEW t \in Callers, todo[t] # <<>>, p \in baseReg(target[t])
          PROVE  Commanded(led[p]) \in {before[p], asked[p]}
      <3>1. t \in Threads /\ p \in Mine(t) /\ CallInv(t)
        BY <1>1, <2>2 DEF Callers, PcaInv, SettingUp, ChannelInv, Mine
      <3>2. Old(t) \/ Settled(t)
        BY <2>2, <3>1 DEF CallInv, OffReads, OffWrites, OnReads, OnWrites, ClearReads,
           ClearWrites, CountOn, CountOff
      <3> QED BY <3>1, <3>2 DEF Old, Settled
    <2> QED BY <2>1, <2>2 DEF Busy
  <1>2. PcaInv => SwitchedAsAsked
    BY <1>1 DEF SwitchedAsAsked
  <1> QED BY <1>2, PcaAlways, PTL

=============================================================================
