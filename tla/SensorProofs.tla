---------------------------- MODULE SensorProofs ----------------------------
(***************************************************************************)
(* Proofs about the sensors: JY901 and the status frame that reads it, for *)
(* every packet set, offset, temperature and number of faults; and, in     *)
(* SensorNodes, the Setups and readings of the two depth sensors and the   *)
(* nodes they register, for every board.                                   *)
(***************************************************************************)
EXTENDS StatusFrame, SensorNodes, FiniteSetTheorems, SequenceTheorems,
        WellFoundedInduction, TLAPS

Raw == {i \in Int : -32768 <= i /\ i <= 32767}

YawRange == {y \in Int : -180 * Degree <= y /\ y <= 180 * Degree}

\* A 16-bit field is a 16-bit number.
LEMMA Int16Range == ASSUME NEW lo \in Byte, NEW hi \in Byte
                    PROVE  Int16(lo, hi) \in Raw
  BY DEF Int16, Byte, Raw

\* The yaw between the two corrections is at most a turn and a half away.
YawInv ==
    /\ YawInRange
    /\ conv = "below" => -540 * Degree <= Yaw /\ Yaw <= 540 * Degree
    /\ conv = "above" => -180 * Degree <= Yaw /\ Yaw <= 540 * Degree

\* Data bytes of a full packet.
LEMMA PayloadType ==
    ASSUME NEW r \in Seq(Byte), Len(r) = PacketLength
    PROVE  Payload(r) \in [1..(PacketLength - 3) -> Byte]
  <1>1. Payload(r) \in Seq(Byte) /\ Len(Payload(r)) = PacketLength - 3
    <2>1. \A i \in 3..(PacketLength - 1) : r[i] \in Byte
      BY LengthAssumption, ElementOfSeq
    <2> QED BY <2>1, LengthAssumption, SubSeqProperties DEF Payload
  <1>2. \A i \in 1..(PacketLength - 3) : Payload(r)[i] \in Byte
    BY <1>1, ElementOfSeq
  <1> QED BY <1>1, <1>2, LenProperties

\* Every byte of a packet is a byte.
LEMMA SentByte == ASSUME TypeOK PROVE cur[pos + 1] \in Byte
  BY PacketsAssumption, LengthAssumption, ElementOfSeq DEF TypeOK

\* The raw angles last stored are 16-bit numbers.
LEMMA RawAngle == ASSUME TypeOK, NEW i \in 0..2 PROVE angle(stc[83], i) \in Raw
  <1>1. stc[83] \in [1..(PacketLength - 3) -> Byte]
    BY DEF TypeOK, Types
  <1>2. 2*i + 1 \in 1..(PacketLength - 3) /\ 2*i + 2 \in 1..(PacketLength - 3)
    BY LengthAssumption
  <1>3. stc[83][2*i + 1] \in Byte /\ stc[83][2*i + 2] \in Byte
    BY <1>1, <1>2
  <1> QED BY <1>3, Int16Range DEF angle

\* What copeJY901_data preserves, whatever the byte.
LEMMA ParseType ==
    ASSUME TypeOK, YawInv, conv = "off", NEW b \in Byte, copeJY901_data(b)
    PROVE  /\ rx' \in Seq(Byte) /\ Len(rx') < PacketLength
           /\ stc' \in [Types -> [1..(PacketLength - 3) -> Byte]]
           /\ conv' \in {"off", "roll"} /\ Roll' = Roll /\ Pitch' = Pitch /\ Yaw' = Yaw
           /\ YawInv'
  <1> DEFINE r == Append(rx, b)
             full == r[1] = Header /\ Len(r) = PacketLength
             good == full /\ RxCheck(r) = r[PacketLength]
  <1>1. r \in Seq(Byte) /\ Len(r) = Len(rx) + 1
    BY AppendProperties DEF TypeOK
  <1>2. rx' \in Seq(Byte) /\ Len(rx') < PacketLength
    BY <1>1, LengthAssumption DEF TypeOK, copeJY901_data
  <1>3. stc' \in [Types -> [1..(PacketLength - 3) -> Byte]]
    BY <1>1, PayloadType DEF TypeOK, copeJY901_data
  <1>4. conv' \in {"off", "roll"} /\ Roll' = Roll /\ Pitch' = Pitch /\ Yaw' = Yaw
    BY DEF copeJY901_data, Euler
  <1>5. YawInv'
    BY <1>4 DEF YawInv, YawInRange
  <1> QED BY <1>2, <1>3, <1>4, <1>5

\* Where the sensor goes next.
LEMMA AdvanceType == ASSUME TypeOK, Advance
                     PROVE cur' \in Packets /\ pos' \in 0..(PacketLength - 1)
  BY LengthAssumption DEF TypeOK, Advance

\* The stores of the conversion keep the types and the range of the yaw.
LEMMA ConvertType ==
    ASSUME TypeOK, YawInv, jy901_convert
    PROVE  TypeOK' /\ YawInv'
  <1>1. /\ fd' = fd /\ rx' = rx /\ stc' = stc /\ cur' = cur /\ pos' = pos /\ faults' = faults
    BY DEF jy901_convert
  <1>2. CASE SetRoll
    BY <1>1, <1>2, RawAngle DEF SetRoll, TypeOK, YawInv, YawInRange, Raw
  <1>3. CASE SetPitch
    BY <1>1, <1>3, RawAngle DEF SetPitch, TypeOK, YawInv, YawInRange, Raw
  <1>4. CASE SetYaw
    <2>1. angle(stc[83], 2) \in Raw BY RawAngle
    <2>2. Yaw' \in Int /\ -180 * Degree <= Yaw' /\ Yaw' <= 180 * Degree
      BY <2>1, <1>4 DEF SetYaw, Raw, Degree
    <2>3. conv' \in {"off", "offset"} BY <1>4 DEF SetYaw
    <2> QED BY <1>1, <1>4, <2>2, <2>3 DEF SetYaw, TypeOK, YawInv, YawInRange
  <1>5. CASE SubtractOffset
    <2>1. Yaw' \in Int /\ -540 * Degree <= Yaw' /\ Yaw' <= 540 * Degree
      BY <1>5, OffsetAssumption DEF SubtractOffset, TypeOK, YawInv, YawInRange, Degree
    <2> QED BY <1>1, <1>5, <2>1 DEF SubtractOffset, TypeOK, YawInv, YawInRange
  <1>6. CASE RaiseYaw
    <2>1. Yaw' \in Int /\ -180 * Degree <= Yaw' /\ Yaw' <= 540 * Degree
      BY <1>6 DEF RaiseYaw, TypeOK, YawInv, Degree
    <2> QED BY <1>1, <1>6, <2>1 DEF RaiseYaw, TypeOK, YawInv, YawInRange
  <1>7. CASE LowerYaw
    <2>1. Yaw' \in Int /\ -180 * Degree <= Yaw' /\ Yaw' <= 180 * Degree
      BY <1>7 DEF LowerYaw, TypeOK, YawInv, Degree
    <2> QED BY <1>1, <1>7, <2>1 DEF LowerYaw, TypeOK, YawInv, YawInRange
  <1> QED BY <1>2, <1>3, <1>4, <1>5, <1>6, <1>7 DEF jy901_convert

\* Type correctness together with the range of the yaw.
LEMMA TypeStep == TypeOK /\ YawInv /\ [Next]_vars => TypeOK' /\ YawInv'
  <1> SUFFICES ASSUME TypeOK, YawInv, [Next]_vars PROVE TypeOK' /\ YawInv'
    OBVIOUS
  <1>1. CASE jy901Setup
    BY <1>1, LengthAssumption, FaultAssumption DEF jy901Setup, TypeOK, YawInv, YawInRange, Euler
  <1>2. CASE Receive
    <2>1. copeJY901_data(cur[pos + 1]) /\ Advance /\ conv = "off" BY <1>2 DEF Receive
    <2>2. cur[pos + 1] \in Byte BY SentByte
    <2> HIDE DEF Byte
    <2>3. /\ rx' \in Seq(Byte) /\ Len(rx') < PacketLength
          /\ stc' \in [Types -> [1..(PacketLength - 3) -> Byte]]
          /\ conv' \in {"off", "roll"} /\ Roll' = Roll /\ Pitch' = Pitch /\ Yaw' = Yaw
          /\ YawInv'
      BY <2>1, <2>2, ParseType
    <2> QED BY <2>1, <2>3, AdvanceType, <1>2 DEF Receive, TypeOK
  <1>3. CASE Lose
    BY <1>3, AdvanceType, FaultAssumption DEF Lose, TypeOK, YawInv, YawInRange, Euler
  <1>4. CASE Change
    <2>1. PICK b \in NoiseBytes : copeJY901_data(b) BY <1>4 DEF Change
    <2>2. b \in Byte /\ conv = "off" BY <1>4, FaultAssumption DEF Change
    <2>3. /\ rx' \in Seq(Byte) /\ Len(rx') < PacketLength
          /\ stc' \in [Types -> [1..(PacketLength - 3) -> Byte]]
          /\ conv' \in {"off", "roll"} /\ Roll' = Roll /\ Pitch' = Pitch /\ Yaw' = Yaw
          /\ YawInv'
      BY <2>1, <2>2, ParseType
    <2>4. Advance /\ fd' = fd /\ faults < MaxFaults /\ faults' = faults + 1
      BY <1>4 DEF Change
    <2> QED BY <2>3, <2>4, AdvanceType, FaultAssumption DEF TypeOK
  <1>5. CASE Spin
    <2>1. copeJY901_data(255) /\ conv = "off" BY <1>5 DEF Spin
    <2>2. 255 \in Byte BY DEF Byte
    <2>3. /\ rx' \in Seq(Byte) /\ Len(rx') < PacketLength
          /\ stc' \in [Types -> [1..(PacketLength - 3) -> Byte]]
          /\ conv' \in {"off", "roll"} /\ Roll' = Roll /\ Pitch' = Pitch /\ Yaw' = Yaw
          /\ YawInv'
      BY <2>1, <2>2, ParseType
    <2> QED BY <1>5, <2>3 DEF Spin, TypeOK
  <1>6. CASE UNCHANGED vars
    BY <1>6 DEF vars, Euler, TypeOK, YawInv, YawInRange
  <1>7. CASE jy901_convert
    BY <1>7, ConvertType
  <1> QED BY <1>1, <1>2, <1>3, <1>4, <1>5, <1>6, <1>7 DEF Next

LEMMA TypeInit == Init => TypeOK /\ YawInv
  BY LengthAssumption, FaultAssumption, EmptySeq
     DEF Init, TypeOK, YawInv, YawInRange, NoData, Degree, Byte

\* Every variable keeps its type; the receive buffer is never overrun
\* (copeJY901_data).
THEOREM TypeCorrect == Spec => []TypeOK
  BY TypeInit, TypeStep, PTL DEF Spec

\* The published yaw is a proper angle for every offset (jy901_convert).
THEOREM YawSafe == Spec => []YawInRange
  <1>1. YawInv => YawInRange BY DEF YawInv
  <1> QED BY <1>1, TypeInit, TypeStep, PTL DEF Spec

----------------------------------------------------------------------------
\* Before the line is open nothing has been received.
Start == fd = "unopened" => rx = <<>> /\ pos = 0

PhaseInv == TypeOK /\ YawInv /\ Start /\ InPhaseUntilFault

\* Receiving the next byte of a packet in phase: the buffer is the packet's
\* longer prefix, at the end the whole packet.
LEMMA Extends ==
    ASSUME TypeOK, InPhase
    PROVE  /\ Append(rx, cur[pos + 1]) = SubSeq(cur, 1, pos + 1)
           /\ Append(rx, cur[pos + 1])[1] = Header
           /\ Len(Append(rx, cur[pos + 1])) = pos + 1
           /\ pos = PacketLength - 1 => Append(rx, cur[pos + 1]) = cur
  <1> DEFINE n == pos + 1
  <1>1. /\ cur \in Seq(Byte) /\ Len(cur) = PacketLength /\ cur[1] = Header
        /\ n \in 1..Len(cur) /\ pos = n - 1
    BY PacketsAssumption, LengthAssumption DEF TypeOK
  <1>2. SubSeq(cur, 1, n) = SubSeq(cur, 1, n - 1) \o <<cur[n]>>
    BY <1>1, SubSeqRecursiveSecond
  <1>3. Append(rx, cur[n]) = rx \o <<cur[n]>>
    BY <1>1, AppendIsConcat, ElementOfSeq DEF TypeOK
  <1>4. Append(rx, cur[n]) = SubSeq(cur, 1, n)
    BY <1>1, <1>2, <1>3 DEF InPhase
  <1>5. \A i \in 1..n : cur[i] \in Byte
    BY <1>1, ElementOfSeq
  <1>6. SubSeq(cur, 1, n)[1] = Header /\ Len(SubSeq(cur, 1, n)) = n
    BY <1>1, <1>5, SubSeqProperties
  <1>7. pos = PacketLength - 1 => SubSeq(cur, 1, n) = cur
    BY <1>1, SubSeqFull
  <1> QED BY <1>4, <1>6, <1>7

\* A step in phase stays in phase, and completes the packet on its last byte.
LEMMA ReceiveInPhase ==
    ASSUME TypeOK, InPhase, Receive
    PROVE  InPhase' /\ (pos = PacketLength - 1 /\ cur[2] \in Types
                            => stc'[cur[2]] = Payload(cur))
  <1> DEFINE r == Append(rx, cur[pos + 1])
             full == r[1] = Header /\ Len(r) = PacketLength
             good == full /\ RxCheck(r) = r[PacketLength]
  <1>1. /\ rx' = IF r[1] = Header /\ ~full THEN r ELSE <<>>
        /\ stc' = IF good /\ r[2] \in Types THEN [stc EXCEPT ![r[2]] = Payload(r)] ELSE stc
        /\ Advance
    BY DEF Receive, copeJY901_data
  <1>2. /\ r = SubSeq(cur, 1, pos + 1) /\ r[1] = Header /\ Len(r) = pos + 1
        /\ pos = PacketLength - 1 => r = cur
    BY Extends
  <1> HIDE DEF r
  <1>3. CASE pos + 1 < PacketLength
    <2>1. rx' = r /\ pos' = pos + 1 /\ cur' = cur
      BY <1>1, <1>2, <1>3, LengthAssumption DEF Advance, TypeOK
    <2> QED BY <2>1, <1>2, <1>3, LengthAssumption DEF InPhase, TypeOK
  <1>4. CASE pos + 1 = PacketLength
    <2>1. full /\ r = cur /\ pos' = 0 /\ cur' \in Packets
      BY <1>1, <1>2, <1>4, LengthAssumption DEF Advance, TypeOK
    <2>2. good
      BY <2>1, PacketsAssumption DEF TypeOK
    <2>3. rx' = <<>>
      BY <1>1, <2>1
    <2>4. SubSeq(cur', 1, 0) = <<>>
      BY SubSeqEmpty
    <2>5. ASSUME cur[2] \in Types PROVE stc'[cur[2]] = Payload(cur)
      BY <2>5, <2>1, <2>2, <1>1 DEF TypeOK
    <2> QED BY <2>1, <2>3, <2>4, <2>5 DEF InPhase
  <1> QED BY <1>3, <1>4, LengthAssumption DEF TypeOK

LEMMA PhaseStep == PhaseInv /\ [Next]_vars => PhaseInv'
  <1> SUFFICES ASSUME PhaseInv, [Next]_vars PROVE PhaseInv'
    OBVIOUS
  <1>t. TypeOK' /\ YawInv'
    BY TypeStep DEF PhaseInv
  <1>1. CASE jy901Setup
    <2>1. rx = <<>> /\ pos = 0 /\ rx' = rx BY <1>1 DEF jy901Setup, PhaseInv, Start
    <2>2. faults' = 0 => pos' = 0
      BY <1>1, <2>1, FaultAssumption DEF jy901Setup, PhaseInv, TypeOK
    <2>3. SubSeq(cur', 1, 0) = <<>> BY SubSeqEmpty
    <2>4. fd' # "unopened" BY <1>1 DEF jy901Setup
    <2> QED BY <1>t, <2>1, <2>2, <2>3, <2>4 DEF PhaseInv, Start, InPhaseUntilFault, InPhase
  <1>2. CASE Receive
    <2>1. fd = "open" /\ fd' = fd /\ faults' = faults BY <1>2 DEF Receive
    <2>2. faults = 0 => InPhase'
      BY <1>2, <2>1, ReceiveInPhase DEF PhaseInv, InPhaseUntilFault
    <2> QED BY <1>t, <2>1, <2>2 DEF PhaseInv, Start, InPhaseUntilFault
  <1>3. CASE Lose \/ Change
    <2>1. fd = "open" /\ fd' = fd /\ faults' = faults + 1
      BY <1>3 DEF Lose, Change
    <2> QED BY <1>t, <2>1 DEF PhaseInv, TypeOK, Start, InPhaseUntilFault
  <1>4. CASE Spin
    BY <1>t, <1>4 DEF Spin, PhaseInv, Start, InPhaseUntilFault
  <1>5. CASE UNCHANGED vars
    BY <1>t, <1>5 DEF vars, PhaseInv, Start, InPhaseUntilFault, InPhase
  <1>6. CASE jy901_convert
    BY <1>t, <1>6 DEF jy901_convert, PhaseInv, Start, InPhaseUntilFault, InPhase
  <1> QED BY <1>1, <1>2, <1>3, <1>4, <1>5, <1>6 DEF Next

LEMMA PhaseInit == Init => PhaseInv
  BY TypeInit DEF Init, PhaseInv, Start, InPhaseUntilFault

\* The inductive invariant.
THEOREM PhaseInvariance == Spec => []PhaseInv
  BY PhaseInit, PhaseStep, PTL DEF Spec

\* Until the first fault copeJY901_data is in phase with the sensor, whatever
\* the packets contain.
THEOREM InPhaseSafe == Spec => []InPhaseUntilFault
  <1>1. PhaseInv => InPhaseUntilFault BY DEF PhaseInv
  <1> QED BY PhaseInvariance, <1>1, PTL

\* Until the first fault every packet of a known type is stored as sent.
THEOREM DeliverySafe == Spec => DeliveredWhole
  <1>1. PhaseInv /\ [Next]_vars
            => [Receive /\ faults = 0 /\ pos = PacketLength - 1 /\ cur[2] \in Types
                    => stc'[cur[2]] = Payload(cur)]_vars
    <2> SUFFICES ASSUME PhaseInv, Receive, faults = 0, pos = PacketLength - 1,
                        cur[2] \in Types
                 PROVE  stc'[cur[2]] = Payload(cur)
      OBVIOUS
    <2>1. InPhase BY DEF PhaseInv, InPhaseUntilFault, Receive
    <2> QED BY <2>1, ReceiveInPhase DEF PhaseInv
  <1> QED BY <1>1, PhaseInvariance, PTL DEF Spec, DeliveredWhole

----------------------------------------------------------------------------
(* Falling into step again *)

\* The bytes from here to the end of the next packet but one, or of this one:
\* a buffer that holds more than has been sent of the packet is full before the
\* packet ends, one that holds less only in the packet after it.
Distance ==
    IF InPhase THEN 0
    ELSE IF rx = <<>> \/ pos <= Len(rx) THEN PacketLength - pos
    ELSE 2 * PacketLength - pos

DistanceTells == Distance \in 0..(2 * PacketLength - 2) /\ (InPhase <=> Distance = 0)

\* On a line without faults every byte brings the parser nearer to the phase,
\* or finds it there, if 0x55 is the header of the packet only.
ResyncSteps ==
    [][fd = "open" /\ faults' = faults /\ HeaderOnly(cur)
            => /\ Distance' <= Distance
               /\ Receive => Distance' < Distance \/ InPhase']_vars

\* What is kept in the buffer begins with a header.
HeadInv == rx # <<>> => rx[1] = Header

LEMMA HeadStep == TypeOK /\ HeadInv /\ [Next]_vars => HeadInv'
  <1> SUFFICES ASSUME TypeOK, HeadInv, [Next]_vars PROVE HeadInv'
    OBVIOUS
  <1>1. ASSUME NEW b, copeJY901_data(b) PROVE HeadInv'
    BY <1>1, Zenon DEF copeJY901_data, HeadInv
  <1>2. CASE UNCHANGED rx
    BY <1>2 DEF HeadInv
  <1> QED BY <1>1, <1>2 DEF Next, jy901Setup, Receive, Lose, Change, Spin, jy901_convert, vars

LEMMA DistanceType ==
    ASSUME TypeOK
    PROVE  DistanceTells
  <1>1. rx = <<>> /\ pos = 0 => InPhase
    BY SubSeqEmpty DEF InPhase
  <1>2. rx # <<>> => Len(rx) \in Nat /\ Len(rx) >= 1
    BY EmptySeq, LenProperties DEF TypeOK
  <1>3. PacketLength \in Nat /\ PacketLength >= 9 /\ pos \in 0..(PacketLength - 1)
    BY LengthAssumption DEF TypeOK
  <1>4. CASE InPhase
    BY <1>3, <1>4 DEF Distance, DistanceTells
  <1>5. CASE ~InPhase /\ (rx = <<>> \/ pos <= Len(rx))
    BY <1>3, <1>5 DEF Distance, DistanceTells
  <1>6. CASE ~InPhase /\ ~(rx = <<>> \/ pos <= Len(rx))
    BY <1>2, <1>3, <1>6 DEF Distance, DistanceTells
  <1> QED BY <1>4, <1>5, <1>6

\* A byte out of phase brings the parser nearer.
LEMMA Nearer ==
    ASSUME TypeOK, TypeOK', HeadInv, HeaderOnly(cur), Receive, ~InPhase
    PROVE  Distance' < Distance
  <1> DEFINE r == Append(rx, cur[pos + 1])
  <1>1. PacketLength \in Nat /\ PacketLength >= 9 /\ pos \in 0..(PacketLength - 1)
    BY LengthAssumption DEF TypeOK
  <1>2. /\ rx \in Seq(Byte) /\ rx' \in Seq(Byte) /\ cur[pos + 1] \in Byte
        /\ Len(rx) \in Nat /\ Len(rx) < PacketLength
    BY SentByte, LenProperties DEF TypeOK
  <1>3. Len(r) = Len(rx) + 1 /\ (rx = <<>> => r[1] = cur[pos + 1])
        /\ (rx # <<>> => r[1] = rx[1])
    <2> HIDE DEF Byte
    <2>1. r \in Seq(Byte) /\ Len(r) = Len(rx) + 1 /\ r[Len(rx) + 1] = cur[pos + 1]
          /\ \A i \in 1..Len(rx) : r[i] = rx[i]
      BY <1>2, AppendProperties
    <2>2. rx = <<>> => Len(rx) = 0
      BY EmptySeq
    <2>3. rx # <<>> => 1 \in 1..Len(rx)
      BY <1>2, EmptySeq
    <2> QED BY <2>1, <2>2, <2>3
  <1>4. /\ rx' = IF r[1] = Header /\ Len(r) # PacketLength THEN r ELSE <<>>
        /\ Advance
    BY DEF Receive, copeJY901_data
  <1> HIDE DEF r
  <1>5. /\ pos + 1 < PacketLength => pos' = pos + 1
        /\ pos + 1 = PacketLength => pos' = 0
    BY <1>1, <1>4 DEF Advance
  <1>6. InPhase' => Distance' = 0
    BY DEF Distance
  <1>7. ~InPhase' => /\ rx' = <<>> => Distance' = PacketLength - pos'
                     /\ pos' <= Len(rx)' => Distance' = PacketLength - pos'
                     /\ Distance' \in {PacketLength - pos', 2 * PacketLength - pos'}
    BY DEF Distance
  <1>8. rx' = <<>> /\ pos' = 0 => InPhase'
    <2>1. SubSeq(cur', 1, 0) = <<>>
      BY SubSeqEmpty
    <2> QED BY <2>1 DEF InPhase
  <1>9. CASE rx' = <<>>
    <2>1. PacketLength - pos <= Distance
      BY <1>1 DEF Distance
    <2>2. Distance \in Int
      BY <1>1 DEF Distance
    <2> QED BY <1>1, <1>5, <1>6, <1>7, <1>8, <1>9, <2>1, <2>2
  <1>10. CASE rx' # <<>>
    <2>1. rx' = r /\ r[1] = Header /\ Len(rx) + 1 < PacketLength
      <3>1. rx' = r /\ r[1] = Header /\ Len(r) # PacketLength
        BY <1>4, <1>10, Zenon
      <3> QED BY <1>1, <1>2, <1>3, <3>1
    <2>2. rx # <<>>
      <3>1. rx = <<>> => pos # 0
        BY SubSeqEmpty DEF InPhase
      <3>2. pos # 0 => cur[pos + 1] # Header
        BY <1>1 DEF HeaderOnly
      <3> QED BY <1>3, <2>1, <3>1, <3>2
    <2>3. Len(rx)' = Len(rx) + 1
      BY <1>3, <2>1
    <2>4. CASE pos <= Len(rx)
      <3>1. Distance = PacketLength - pos /\ pos' = pos + 1 /\ pos' <= Len(rx)'
        BY <1>1, <1>2, <1>5, <2>1, <2>3, <2>4 DEF Distance
      <3> QED BY <1>1, <1>6, <1>7, <3>1
    <2>5. CASE ~(pos <= Len(rx))
      <3>1. Distance = 2 * PacketLength - pos
        BY <2>2, <2>5 DEF Distance
      <3>2. CASE pos + 1 = PacketLength
        <4>1. pos' = 0 /\ pos' <= Len(rx)'
          BY <1>2, <1>5, <2>3, <3>2
        <4> QED BY <1>1, <1>6, <1>7, <3>1, <4>1
      <3>3. CASE pos + 1 < PacketLength
        BY <1>1, <1>5, <1>6, <1>7, <3>1, <3>3
      <3> QED BY <1>1, <3>2, <3>3
    <2> QED BY <2>4, <2>5
  <1> QED BY <1>9, <1>10

\* jy901.c:44: without the header in front the search starts again.  Whatever
\* the buffer holds, on a line without faults the parser is in phase with
\* packets of 0x55 as the header only after at most two packets' bytes less
\* two, and stays so: what Resyncs says of fair schedules, in numbers.
THEOREM ResyncBounded == Spec => []DistanceTells /\ ResyncSteps
  <1>1. Init => HeadInv
    BY DEF Init, HeadInv
  <1>2. TypeOK /\ TypeOK' /\ HeadInv /\ DistanceTells /\ DistanceTells' /\ [Next]_vars
            => [fd = "open" /\ faults' = faults /\ HeaderOnly(cur)
                    => /\ Distance' <= Distance
                       /\ Receive => Distance' < Distance \/ InPhase']_vars
    <2> SUFFICES ASSUME TypeOK, TypeOK', HeadInv, DistanceTells, DistanceTells', Next,
                        fd = "open", faults' = faults, HeaderOnly(cur)
                 PROVE  /\ Distance' <= Distance
                        /\ Receive => Distance' < Distance \/ InPhase'
      BY DEF ResyncSteps
    <2>1. Distance \in Int /\ Distance' \in Int /\ Distance >= 0
      BY LengthAssumption DEF DistanceTells
    <2>2. CASE Receive
      <3>1. CASE InPhase
        <4>1. InPhase' BY <2>2, <3>1, ReceiveInPhase
        <4>2. Distance' = 0 BY <4>1 DEF Distance
        <4> QED BY <2>1, <4>1, <4>2
      <3>2. CASE ~InPhase
        BY <2>1, <2>2, <3>2, Nearer
      <3> QED BY <3>1, <3>2
    <2>3. CASE jy901_convert
      <3>1. Distance' = Distance
        BY <2>3 DEF jy901_convert, Distance, InPhase
      <3>2. ~Receive
        BY <2>3 DEF jy901_convert, Receive, SetRoll, SetPitch, SetYaw, SubtractOffset, RaiseYaw, LowerYaw
      <3> QED BY <2>1, <3>1, <3>2
    <2>4. ~jy901Setup /\ ~Spin
      BY DEF jy901Setup, Spin
    <2>5. ~Lose /\ ~Change
      <3>1. Lose \/ Change => faults' = faults + 1
        BY Zenon DEF Lose, Change
      <3>2. faults \in Int
        BY FaultAssumption DEF TypeOK
      <3> QED BY <3>1, <3>2
    <2> QED BY <2>2, <2>3, <2>4, <2>5 DEF Next
  <1>3. TypeOK => DistanceTells
    BY DistanceType
  <1> QED BY <1>1, <1>2, <1>3, TypeInit, TypeStep, HeadStep, PTL DEF Spec, ResyncSteps
----------------------------------------------------------------------------
(* The status frame: what it tells its client was so *)


\* An angle within half a turn fits its word, and the word tells it: the sign
\* of (short) is lost again in the uint16_t (data.c:111-113).
LEMMA WordsTell ==
    ASSUME NEW a \in YawRange, NEW w \in Words(a)
    PROVE  0 <= w /\ w <= 36000 /\ Tells(w, a)
  <1> DEFINE n == (a + 180 * Degree) * 25
             q == n \div 2048
             m == n % 2048
  <1>1. n \in Nat /\ n <= 36000 * 2048
    BY DEF YawRange, Degree
  <1>2. q \in Int /\ m \in 0..2047 /\ n = 2048 * q + m
    BY <1>1
  <1>3. w = q % 65536 \/ (m >= 2044 /\ w = (q + 1) % 65536)
    BY <1>1 DEF Words, Truncate
  <1>4. w * Degree - (a + 180 * Degree) * 100 = 4 * (2048 * w - n)
    <2>1. a \in Int /\ w \in Int
      <3>1. a \in Int
        BY DEF YawRange
      <3> HIDE DEF q, m, n
      <3>2. w \in Int
        BY <1>2, <1>3
      <3> QED BY <3>1, <3>2
    <2>2. (a + 180 * Degree) * 100 = 4 * n /\ n \in Int
      BY <2>1 DEF Degree
    <2>3. w * Degree = 4 * (2048 * w)
      BY <2>1 DEF Degree
    <2> HIDE DEF n
    <2> QED BY <2>1, <2>2, <2>3
  <1> HIDE DEF q, m, n
  <1>5. 0 <= q /\ q <= 36000 /\ (m >= 2044 => q + 1 <= 36000)
    BY <1>1, <1>2
  <1>6. \A i \in Int : 0 <= i /\ i <= 36000 => i % 65536 = i
    OBVIOUS
  <1>7. w = q \/ (m >= 2044 /\ w = q + 1)
    BY <1>2, <1>3, <1>5, <1>6
  <1>8. 0 <= w /\ w <= 36000
    BY <1>2, <1>5, <1>7
  <1>9. -2047 <= 2048 * w - n /\ 2048 * w - n <= 4
    BY <1>2, <1>5, <1>7
  <1>10. /\ -Degree < w * Degree - (a + 180 * Degree) * 100
         /\ w * Degree - (a + 180 * Degree) * 100 < Degree
    <2>1. 2048 * w - n \in Int BY <1>1, <1>2, <1>7
    <2> QED BY <2>1, <1>4, <1>9 DEF Degree
  <1> QED BY <1>8, <1>10 DEF Tells

\* Whole degrees and hundredths say a temperature that fits, at most one
\* hundredth too low (data.c:34, 118).
LEMMA DegreesTell ==
    ASSUME NEW t \in Int, 0 <= t, t < 256000, NEW d \in get_decimal(t)
    PROVE  (t - 1000 * Whole(t) - 10 * d) \in 0..19
  <1> DEFINE q == t \div 1000
             f == t - 1000 * q
             h == f \div 10
  <1>1. q \in Int /\ 0 <= q /\ q < 256 /\ 0 <= f /\ f <= 999 /\ f \in Int
    OBVIOUS
  <1>2. Whole(t) = q
    <2>1. Whole(t) = q % 256 BY DEF Whole, Truncate
    <2>2. \A i \in Int : 0 <= i /\ i < 256 => i % 256 = i OBVIOUS
    <2> HIDE DEF q
    <2> QED BY <1>1, <2>1, <2>2
  <1>3. h \in Int /\ f = 10 * h + (f % 10) /\ f % 10 \in 0..9
    <2> HIDE DEF f
    <2> QED BY <1>1
  <1>4. d = h \/ (f % 10 = 0 /\ d = h - 1)
    <2>1. t - 1000 * Truncate(t, 1000) = f BY DEF Truncate
    <2>2. Truncate(f, 10) = h BY <1>1 DEF Truncate
    <2> HIDE DEF f, h
    <2> QED BY <1>1, <2>1, <2>2 DEF get_decimal
  <1>5. t - 1000 * q = f
    OBVIOUS
  <1> HIDE DEF f, h, q
  <1>6. (f - 10 * d) \in 0..19
    BY <1>1, <1>3, <1>4
  <1>7. t - 1000 * q - 10 * d = f - 10 * d
    BY <1>1, <1>3, <1>4, <1>5
  <1> QED BY <1>2, <1>6, <1>7

----------------------------------------------------------------------------
NoAttitude == <<0, 0, 0>>

\* The raw angle last received, converted.
raw(i) == angle(stc[83], i) * 45

Turned(y, turn) == y = raw(2) + (360 * turn - Compass_Offset_Angle) * Degree

\* How far jy901_convert has come with the attitude last received.
Converted ==
    /\ conv = "off" /\ Euler # NoAttitude
          => Roll = raw(0) /\ Pitch = raw(1) /\ \E turn \in -1..1 : Turned(Yaw, turn)
    /\ conv \in {"pitch", "yaw", "offset", "below", "above"} => Roll = raw(0)
    /\ conv \in {"yaw", "offset", "below", "above"} => Pitch = raw(1)
    /\ conv = "offset" => Yaw = raw(2)
    /\ conv = "below" => Turned(Yaw, 0)
    /\ conv = "above" => Turned(Yaw, 0) \/ Turned(Yaw, 1)

\* While no store has been made since the frame began, its words tell the
\* attitude of the parser, which may at most have begun on the next one.
Read ==
    /\ buff \in [roll : Int, pitch : Int, yaw : Int, whole : Int, decimal : Int]
    /\ Temperature \in Int
    /\ next \in {"pitch", "yaw"} /\ ~torn => conv \in {"off", "roll"}
    /\ next \in {"pitch", "yaw"} /\ ~torn /\ conv = "off" /\ Euler # NoAttitude
          => Tells(buff.roll, raw(0))
    /\ next = "yaw" /\ ~torn /\ conv = "off" /\ Euler # NoAttitude
          => Tells(buff.pitch, raw(1))
    /\ next = "decimal" /\ ~replaced => buff.whole = Whole(Temperature)

AllInv == TypeOK /\ YawInv /\ Converted /\ Read

\* A byte that completes no packet leaves the raw angles alone.
LEMMA ParseConverted ==
    ASSUME Converted, conv = "off", NEW b \in Byte, copeJY901_data(b)
    PROVE  Converted' /\ Euler' = Euler /\ conv' \in {"off", "roll"}
                      /\ (conv' = "off" => stc' = stc)
  <1>1. /\ conv' \in {"off", "roll"} /\ Euler' = Euler
        /\ conv' = "off" => stc' = stc
    BY DEF copeJY901_data
  <1> QED BY <1>1 DEF Converted, Euler, raw, Turned

\* The stores of the conversion one after the other.
LEMMA ConvertConverted ==
    ASSUME TypeOK, Converted, jy901_convert
    PROVE  Converted'
  <1> DEFINE C == Compass_Offset_Angle
  <1>1. stc' = stc /\ (\A i \in 0..2 : raw(i)' = raw(i))
    BY DEF jy901_convert, raw
  <1>2. raw(0) \in Int /\ raw(1) \in Int /\ raw(2) \in Int
    BY RawAngle DEF raw, Raw
  <1>3. C \in Int /\ Yaw \in Int
    BY OffsetAssumption DEF TypeOK
  <1>5. CASE SetRoll
    BY <1>1, <1>5 DEF SetRoll, Converted, raw
  <1>6. CASE SetPitch
    BY <1>1, <1>6 DEF SetPitch, Converted, raw
  <1>7. CASE SetYaw
    <2>1. Roll' = raw(0)' /\ Pitch' = raw(1)' /\ Yaw' = raw(2)'
      BY <1>1, <1>7 DEF SetYaw, Converted, raw
    <2>2. C = 0 => Yaw' = raw(2)' + (360 * 0 - C) * Degree
      BY <1>1, <1>2, <2>1 DEF Degree
    <2>3. conv' \in {"off", "offset"} /\ (conv' = "off" => C = 0)
      BY <1>7 DEF SetYaw
    <2>4. C = 0 => \E turn \in -1..1 : Turned(Yaw, turn)'
      BY <2>2 DEF Turned
    <2> QED BY <2>1, <2>3, <2>4 DEF Converted
  <1>8. CASE SubtractOffset
    <2>1. Roll' = raw(0)' /\ Pitch' = raw(1)' /\ conv' = "below"
      BY <1>1, <1>8 DEF SubtractOffset, Converted
    <2>2. Yaw' = raw(2)' + (360 * 0 - C) * Degree
      BY <1>1, <1>2, <1>3, <1>8 DEF SubtractOffset, Converted, Degree
    <2> QED BY <2>1, <2>2 DEF Converted, Turned
  <1>9. CASE RaiseYaw
    <2>1. Roll' = raw(0)' /\ Pitch' = raw(1)' /\ conv' = "above"
      BY <1>1, <1>9 DEF RaiseYaw, Converted
    <2>2. Yaw = raw(2) + (360 * 0 - C) * Degree
      BY <1>9 DEF RaiseYaw, Converted, Turned
    <2>3. \/ Yaw' = raw(2)' + (360 * 0 - C) * Degree
          \/ Yaw' = raw(2)' + (360 * 1 - C) * Degree
      BY <1>1, <1>2, <1>3, <1>9, <2>2 DEF RaiseYaw, Degree
    <2> QED BY <2>1, <2>3 DEF Converted, Turned
  <1>10. CASE LowerYaw
    <2>1. Roll' = raw(0)' /\ Pitch' = raw(1)' /\ conv' = "off"
      BY <1>1, <1>10 DEF LowerYaw, Converted
    <2>2. PICK turn \in 0..1 : Yaw = raw(2) + (360 * turn - C) * Degree
      BY <1>10 DEF LowerYaw, Converted, Turned
    <2>3. \/ Yaw' = raw(2)' + (360 * turn - C) * Degree
          \/ Yaw' = raw(2)' + (360 * (turn - 1) - C) * Degree
      BY <1>1, <1>2, <1>3, <1>10, <2>2 DEF LowerYaw, Degree
    <2>4. \E n \in -1..1 : Turned(Yaw, n)'
      BY <2>3 DEF Turned
    <2> QED BY <2>1, <2>4 DEF Converted
  <1> QED BY <1>5, <1>6, <1>7, <1>8, <1>9, <1>10 DEF jy901_convert

\* A step of the sensor, its line or its parser keeps the conversion's progress.
LEMMA ConvertedStep ==
    ASSUME TypeOK, YawInv, Converted, [Next]_vars
    PROVE  Converted'
  <1>1. CASE Receive
    <2>1. copeJY901_data(cur[pos + 1]) /\ conv = "off" BY <1>1 DEF Receive
    <2> QED BY <2>1, SentByte, ParseConverted
  <1>2. CASE Change
    <2>1. PICK b \in NoiseBytes : copeJY901_data(b) BY <1>2 DEF Change
    <2>2. b \in Byte /\ conv = "off" BY <1>2, FaultAssumption DEF Change
    <2> QED BY <2>1, <2>2, ParseConverted
  <1>3. CASE Spin
    <2>1. copeJY901_data(255) /\ conv = "off" /\ 255 \in Byte BY <1>3 DEF Spin, Byte
    <2> QED BY <2>1, ParseConverted
  <1>4. CASE jy901_convert
    BY <1>4, ConvertConverted
  <1>5. CASE jy901Setup \/ Lose \/ UNCHANGED vars
    <2>1. stc' = stc /\ Euler' = Euler /\ conv' = conv
      BY <1>5 DEF jy901Setup, Lose, vars
    <2> QED BY <2>1 DEF Converted, Euler, raw, Turned
  <1> QED BY <1>1, <1>2, <1>3, <1>4, <1>5 DEF Next

\* What a step of the parser leaves of the frame being filled.
LEMMA ReadAttitudeStep ==
    ASSUME TypeOK, YawInv, Converted, Read, AttitudeStep
    PROVE  Read'
  <1>1. UNCHANGED <<next, buff, Temperature, replaced>>
    BY DEF AttitudeStep
  <1>2. CASE torn' \/ next \notin {"pitch", "yaw"}
    BY <1>1, <1>2 DEF Read
  <1>3. CASE ~torn' /\ next \in {"pitch", "yaw"}
    <2>1. ~torn /\ ~jy901_convert /\ conv \in {"off", "roll"}
      BY <1>3 DEF AttitudeStep, Read
    <2>2. /\ Euler' = Euler
          /\ conv' = "off" => conv = "off" /\ stc' = stc
          /\ conv' \in {"off", "roll"}
      <3>1. CASE Receive \/ Change \/ Spin
        BY <3>1, <2>1 DEF Receive, Change, Spin, copeJY901_data
      <3>2. CASE jy901Setup \/ Lose
        BY <3>2, <2>1 DEF jy901Setup, Lose
      <3> QED BY <2>1, <3>1, <3>2 DEF AttitudeStep, Next
    <2> QED BY <1>1, <2>1, <2>2, <1>3 DEF Read, raw
  <1> QED BY <1>2, <1>3

\* What the steps of the frame itself do.
LEMMA ReadStep ==
    ASSUME TypeOK, YawInv, Converted, Read, [AllNext]_allVars
    PROVE  Read'
  <1>1. CASE AttitudeStep
    BY <1>1, ReadAttitudeStep
  <1>2. CASE ReadRoll
    <2>1. PICK w \in Words(Roll) : buff' = [buff EXCEPT !.roll = w]
      BY <1>2 DEF ReadRoll
    <2>2. w \in Int
      BY DEF Words, Truncate, TypeOK, Degree
    <2>3. UNCHANGED vars /\ next' = "pitch" /\ torn' = (conv # "off")
          /\ UNCHANGED <<Temperature, replaced>>
      BY <1>2 DEF ReadRoll
    <2>4. stc' = stc /\ conv' = conv /\ Euler' = Euler
      BY <2>3 DEF vars
    <2>5. conv = "off" /\ Euler # NoAttitude => Tells(w, raw(0))
      <3>1. ASSUME conv = "off", Euler # NoAttitude PROVE Roll = raw(0) /\ raw(0) \in YawRange
        BY <3>1, RawAngle DEF Converted, raw, Raw, YawRange, Degree
      <3> QED BY <3>1, WordsTell
    <2> QED BY <2>1, <2>2, <2>3, <2>4, <2>5 DEF Read, raw
  <1>3. CASE ReadPitch
    <2>1. PICK w \in Words(Pitch) : buff' = [buff EXCEPT !.pitch = w]
      BY <1>3 DEF ReadPitch
    <2>2. w \in Int
      BY DEF Words, Truncate, TypeOK, Degree
    <2>3. UNCHANGED vars /\ next = "pitch" /\ next' = "yaw"
          /\ UNCHANGED <<Temperature, replaced, torn>>
      BY <1>3 DEF ReadPitch
    <2>4. stc' = stc /\ conv' = conv /\ Euler' = Euler
      BY <2>3 DEF vars
    <2>5. conv = "off" /\ Euler # NoAttitude => Tells(w, raw(1))
      <3>1. ASSUME conv = "off", Euler # NoAttitude PROVE Pitch = raw(1) /\ raw(1) \in YawRange
        BY <3>1, RawAngle DEF Converted, raw, Raw, YawRange, Degree
      <3> QED BY <3>1, WordsTell
    <2> QED BY <2>1, <2>2, <2>3, <2>4, <2>5 DEF Read, raw
  <1>4. CASE ReadYaw
    <2>1. PICK w \in Words(Yaw) : buff' = [buff EXCEPT !.yaw = w]
      BY <1>4 DEF ReadYaw
    <2>2. w \in Int
      BY DEF Words, Truncate, TypeOK, Degree
    <2> QED BY <1>4, <2>1, <2>2 DEF ReadYaw, Read
  <1>5. CASE ReadWhole
    <2>1. Temperature' \in Int /\ Whole(Temperature') \in Int
      BY <1>5, TemperatureAssumption DEF ReadWhole, Whole, Truncate
    <2> QED BY <1>5, <2>1 DEF ReadWhole, Read
  <1>6. CASE StoreTemperature
    BY <1>6, TemperatureAssumption DEF StoreTemperature, Read
  <1>7. CASE ReadDecimal
    <2>1. PICK d \in get_decimal(Temperature) : buff' = [buff EXCEPT !.decimal = d]
      BY <1>7 DEF ReadDecimal
    <2>2. d \in Int
      BY DEF get_decimal, Truncate, Read
    <2> QED BY <1>7, <2>1, <2>2 DEF ReadDecimal, Read
  <1>8. CASE Send
    BY <1>8 DEF Send, Read, Empty
  <1>9. CASE UNCHANGED allVars
    BY <1>9 DEF allVars, frameVars, vars, Euler, Read, raw
  <1> QED BY <1>1, <1>2, <1>3, <1>4, <1>5, <1>6, <1>7, <1>8, <1>9 DEF AllNext

LEMMA AllInvInit == AllInit => AllInv
  BY TypeInit DEF AllInit, Init, AllInv, Converted, Read, Euler, NoAttitude, Empty

LEMMA AllInvStep == AllInv /\ [AllNext]_allVars => AllInv'
  <1> SUFFICES ASSUME AllInv, [AllNext]_allVars PROVE AllInv'
    OBVIOUS
  <1>1. [Next]_vars
    BY DEF AllNext, AttitudeStep, ReadRoll, ReadPitch, ReadYaw, ReadWhole,
           StoreTemperature, ReadDecimal, Send, allVars
  <1> QED BY <1>1, TypeStep, ConvertedStep, ReadStep DEF AllInv

\* The inductive invariant.
THEOREM AllInvariance == AllSpec => []AllInv
  BY AllInvInit, AllInvStep, PTL DEF AllSpec

\* What a frame of convert_rov_status_data tells its client was so, whatever
\* the packets, the readings, the offset and the interleaving.
THEOREM FramesTell == AllSpec => FrameTruthful
  <1>1. AllInv /\ [AllNext]_allVars
            => [/\ ReadYaw => YawTold /\ AttitudeTold
                /\ ReadDecimal => TemperatureTold]_allVars
    <2> SUFFICES ASSUME AllInv
                 PROVE  /\ ReadYaw => YawTold /\ AttitudeTold
                        /\ ReadDecimal => TemperatureTold
      OBVIOUS
    <2>1. ASSUME ReadYaw PROVE YawTold /\ AttitudeTold
      <3>1. PICK w \in Words(Yaw) : buff' = [buff EXCEPT !.yaw = w]
        BY <2>1 DEF ReadYaw
      <3>2. next = "yaw"
        BY <2>1 DEF ReadYaw
      <3>3. buff'.yaw = w /\ buff'.roll = buff.roll /\ buff'.pitch = buff.pitch
        BY <3>1 DEF AllInv, Read
      <3>4. ASSUME conv \notin {"below", "above"}
            PROVE  0 <= w /\ w <= 36000 /\ Tells(w, Yaw)
        <4>1. Yaw \in YawRange
          BY <3>4 DEF AllInv, YawInv, YawInRange, TypeOK, YawRange
        <4> QED BY <4>1, WordsTell
      <3>5. YawTold
        BY <3>3, <3>4 DEF YawTold
      <3>6. ASSUME ~torn, conv = "off", Euler # NoAttitude
            PROVE  /\ Tells(buff'.roll, raw(0))
                   /\ Tells(buff'.pitch, raw(1))
                   /\ \E turn \in -1..1 :
                          Tells(buff'.yaw, raw(2) + (360 * turn - Compass_Offset_Angle) * Degree)
        <4>1. Tells(buff.roll, raw(0)) /\ Tells(buff.pitch, raw(1))
          BY <3>2, <3>6 DEF AllInv, Read
        <4>2. PICK turn \in -1..1 : Turned(Yaw, turn)
          BY <3>6 DEF AllInv, Converted
        <4>3. Tells(w, Yaw)
          BY <3>4, <3>6
        <4> QED BY <3>3, <4>1, <4>2, <4>3 DEF Turned
      <3> QED BY <3>5, <3>6 DEF AttitudeTold, raw, NoAttitude
    <2>2. ASSUME ReadDecimal PROVE TemperatureTold
      <3>1. PICK d \in get_decimal(Temperature) : buff' = [buff EXCEPT !.decimal = d]
        BY <2>2 DEF ReadDecimal
      <3>2. buff'.decimal = d /\ buff'.whole = buff.whole
        BY <3>1 DEF AllInv, Read
      <3>3. ASSUME ~replaced, 0 <= Temperature, Temperature < 256000
            PROVE  (Temperature - 1000 * buff'.whole - 10 * buff'.decimal) \in 0..19
        <4>1. buff.whole = Whole(Temperature) /\ Temperature \in Int
          BY <2>2, <3>3 DEF ReadDecimal, AllInv, Read
        <4>2. (Temperature - 1000 * Whole(Temperature) - 10 * d) \in 0..19
          BY <3>3, <4>1, DegreesTell
        <4> QED BY <3>2, <4>1, <4>2
      <3> QED BY <3>3 DEF TemperatureTold
    <2> QED BY <2>1, <2>2
  <1> QED BY <1>1, AllInvariance, PTL DEF AllSpec, FrameTruthful

\* The results of the SPL1301 and where its driver stands.
Sample == Bytes \X Bytes \X Bytes
SplReading == {"rawT", "rawP"}
SplPcs == {"calib", "rateP", "rateT", "start", "check", "absent", "idle"} \cup SplReading

\* The types of what the SPL1301 and its driver hold.
SplTypes ==
    /\ spl_pc \in SplPcs
    /\ samples \subseteq Sample
    /\ sample \in [Channels -> samples]
    /\ held \in [Channels -> SUBSET Sample]
    /\ \A ch \in Channels : IsFiniteSet(held[ch])
    /\ spl_raw \in [Channels -> Int]
    /\ bytes \in Seq(Bytes) /\ Len(bytes) <= 3
    /\ chan \in Channels

\* The value of a channel is the only result held during the reading.
Sole(ch) == \A s \in held[ch] : held[ch] = {s} => spl_raw[ch] = ValueOf(s)

\* Every byte fetched was held by the chip during the reading.
Fetched(ch) == \A i \in 1..Len(bytes) : \E s \in held[ch] : bytes[i] = s[i]

\* During a reading the registers are among the results held since it began,
\* and what has been fetched comes from them; between readings the values
\* stored are right.
ReadingInv ==
    /\ spl_pc \in SplReading => \A ch \in Channels : sample[ch] \in held[ch]
    /\ spl_pc = "rawT" => Fetched("T")
    /\ spl_pc = "rawP" => chan = "P" /\ Fetched("P") /\ Sole("T")
    /\ spl_pc \notin SplReading => Sole("T") /\ (chan = "P" => Sole("P"))

\* What a step of the program does to the SPL1301 and its driver.
LEMMA SplStep ==
    ASSUME [Start_Next]_sensorVars
    PROVE  \/ Spl_Setup /\ pc["depth"] = "probe" /\ driver["depth"] = "spl1301"
           \/ \E ch \in Channels : spl1301_myDigitalRead(ch)
           \/ Spl_Read
           \/ Chip_Sample
           \/ UNCHANGED splVars
  BY DEF Start_Next, ThreadStep, Depth_Setup, Reading, analogRead, Stay, sensorVars,
         Channels, TEMPERATURE_SENSOR, PRESSURE_SENSOR, At

\* A 24-bit number with its sign.
LEMMA Extend24 ==
    ASSUME NEW v \in Int
    PROVE  SignExtend(v, 2^24) = IF v >= 8388608 THEN v - 16777216 ELSE v
  BY SMT DEF SignExtend

\* Three bytes as one number: the sign is that of the first one.
LEMMA Join24 ==
    ASSUME NEW x \in Bytes, NEW y \in Bytes, NEW z \in Bytes,
           NEW b, b[1] = x, b[2] = y, b[3] = z
    PROVE  Signed24(b) = ValueOf(b) /\ Signed24(b) \in Int
  <1> DEFINE v == (IF x > 127 THEN x - 256 ELSE x) * 65536 + y * 256 + z
  <1>1. x \in 0..255 /\ y \in 0..255 /\ z \in 0..255
    BY DEF Bytes
  <1>2. (x * 256 + y) * 256 + z = x * 65536 + y * 256 + z
    BY <1>1, SMT
  <1>3. (x * 256 + y) * 256 + z \in Int
    BY <1>1, <1>2, SMT
  <1>4. SignExtend((x * 256 + y) * 256 + z, 2^24) = v
    BY <1>1, <1>2, <1>3, Extend24, SMT
  <1>5. Signed24(b) = SignExtend((x * 256 + y) * 256 + z, 2^24) /\ ValueOf(b) = v
    BY DEF Signed24, ValueOf
  <1>6. v \in Int
    BY <1>1, SMT
  <1> QED BY <1>4, <1>5, <1>6

\* The value computed from the bytes of a result is that of the result.
LEMMA ValueRight ==
    ASSUME NEW s \in Sample, NEW b \in Seq(Bytes), Len(b) = 3,
           \A i \in 1..3 : b[i] = s[i]
    PROVE  Signed24(b) = ValueOf(s)
  <1>1. b[1] = s[1] /\ b[2] = s[2] /\ b[3] = s[3]
    OBVIOUS
  <1>2. s[1] \in Bytes /\ s[2] \in Bytes /\ s[3] \in Bytes
    BY DEF Sample
  <1>3. Signed24(s) = ValueOf(s)
    BY <1>2, Join24
  <1>4. Signed24(b) = Signed24(s)
    BY <1>1 DEF Signed24
  <1> QED BY <1>3, <1>4

\* The result fetched is the one held, if only one was.
LEMMA FetchedRight ==
    ASSUME SplTypes, NEW ch \in Channels, Fetched(ch), Len(bytes) = 3,
           NEW s \in held[ch], held[ch] = {s}
    PROVE  Signed24(bytes) = ValueOf(s)
  <1>1. s \in Sample /\ bytes \in Seq(Bytes)
    BY DEF SplTypes
  <1>2. \A i \in 1..3 : bytes[i] = s[i]
    BY DEF Fetched
  <1> QED BY <1>1, <1>2, ValueRight

\* Before the Setups nothing has been read.
LEMMA SplInit == Start_Init => SplTypes /\ ReadingInv
  <1> SUFFICES ASSUME Start_Init PROVE SplTypes /\ ReadingInv
    OBVIOUS
  <1>1. samples \subseteq Sample
    BY BoardsAssumption DEF Start_Init, Sample
  <1>2. \A ch \in Channels : held[ch] = {}
    BY DEF Start_Init, Spl_Init
  <1>3. SplTypes
    BY <1>1, <1>2, FS_EmptySet DEF Start_Init, Spl_Init, SplTypes, SplPcs, Channels
  <1> QED BY <1>2, <1>3 DEF Start_Init, Spl_Init, ReadingInv, Sole, SplReading, Channels

\* Types of the SPL1301's variables are kept.
LEMMA SplTypesStep == SplTypes /\ [Start_Next]_sensorVars => SplTypes'
  <1> SUFFICES ASSUME SplTypes, [Start_Next]_sensorVars PROVE SplTypes'
    OBVIOUS
  <1> USE DEF SplTypes, SplPcs, SplReading
  <1>1. CASE Spl_Setup
    BY <1>1 DEF Spl_Setup, Spl_Setup_Calib, Setup_Rate, Setup_Start, Spl_Setup_Check,
                spl_chip, spl_reading
  <1>2. CASE \E ch \in Channels : spl1301_myDigitalRead(ch)
    <2>1. \A x \in Channels : sample[x] \in Sample
      OBVIOUS
    <2>2. held' = [x \in Channels |-> {sample[x]}]
      BY <1>2 DEF spl1301_myDigitalRead
    <2>3. \A x \in Channels : IsFiniteSet(held'[x])
      BY <2>2, FS_Singleton
    <2> QED BY <1>2, <2>1, <2>2, <2>3 DEF spl1301_myDigitalRead, spl_chip
  <1>3. CASE Spl_Read
    <2>1. ASSUME NEW ch \in Channels, NEW here, Read_Byte(ch, here) PROVE SplTypes'
      <3>1. Len(bytes) + 1 \in 1..3
        BY <2>1 DEF Read_Byte
      <3>2. sample[ch] \in Sample
        OBVIOUS
      <3>3. sample[ch][Len(bytes) + 1] \in Bytes
        BY <3>1, <3>2 DEF Sample
      <3>4. bytes' \in Seq(Bytes) /\ Len(bytes') = Len(bytes) + 1
        BY <2>1, <3>3, AppendProperties DEF Read_Byte
      <3> QED BY <2>1, <3>1, <3>4 DEF Read_Byte, spl_chip
    <2>2. ASSUME Raw_Temp \/ Raw_Pressure PROVE SplTypes'
      <3>1. bytes[1] \in Bytes /\ bytes[2] \in Bytes /\ bytes[3] \in Bytes
        BY <2>2, ElementOfSeq DEF Raw_Temp, Raw_Pressure
      <3>2. Signed24(bytes) \in Int
        BY <3>1, Join24
      <3>3. spl_raw' \in [Channels -> Int] /\ bytes' = << >> /\ spl_pc' \in SplPcs
        BY <2>2, <3>2 DEF Raw_Temp, Raw_Pressure
      <3>4. UNCHANGED <<samples, sample, held, chan>>
        BY <2>2 DEF Raw_Temp, Raw_Pressure, spl_chip
      <3> QED BY <3>3, <3>4, EmptySeq
    <2> QED BY <1>3, <2>1, <2>2 DEF Spl_Read, Channels
  <1>4. CASE Chip_Sample
    <2>1. PICK ch \in Channels, s \in samples :
             /\ sample' = [sample EXCEPT ![ch] = s]
             /\ held' = [held EXCEPT ![ch] = IF spl_pc = "idle" THEN @ ELSE @ \cup {s}]
      BY <1>4 DEF Chip_Sample
    <2>2. IsFiniteSet(held[ch] \cup {s})
      BY FS_AddElement
    <2>3. \A x \in Channels : IsFiniteSet(held'[x])
      BY <2>1, <2>2
    <2> QED BY <1>4, <2>1, <2>3 DEF Chip_Sample, spl_chip, spl_reading
  <1>5. CASE UNCHANGED splVars
    BY <1>5 DEF splVars, spl_chip, spl_reading
  <1> QED BY <1>1, <1>2, <1>3, <1>4, <1>5, SplStep

\* The bytes and the values of a reading stay those of results it met.
LEMMA ReadingStep == SplTypes /\ ReadingInv /\ [Start_Next]_sensorVars => ReadingInv'
  <1> SUFFICES ASSUME SplTypes, ReadingInv, [Start_Next]_sensorVars PROVE ReadingInv'
    OBVIOUS
  <1> USE DEF SplReading
  <1>a. "T" \in Channels /\ "P" \in Channels
    BY DEF Channels
  <1>1. CASE Spl_Setup
    BY <1>1 DEF Spl_Setup, Spl_Setup_Calib, Setup_Rate, Setup_Start, Spl_Setup_Check,
                spl_chip, spl_reading, ReadingInv, Sole, Fetched
  <1>2. CASE \E ch \in Channels : spl1301_myDigitalRead(ch)
    BY <1>2, EmptySeq DEF spl1301_myDigitalRead, ReadingInv, Fetched
  <1>3. ASSUME NEW ch \in Channels, NEW here, Read_Byte(ch, here),
               here = IF ch = "T" THEN "rawT" ELSE "rawP"
        PROVE  ReadingInv'
    <2>1. Len(bytes) + 1 \in 1..3 /\ bytes' = Append(bytes, sample[ch][Len(bytes) + 1])
      BY <1>3 DEF Read_Byte, SplTypes
    <2>2. sample[ch] \in held[ch] /\ Fetched(ch)
      BY <1>3 DEF ReadingInv, Read_Byte, Channels
    <2>3. sample[ch][Len(bytes) + 1] \in Bytes
      <3>1. sample[ch] \in Sample BY DEF SplTypes
      <3> QED BY <2>1, <3>1 DEF Sample
    <2>4. Fetched(ch)'
      <3>1. Len(bytes') = Len(bytes) + 1
            /\ bytes'[Len(bytes) + 1] = sample[ch][Len(bytes) + 1]
            /\ \A i \in 1..Len(bytes) : bytes'[i] = bytes[i]
        BY <2>1, <2>3, AppendProperties DEF SplTypes
      <3>2. held' = held
        BY <1>3 DEF Read_Byte
      <3>3. Len(bytes) \in Nat
        BY LenProperties DEF SplTypes
      <3>4. ASSUME NEW i \in 1..(Len(bytes) + 1)
            PROVE  \E s \in held[ch] : bytes'[i] = s[i]
        <4>1. CASE i = Len(bytes) + 1
          BY <2>2, <3>1, <4>1
        <4>2. CASE i # Len(bytes) + 1
          <5>1. i \in 1..Len(bytes)
            BY <3>3, <3>4, <4>2
          <5> QED BY <2>2, <3>1, <5>1 DEF Fetched
        <4> QED BY <4>1, <4>2
      <3> QED BY <3>1, <3>2, <3>4 DEF Fetched
    <2> QED BY <1>3, <2>4 DEF Read_Byte, ReadingInv, Sole, spl_chip, Channels
  <1>4. CASE Raw_Temp
    <2>1. Fetched("T") /\ Len(bytes) = 3
      BY <1>4 DEF Raw_Temp, ReadingInv
    <2>2. Sole("T")'
      <3>1. held' = held /\ spl_raw' = [spl_raw EXCEPT !["T"] = Signed24(bytes)]
        BY <1>4 DEF Raw_Temp
      <3>2. spl_raw'["T"] = Signed24(bytes)
        BY <1>a, <3>1 DEF SplTypes
      <3> QED BY <1>a, <2>1, <3>1, <3>2, FetchedRight DEF Sole
    <2>3. chan \in {"T", "P"} /\ Fetched("P")'
      BY <1>4, EmptySeq DEF Raw_Temp, SplTypes, Fetched, Channels
    <2> QED BY <1>4, <2>2, <2>3 DEF Raw_Temp, ReadingInv, spl_chip
  <1>5. CASE Raw_Pressure
    <2>1. Fetched("P") /\ Len(bytes) = 3 /\ Sole("T")
      BY <1>5 DEF Raw_Pressure, ReadingInv
    <2>2. Sole("P")' /\ Sole("T")'
      BY <1>5, <1>a, <2>1, FetchedRight DEF Raw_Pressure, Sole, SplTypes
    <2> QED BY <1>5, <2>2 DEF Raw_Pressure, ReadingInv
  <1>6. CASE Chip_Sample
    <2>1. PICK ch \in Channels, s \in samples :
             /\ sample' = [sample EXCEPT ![ch] = s]
             /\ held' = [held EXCEPT ![ch] = IF spl_pc = "idle" THEN @ ELSE @ \cup {s}]
      BY <1>6 DEF Chip_Sample
    <2>2. UNCHANGED <<spl_raw, bytes, chan, spl_pc>>
      BY <1>6 DEF Chip_Sample, spl_reading
    <2>3. CASE spl_pc = "idle"
      <3>1. held' = held
        BY <2>1, <2>3 DEF SplTypes
      <3> QED BY <2>2, <2>3, <3>1 DEF ReadingInv, Sole
    <2>4. CASE spl_pc \in SplReading
      <3>1. \A x \in Channels : held[x] \subseteq held'[x] /\ sample'[x] \in held'[x]
        BY <2>1, <2>4 DEF SplTypes, ReadingInv
      <3>2. \A x \in Channels : (Fetched(x) => Fetched(x)')
        BY <2>2, <3>1 DEF Fetched
      <3>3. ASSUME Sole("T"), sample["T"] \in held["T"] PROVE Sole("T")'
        <4>1. CASE ch = "T"
          <5>1. held'["T"] = held["T"] \cup {s}
            BY <2>1, <2>4, <4>1 DEF SplTypes
          <5>2. \A u : held'["T"] = {u} => held["T"] = {u}
            BY <3>3, <5>1
          <5> QED BY <2>2, <3>3, <5>1, <5>2 DEF Sole
        <4>2. CASE ch # "T"
          <5>1. held'["T"] = held["T"]
            BY <1>a, <2>1, <4>2 DEF SplTypes
          <5> QED BY <2>2, <3>3, <5>1 DEF Sole
        <4> QED BY <4>1, <4>2
      <3> QED BY <1>a, <2>2, <2>4, <3>1, <3>2, <3>3 DEF ReadingInv
    <2> QED BY <1>6, <2>3, <2>4 DEF Chip_Sample
  <1>7. CASE UNCHANGED splVars
    BY <1>7 DEF splVars, spl_chip, spl_reading, ReadingInv, Sole, Fetched
  <1> QED BY <1>1, <1>2, <1>3, <1>4, <1>5, <1>6, <1>7, <1>a, SplStep DEF Spl_Read

\* A value the driver computes from a result the chip did not replace is that
\* result, sign included (spl1301_get_raw_temp, spl1301_get_raw_pressure).
THEOREM QuietReadings == Start_Spec => []QuietRawRight
  <1>1. SplTypes /\ ReadingInv => QuietRawRight
    <2> SUFFICES ASSUME SplTypes, ReadingInv, spl_pc = "idle", NEW ch \in Channels,
                        Cardinality(held[ch]) = 1, ch = "T" \/ chan = "P"
                 PROVE  spl_raw[ch] = ValueOf(CHOOSE s \in held[ch] : TRUE)
      BY DEF QuietRawRight
    <2>1. PICK s : held[ch] = {s}
      BY FS_Singleton DEF SplTypes
    <2>2. (CHOOSE x \in held[ch] : TRUE) = s
      BY <2>1
    <2>3. Sole(ch)
      BY DEF ReadingInv, SplReading, Channels
    <2> QED BY <2>1, <2>2, <2>3 DEF Sole
  <1> QED BY <1>1, SplInit, SplTypesStep, ReadingStep, PTL DEF Start_Spec

\* The numbers that two to five nibbles of the calibration memory spell.
Two(i) == Digit(i) * 16 + Digit(i + 1)
Three(i) == Two(i) * 16 + Digit(i + 2)
Four(i) == Three(i) * 16 + Digit(i + 3)
Five(i) == Four(i) * 16 + Digit(i + 4)

\* The number that the n nibbles from i on spell.
Digits(i, n) == IF n = 0 THEN 0 ELSE IF n = 1 THEN Digit(i) ELSE IF n = 2 THEN Two(i)
                ELSE IF n = 3 THEN Three(i) ELSE IF n = 4 THEN Four(i) ELSE Five(i)

\* A coefficient of three to five nibbles is the number they spell, with the
\* sign of its first bit: the recursive definition, in closed form.
LEMMA FieldValue ==
    ASSUME NEW first \in Nat, NEW n \in 3..5, 
           \A i \in first..(first + 4) : i < first + n => Digit(i) \in Int
    PROVE  Field(first, n) = IF Digit(first) >= 8 THEN Digits(first, n) - 16^n
                             ELSE Digits(first, n)
  <1> DEFINE step(v) == [i \in 0..n |-> IF i = 0 THEN 0
                                        ELSE v[i - 1] * 16 + Digit(first + i - 1)]
             w == [i \in 0..n |-> Digits(first, i)]
             value == CHOOSE v : v = step(v)
  <1>1. ASSUME NEW i \in 1..n
        PROVE  Digits(first, i) = Digits(first, i - 1) * 16 + Digit(first + i - 1)
    <2>1. i \in {1, 2, 3, 4, 5} OBVIOUS
    <2>2. CASE i = 1 BY <2>2 DEF Digits, Two, Three, Four, Five
    <2>3. CASE i = 2 BY <2>3 DEF Digits, Two, Three, Four, Five
    <2>4. CASE i = 3 BY <2>4 DEF Digits, Two, Three, Four, Five
    <2>5. CASE i = 4 BY <2>5 DEF Digits, Two, Three, Four, Five
    <2>6. CASE i = 5 BY <2>6 DEF Digits, Two, Three, Four, Five
    <2> QED BY <2>1, <2>2, <2>3, <2>4, <2>5, <2>6
  <1>3. w = step(w)
    <2>1. ASSUME NEW i \in 0..n
          PROVE  Digits(first, i)
                   = IF i = 0 THEN 0 ELSE w[i - 1] * 16 + Digit(first + i - 1)
      <3>1. CASE i = 0
        BY <3>1 DEF Digits
      <3>2. CASE i # 0
        <4>1. w[i - 1] = Digits(first, i - 1)
          BY <3>2
        <4> QED BY <1>1, <3>2, <4>1
      <3> QED BY <3>1, <3>2
    <2> HIDE DEF w
    <2>2. w = [i \in 0..n |-> Digits(first, i)]
      BY DEF w
    <2> QED BY <2>1, <2>2
  <1> HIDE DEF w
  <1>4. value = step(value) BY <1>3, Zenon
  <1>5. value[n] = Digits(first, n)
    <2> HIDE DEF value
    <2>0. \A i \in 0..n : value[i] = IF i = 0 THEN 0 ELSE value[i - 1] * 16 + Digit(first + i - 1) BY <1>4
    <2>1. value[0] = 0 BY <2>0
    <2>2. value[1] = value[0] * 16 + Digit(first) BY <2>0, 1 \in 0..n, 1 - 1 = 0, first + 1 - 1 = first
    <2>3. value[2] = value[1] * 16 + Digit(first + 1) BY <2>0
    <2>4. value[3] = value[2] * 16 + Digit(first + 2) BY <2>0
    <2>5. n > 3 => value[4] = value[3] * 16 + Digit(first + 3) BY <2>0
    <2>6. n > 4 => value[5] = value[4] * 16 + Digit(first + 4) BY <2>0
    <2>7. value[1] = Digit(first) BY <2>1, <2>2
    <2>8. CASE n = 3 BY <2>3, <2>4, <2>7, <2>8 DEF Digits, Two, Three
    <2>9. CASE n = 4 BY <2>3, <2>4, <2>5, <2>7, <2>9 DEF Digits, Two, Three, Four
    <2>10. CASE n = 5 BY <2>3, <2>4, <2>5, <2>6, <2>7, <2>10 DEF Digits, Two, Three, Four, Five
    <2> QED BY <2>8, <2>9, <2>10
  <1>6. Field(first, n) = IF Digit(first) >= 8 THEN value[n] - 16^n ELSE value[n]
    BY DEF Field
  <1> QED BY <1>5, <1>6

\* The first digit of a number tells its sign, however many digits follow.
LEMMA Leading ==
    ASSUME NEW a \in 0..15, NEW half \in Nat, NEW u \in Nat, u < 2 * half,
           u >= half <=> a >= 8, NEW f \in 0..15
    PROVE  /\ u * 16 + f \in Nat /\ u * 16 + f < 2 * (half * 16)
           /\ u * 16 + f >= half * 16 <=> a >= 8
  BY SMT

\* A byte of the calibration memory is its two nibbles.
LEMMA Nibbles ==
    ASSUME mem \in [0..17 -> Bytes], spl_present, NEW j \in 0..17
    PROVE  /\ ReadReg(j) = Digit(2 * j) * 16 + Digit(2 * j + 1)
           /\ Digit(2 * j) \in 0..15 /\ Digit(2 * j + 1) \in 0..15
           /\ High4(ReadReg(j)) = Digit(2 * j) /\ Low4(ReadReg(j)) = Digit(2 * j + 1)
  <1>1. mem[j] \in 0..255 /\ ReadReg(j) = mem[j]
    BY DEF Bytes, ReadReg
  <1>2. (2 * j) % 2 = 0 /\ (2 * j) \div 2 = j /\ (2 * j + 1) % 2 = 1 /\ (2 * j + 1) \div 2 = j
    OBVIOUS
  <1>3. Digit(2 * j) = mem[j] \div 16 /\ Digit(2 * j + 1) = mem[j] % 16
    BY <1>2 DEF Digit
  <1>4. High4(ReadReg(j)) = mem[j] \div 16 /\ Low4(ReadReg(j)) = mem[j] % 16
    BY <1>1 DEF High4, Low4
  <1>5. /\ mem[j] = (mem[j] \div 16) * 16 + (mem[j] % 16)
        /\ mem[j] \div 16 \in 0..15 /\ mem[j] % 16 \in 0..15
    BY <1>1
  <1> QED BY <1>1, <1>3, <1>4, <1>5

\* The fields of 3, 4 and 5 digits are sign extended.
LEMMA Fields ==
    ASSUME NEW i \in Nat, Digit(i) \in 0..15, Digit(i + 1) \in 0..15, Digit(i + 2) \in 0..15
    PROVE  /\ Field(i, 3) = SignExtend(Three(i), 2^12)
           /\ Digit(i + 3) \in 0..15 => Field(i, 4) = SignExtend(Four(i), 2^16)
           /\ Digit(i + 3) \in 0..15 /\ Digit(i + 4) \in 0..15 =>
                Field(i, 5) = SignExtend(Five(i), 2^20)
  <1>1. Two(i) \in Nat /\ Two(i) < 2 * 128 /\ (Two(i) >= 128 <=> Digit(i) >= 8)
    BY DEF Two
  <1>2. Three(i) \in Nat /\ Three(i) < 2 * 2048 /\ (Three(i) >= 2048 <=> Digit(i) >= 8)
    BY <1>1, Leading, 128 * 16 = 2048 DEF Three
  <1>3. Field(i, 3) = SignExtend(Three(i), 2^12)
    <2>1. \A x \in i..(i + 4) : x < i + 3 => Digit(x) \in Int
      <3>1. \A x \in i..(i + 4) : x < i + 3 => x = i \/ x = i + 1 \/ x = i + 2
        OBVIOUS
      <3> QED BY <3>1
    <2>2. Field(i, 3) = IF Digit(i) >= 8 THEN Digits(i, 3) - 16^3 ELSE Digits(i, 3)
      BY <2>1, FieldValue
    <2>3. Digits(i, 3) = Three(i)
      BY DEF Digits
    <2>4. \A v \in Nat : SignExtend(v, 2^12) = IF v >= 2048 THEN v - 16^3 ELSE v
      BY SMT DEF SignExtend
    <2> QED BY <1>2, <2>2, <2>3, <2>4
  <1>4. ASSUME Digit(i + 3) \in 0..15
        PROVE  /\ Four(i) \in Nat /\ Four(i) < 2 * 32768
               /\ Four(i) >= 32768 <=> Digit(i) >= 8
               /\ Field(i, 4) = SignExtend(Four(i), 2^16)
    <2>1. \A x \in i..(i + 4) : x < i + 4 => Digit(x) \in Int
      <3>1. \A x \in i..(i + 4) :
                x < i + 4 => x = i \/ x = i + 1 \/ x = i + 2 \/ x = i + 3
        OBVIOUS
      <3> QED BY <1>4, <3>1
    <2>2. Field(i, 4) = IF Digit(i) >= 8 THEN Digits(i, 4) - 16^4 ELSE Digits(i, 4)
      BY <2>1, FieldValue
    <2>3. Digits(i, 4) = Four(i)
      BY DEF Digits
    <2>4. \A v \in Nat : SignExtend(v, 2^16) = IF v >= 32768 THEN v - 16^4 ELSE v
      BY SMT DEF SignExtend
    <2>5. Four(i) \in Nat /\ Four(i) < 2 * 32768 /\ (Four(i) >= 32768 <=> Digit(i) >= 8)
      BY <1>2, <1>4, Leading, 2048 * 16 = 32768, SMT DEF Four
    <2> QED BY <2>2, <2>3, <2>4, <2>5, SMT
  <1>5. ASSUME Digit(i + 3) \in 0..15, Digit(i + 4) \in 0..15
        PROVE  Field(i, 5) = SignExtend(Five(i), 2^20)
    <2>1. \A x \in i..(i + 4) : x < i + 5 => Digit(x) \in Int
      <3>1. \A x \in i..(i + 4) :
                x = i \/ x = i + 1 \/ x = i + 2 \/ x = i + 3 \/ x = i + 4
        OBVIOUS
      <3> QED BY <1>5, <3>1
    <2>2. Field(i, 5) = IF Digit(i) >= 8 THEN Digits(i, 5) - 16^5 ELSE Digits(i, 5)
      BY <2>1, FieldValue
    <2>3. Digits(i, 5) = Five(i)
      BY DEF Digits
    <2>4. \A v \in Nat : SignExtend(v, 2^20) = IF v >= 524288 THEN v - 16^5 ELSE v
      BY SMT DEF SignExtend
    <2>5. Five(i) \in Nat /\ (Five(i) >= 524288 <=> Digit(i) >= 8)
      BY <1>4, <1>5, Leading, 32768 * 16 = 524288, SMT DEF Five
    <2> QED BY <2>2, <2>3, <2>4, <2>5, SMT
  <1> QED BY <1>3, <1>4, <1>5

\* What the driver joins from two or three bytes that follow one another.
LEMMA Joins ==
    ASSUME mem \in [0..17 -> Bytes], spl_present, NEW j \in 0..16
    PROVE  /\ Join(ReadReg(j), High4(ReadReg(j + 1)), 16) = Three(2 * j)
           /\ Join(Low4(ReadReg(j)), ReadReg(j + 1), 256) = Three(2 * j + 1)
           /\ Join(ReadReg(j), ReadReg(j + 1), 256) = Four(2 * j)
           /\ j < 16 => /\ Join(Four(2 * j), High4(ReadReg(j + 2)), 16) = Five(2 * j)
                        /\ Join(Three(2 * j + 1), ReadReg(j + 2), 256) = Five(2 * j + 1)
  <1> DEFINE i == 2 * j
  <1>1. 2 * (j + 1) = i + 2 /\ 2 * (j + 1) + 1 = i + 3
    OBVIOUS
  <1>2. 2 * (j + 2) = i + 4 /\ 2 * (j + 2) + 1 = i + 5
    OBVIOUS
  <1>3. /\ ReadReg(j) = Digit(i) * 16 + Digit(i + 1)
        /\ Digit(i) \in 0..15 /\ Digit(i + 1) \in 0..15
        /\ Low4(ReadReg(j)) = Digit(i + 1)
    BY Nibbles
  <1>4. /\ ReadReg(j + 1) = Digit(i + 2) * 16 + Digit(i + 3)
        /\ Digit(i + 2) \in 0..15 /\ Digit(i + 3) \in 0..15
        /\ High4(ReadReg(j + 1)) = Digit(i + 2)
    <2>1. j + 1 \in 0..17
      OBVIOUS
    <2> QED BY <1>1, <2>1, Nibbles
  <1>5. ASSUME j < 16
        PROVE  /\ ReadReg(j + 2) = Digit(i + 4) * 16 + Digit(i + 5)
               /\ Digit(i + 4) \in 0..15 /\ Digit(i + 5) \in 0..15
               /\ High4(ReadReg(j + 2)) = Digit(i + 4)
    <2>1. j + 2 \in 0..17
      BY <1>5
    <2> QED BY <1>2, <2>1, Nibbles
  <1>6. i \in Nat /\ i + 1 + 1 = i + 2 /\ i + 1 + 2 = i + 3 /\ i + 1 + 3 = i + 4
          /\ i + 1 + 4 = i + 5
    OBVIOUS
  <1> HIDE DEF i
  <1>7. /\ Two(i) = Digit(i) * 16 + Digit(i + 1) /\ Three(i) = Two(i) * 16 + Digit(i + 2)
        /\ Four(i) = Three(i) * 16 + Digit(i + 3) /\ Five(i) = Four(i) * 16 + Digit(i + 4)
    BY DEF Two, Three, Four, Five
  <1>8. /\ Two(i + 1) = Digit(i + 1) * 16 + Digit(i + 2)
        /\ Three(i + 1) = Two(i + 1) * 16 + Digit(i + 3)
        /\ Four(i + 1) = Three(i + 1) * 16 + Digit(i + 4)
        /\ Five(i + 1) = Four(i + 1) * 16 + Digit(i + 5)
    BY <1>6 DEF Two, Three, Four, Five
  <1>a. \A a, v, n : v # -1 => Join(a, v, n) = a * n + v
    BY DEF Join
  <1>b. Two(i) \in Int /\ Three(i) \in Int /\ Four(i) \in Int /\ Three(i + 1) \in Int
    <2>1. \A x, y \in Int : x * 16 + y \in Int
      OBVIOUS
    <2>2. /\ Digit(i) \in Int /\ Digit(i + 1) \in Int /\ Digit(i + 2) \in Int
          /\ Digit(i + 3) \in Int
      BY <1>3, <1>4
    <2>3. Two(i) \in Int /\ Two(i + 1) \in Int
      BY <1>7, <1>8, <2>1, <2>2, Zenon
    <2>4. Three(i) \in Int /\ Three(i + 1) \in Int
      BY <1>7, <1>8, <2>1, <2>2, <2>3, Zenon
    <2> QED BY <1>7, <2>1, <2>2, <2>3, <2>4, Zenon
  <1>c. ReadReg(j + 1) \in Int /\ ReadReg(j + 1) # -1
    BY <1>4
  <1>9. Join(ReadReg(j), High4(ReadReg(j + 1)), 16) = Three(i)
    BY <1>3, <1>4, <1>7, <1>a
  <1>10. Join(Low4(ReadReg(j)), ReadReg(j + 1), 256) = Three(i + 1)
    <2>1. Join(Low4(ReadReg(j)), ReadReg(j + 1), 256) = Digit(i + 1) * 256 + ReadReg(j + 1)
      BY <1>3, <1>a, <1>c
    <2> QED BY <1>3, <1>4, <1>8, <2>1
  <1>11. Join(ReadReg(j), ReadReg(j + 1), 256) = Four(i)
    <2>1. Join(ReadReg(j), ReadReg(j + 1), 256) = Two(i) * 256 + ReadReg(j + 1)
      BY <1>3, <1>7, <1>a, <1>c
    <2> QED BY <1>4, <1>7, <1>b, <2>1
  <1>12. j < 16 => Join(Four(i), High4(ReadReg(j + 2)), 16) = Five(i)
    BY <1>5, <1>7, <1>a
  <1>13. ASSUME j < 16
         PROVE  Join(Three(i + 1), ReadReg(j + 2), 256) = Five(i + 1)
    <2>1. ReadReg(j + 2) # -1
      BY <1>5, <1>13
    <2>2. Join(Three(i + 1), ReadReg(j + 2), 256) = Three(i + 1) * 256 + ReadReg(j + 2)
      BY <1>a, <2>1
    <2> QED BY <1>5, <1>8, <1>13, <1>b, <2>2
  <1> QED BY <1>9, <1>10, <1>11, <1>12, <1>13 DEF i

\* spl1301_get_calib_param takes the nine fields out of the memory, whatever
\* it holds.
THEOREM CalibDecoded ==
    ASSUME mem \in [0..17 -> Bytes], spl_present, NEW p, p = spl1301_get_calib_param
    PROVE  /\ p.c0 = Field(0, 3) /\ p.c1 = Field(3, 3)
           /\ p.c00 = Field(6, 5) /\ p.c10 = Field(11, 5)
           /\ p.c01 = Field(16, 4) /\ p.c11 = Field(20, 4)
           /\ p.c20 = Field(24, 4) /\ p.c21 = Field(28, 4)
           /\ p.c30 = Field(32, 4)
  <1>1. ASSUME NEW i \in 0..35 PROVE Digit(i) \in 0..15
    <2>1. i \div 2 \in 0..17 /\ (i = 2 * (i \div 2) \/ i = 2 * (i \div 2) + 1)
      OBVIOUS
    <2> QED BY <2>1, Nibbles
  <1>2. ASSUME NEW i \in 0..31
        PROVE  /\ Field(i, 3) = SignExtend(Three(i), 2^12)
               /\ Field(i, 5) = SignExtend(Five(i), 2^20)
    <2>1. i + 1 \in 0..35 /\ i + 2 \in 0..35 /\ i + 3 \in 0..35 /\ i + 4 \in 0..35
      OBVIOUS
    <2> QED BY <1>1, <2>1, Fields
  <1>3. ASSUME NEW i \in 0..32 PROVE Field(i, 4) = SignExtend(Four(i), 2^16)
    <2>1. i + 1 \in 0..35 /\ i + 2 \in 0..35 /\ i + 3 \in 0..35
      OBVIOUS
    <2> QED BY <1>1, <2>1, Fields
  <1>4. p.c0 = Field(0, 3)
    <2>1. Join(ReadReg(0), High4(ReadReg(1)), 16) = Three(0)
      BY Joins, 2 * 0 = 0, 0 + 1 = 1
    <2> QED BY <1>2, <2>1 DEF spl1301_get_calib_param
  <1>5. p.c1 = Field(3, 3)
    <2>1. Join(Low4(ReadReg(1)), ReadReg(2), 256) = Three(3)
      BY Joins, 2 * 1 + 1 = 3, 1 + 1 = 2
    <2> QED BY <1>2, <2>1 DEF spl1301_get_calib_param
  <1>6. p.c00 = Field(6, 5)
    <2>1. Join(Join(ReadReg(3), ReadReg(4), 256), High4(ReadReg(5)), 16) = Five(6)
      BY Joins, 2 * 3 = 6, 3 + 1 = 4, 3 + 2 = 5
    <2> QED BY <1>2, <2>1 DEF spl1301_get_calib_param
  <1>7. p.c10 = Field(11, 5)
    <2>1. Join(Join(Low4(ReadReg(5)), ReadReg(6), 256), ReadReg(7), 256) = Five(11)
      BY Joins, 2 * 5 + 1 = 11, 5 + 1 = 6, 5 + 2 = 7
    <2> QED BY <1>2, <2>1 DEF spl1301_get_calib_param
  <1>8. ASSUME NEW j \in 0..16 PROVE Coef16(j) = Field(2 * j, 4)
    BY <1>3, Joins DEF Coef16
  <1>9. /\ p.c01 = Field(16, 4) /\ p.c11 = Field(20, 4)
        /\ p.c20 = Field(24, 4) /\ p.c21 = Field(28, 4)
        /\ p.c30 = Field(32, 4)
    BY <1>8 DEF spl1301_get_calib_param
  <1> QED BY <1>4, <1>5, <1>6, <1>7, <1>9

(***************************************************************************)
(* Setup of the SPL1301.                                                   *)
(***************************************************************************)

\* The rates the driver asks for have a code, or need no shift.
RatesAsked == \A ch \in Channels : /\ asked[ch].over \in Nat
                                  /\ \/ asked[ch].over <= 8
                                     \/ \E e \in 0..7 : asked[ch].over = 2^e

\* The scale factor and the result shift of a channel are those of the
\* oversampling rate in its register.
Consistent(ch) == /\ k[ch] = Scale[reg[ch].over + 1]
                  /\ ch \in shift <=> reg[ch].over > 3

\* What Setup has done by each point: the coefficients decoded, then the rates
\* of the two channels set.
SetupInv ==
    /\ spl_pc \in SplPcs
    /\ spl_present => mem \in [0..17 -> Bytes]
    /\ RatesAsked
    /\ k \in [Channels -> Int]
    /\ reg \in [Channels -> [rate : Nat, over : Nat]]
    /\ spl_pc # "calib" => IF spl_present THEN CalibRight ELSE calib.c0 = -1
    /\ spl_pc = "absent" => calib.c0 = -1
    /\ spl_pc \in {"idle"} \cup SplReading => calib.c0 # -1
    /\ spl_present /\ spl_pc \notin {"calib", "rateP"} => Consistent("P")
    /\ spl_present /\ spl_pc \notin {"calib", "rateP", "rateT"} => Consistent("T")

\* Without the chip every coefficient byte reads as -1, and so does c0.
LEMMA AbsentReads == ~ spl_present => spl1301_get_calib_param.c0 = -1
  <1> SUFFICES ASSUME ~ spl_present PROVE spl1301_get_calib_param.c0 = -1
    OBVIOUS
  <1>1. High4(ReadReg(1)) = -1
    BY DEF ReadReg, High4
  <1>2. Join(ReadReg(0), High4(ReadReg(1)), 16) = -1
    BY <1>1 DEF Join
  <1>3. SignExtend(-1, 2^12) = -1
    BY SMT DEF SignExtend
  <1> QED BY <1>2, <1>3 DEF spl1301_get_calib_param

\* Whatever rate is asked for, the code is one of eight.
LEMMA RateCodeType == \A r : RateCode(r) \in 0..7
  <1>1. ASSUME NEW r PROVE RateCode(r) \in 0..7
    <2>1. CASE \E e \in 0..7 : r = 2^e
      BY <2>1 DEF RateCode
    <2>2. CASE ~ \E e \in 0..7 : r = 2^e
      BY <2>2 DEF RateCode
    <2> QED BY <2>1, <2>2
  <1> QED BY <1>1

\* The code of a rate is above 3 exactly for the rates that need the shift.
LEMMA RateCodes ==
    ASSUME NEW r \in Nat, r <= 8 \/ \E e \in 0..7 : r = 2^e
    PROVE  RateCode(r) > 3 <=> r > 8
  <1>1. CASE \E e \in 0..7 : r = 2^e
    <2>1. PICK e \in 0..7 : e = RateCode(r) /\ r = 2^e
      BY <1>1 DEF RateCode
    <2> HIDE DEF RateCode
    <2>2. e = 0 \/ e = 1 \/ e = 2 \/ e = 3 \/ e = 4 \/ e = 5 \/ e = 6 \/ e = 7
      OBVIOUS
    <2>3. e = 0 => r = 1
      <3>1. \A x : x = 0 => 2^x = 1 BY SMT
      <3> QED BY <2>1, <3>1
    <2>4. e = 1 => r = 2
      <3>1. \A x : x = 1 => 2^x = 2 BY SMT
      <3> QED BY <2>1, <3>1
    <2>5. e = 2 => r = 4
      <3>1. \A x : x = 2 => 2^x = 4 BY SMT
      <3> QED BY <2>1, <3>1
    <2>6. e = 3 => r = 8
      <3>1. \A x : x = 3 => 2^x = 8 BY SMT
      <3> QED BY <2>1, <3>1
    <2>7. e = 4 => r = 16
      <3>1. \A x : x = 4 => 2^x = 16 BY SMT
      <3> QED BY <2>1, <3>1
    <2>8. e = 5 => r = 32
      <3>1. \A x : x = 5 => 2^x = 32 BY SMT
      <3> QED BY <2>1, <3>1
    <2>9. e = 6 => r = 64
      <3>1. \A x : x = 6 => 2^x = 64 BY SMT
      <3> QED BY <2>1, <3>1
    <2>10. e = 7 => r = 128
      <3>1. \A x : x = 7 => 2^x = 128 BY SMT
      <3> QED BY <2>1, <3>1
    <2>11. e > 3 <=> r > 8
      BY <2>2, <2>3, <2>4, <2>5, <2>6, <2>7, <2>8, <2>9, <2>10
    <2> QED BY <2>1, <2>11
  <1>2. CASE ~ \E e \in 0..7 : r = 2^e
    BY <1>2 DEF RateCode
  <1> QED BY <1>1, <1>2

\* The fields depend on the memory alone.
LEMMA FieldKept == ASSUME mem' = mem PROVE \A first, n : Field(first, n)' = Field(first, n)
  BY DEF Field, Digit

\* And so whether the coefficients are right depends on them and the memory.
LEMMA CalibKept == ASSUME mem' = mem, calib' = calib PROVE CalibRight' <=> CalibRight
  <1>1. \A first, n : Field(first, n)' = Field(first, n)
    BY FieldKept
  <1> QED BY <1>1, Zenon DEF CalibRight

\* The invariant depends on these variables, and on which of the steps below the
\* driver stands at.
LEMMA SetupKept ==
    ASSUME SetupInv, spl_pc' \in SplPcs,
           UNCHANGED <<spl_present, mem, asked, reg, shift, k, calib>>,
           spl_pc # "calib",
           \/ spl_pc' = spl_pc
           \/ spl_pc = "start" /\ spl_pc' = "check"
           \/ spl_pc = "check" /\ calib.c0 = -1 /\ spl_pc' = "absent"
           \/ spl_pc = "check" /\ calib.c0 # -1 /\ spl_pc' = "idle"
           \/ {spl_pc, spl_pc'} \subseteq {"idle"} \cup SplReading
    PROVE  SetupInv'
  <1> USE DEF SplPcs, SplReading
  <1>1. CalibRight' <=> CalibRight
    BY CalibKept
  <1>2. RatesAsked' <=> RatesAsked
    BY DEF RatesAsked
  <1>3. /\ Consistent("P")' <=> Consistent("P")
        /\ Consistent("T")' <=> Consistent("T")
    BY DEF Consistent
  <1>4. /\ spl_present' => mem' \in [0..17 -> Bytes]
        /\ RatesAsked'
        /\ k' \in [Channels -> Int]
        /\ reg' \in [Channels -> [rate : Nat, over : Nat]]
        /\ spl_pc' # "calib" => IF spl_present' THEN CalibRight' ELSE calib'.c0 = -1
    BY <1>1, <1>2 DEF SetupInv
  <1>5. /\ spl_pc' = "absent" => calib'.c0 = -1
        /\ spl_pc' \in {"idle"} \cup SplReading => calib'.c0 # -1
    BY DEF SetupInv
  <1>6. /\ spl_present' /\ spl_pc' \notin {"calib", "rateP"} => Consistent("P")'
        /\ spl_present' /\ spl_pc' \notin {"calib", "rateP", "rateT"} => Consistent("T")'
    BY <1>3 DEF SetupInv
  <1> QED BY <1>4, <1>5, <1>6 DEF SetupInv

\* Before Setup nothing is promised.
LEMMA SetupInit == Start_Init => SetupInv
  <1> SUFFICES ASSUME Start_Init PROVE SetupInv
    OBVIOUS
  <1>1. (spl_present => mem \in [0..17 -> Bytes]) /\ RatesAsked
    BY BoardsAssumption DEF Start_Init, RatesAsked
  <1> QED BY <1>1 DEF Start_Init, Spl_Init, SetupInv, SplPcs, SplReading, Channels

\* Setup decodes the calibration and leaves driver and chip with the same
\* rates; nothing disturbs them after it.
LEMMA SetupStep == SetupInv /\ [Start_Next]_sensorVars => SetupInv'
  <1> SUFFICES ASSUME SetupInv, [Start_Next]_sensorVars PROVE SetupInv'
    OBVIOUS
  <1> USE DEF SplPcs, SplReading
  <1>1. ASSUME UNCHANGED <<spl_chip, reg, shift, k, calib>>,
               spl_pc' = spl_pc \/ {spl_pc, spl_pc'} \subseteq {"idle"} \cup SplReading
        PROVE  SetupInv'
    <2>1. UNCHANGED <<spl_present, mem, asked, reg, shift, k, calib>>
      BY <1>1 DEF spl_chip
    <2>2. CASE spl_pc = "calib" /\ spl_pc' = spl_pc
      <3>1. RatesAsked' <=> RatesAsked
        BY <2>1 DEF RatesAsked
      <3> QED BY <2>1, <2>2, <3>1 DEF SetupInv
    <2>3. CASE spl_pc # "calib"
      <3>1. spl_pc' \in SplPcs
        BY <1>1 DEF SetupInv
      <3> QED BY <1>1, <2>1, <2>3, <3>1, SetupKept
    <2> QED BY <1>1, <2>2, <2>3
  <1>2. CASE Spl_Setup_Calib
    <2>1. calib' = spl1301_get_calib_param /\ spl_pc' = "rateP"
          /\ UNCHANGED <<spl_chip, reg, shift, k>>
      BY <1>2 DEF Spl_Setup_Calib
    <2>2. spl_present => CalibRight'
      <3>1. ASSUME spl_present
            PROVE /\ calib'.c0 = Field(0, 3) /\ calib'.c1 = Field(3, 3)
                  /\ calib'.c00 = Field(6, 5) /\ calib'.c10 = Field(11, 5)
                  /\ calib'.c01 = Field(16, 4) /\ calib'.c11 = Field(20, 4)
                  /\ calib'.c20 = Field(24, 4) /\ calib'.c21 = Field(28, 4)
                  /\ calib'.c30 = Field(32, 4)
        BY <2>1, <3>1, CalibDecoded DEF SetupInv
      <3>2. mem' = mem
        BY <2>1 DEF spl_chip
      <3>3. \A first, n : Field(first, n)' = Field(first, n)
        BY <3>2, FieldKept
      <3> QED BY <3>1, <3>3 DEF CalibRight
    <2>3. ~ spl_present => calib'.c0 = -1
      BY <2>1, AbsentReads
    <2> QED BY <1>2, <2>1, <2>2, <2>3
            DEF Spl_Setup_Calib, SetupInv, RatesAsked, Consistent, spl_chip
  <1>3. ASSUME NEW ch \in Channels, NEW here, NEW after, Setup_Rate(ch, here, after),
               \/ ch = "P" /\ here = "rateP" /\ after = "rateT"
               \/ ch = "T" /\ here = "rateT" /\ after = "start"
        PROVE  SetupInv'
    <2>1. UNCHANGED <<spl_chip, calib>> /\ spl_pc = here /\ spl_pc' = after
      BY <1>3 DEF Setup_Rate
    <2> DEFINE r == asked[ch].over
    <2>2. RateCode(r) \in 0..7 /\ (RateCode(r) > 3 <=> r > 8)
      BY RateCodes, RateCodeType DEF SetupInv, RatesAsked
    <2>3. RateCode(asked[ch].smpl) \in 0..7
      BY RateCodeType
    <2>4. \A i \in 1..8 : Scale[i] \in Int
      BY SMT DEF Scale
    <2>5. /\ k' = [k EXCEPT ![ch] = Scale[RateCode(r) + 1]]
          /\ spl_present => /\ reg' = [reg EXCEPT ![ch] = [rate |-> RateCode(asked[ch].smpl),
                                                          over |-> RateCode(r)]]
                            /\ shift' = IF r > 8 THEN shift \cup {ch} ELSE shift \ {ch}
          /\ ~ spl_present => UNCHANGED <<reg, shift>>
      BY <1>3 DEF Setup_Rate, spl1301_rateset, Shifts
    <2> HIDE DEF r
    <2>6. k' \in [Channels -> Int]
      BY <2>2, <2>4, <2>5 DEF SetupInv
    <2>7. reg' \in [Channels -> [rate : Nat, over : Nat]]
      BY <2>2, <2>3, <2>5 DEF SetupInv
    <2>8. spl_present => Consistent(ch)'
      BY <2>2, <2>5 DEF SetupInv, Consistent
    <2>9. ASSUME NEW x \in Channels, x # ch, Consistent(x), spl_present PROVE Consistent(x)'
      <3>1. k'[x] = k[x] /\ reg'[x] = reg[x]
        BY <2>5, <2>9 DEF SetupInv
      <3>2. x \in shift' <=> x \in shift
        BY <2>5, <2>9
      <3> QED BY <2>9, <3>1, <3>2 DEF Consistent
    <2>10. CalibRight => CalibRight'
      BY <2>1, CalibKept DEF spl_chip
    <2>11. UNCHANGED <<spl_present, mem, asked>>
      BY <2>1 DEF spl_chip
    <2>12. "P" \in Channels /\ "T" \in Channels
      BY DEF Channels
    <2> QED BY <1>3, <2>1, <2>6, <2>7, <2>8, <2>9, <2>10, <2>11, <2>12
            DEF SetupInv, RatesAsked
  <1>4. CASE Setup_Start
    <2>1. UNCHANGED <<spl_present, mem, asked, reg, shift, k, calib>>
      BY <1>4 DEF Setup_Start, spl_chip
    <2>2. spl_pc = "start" /\ spl_pc' = "check"
      BY <1>4 DEF Setup_Start
    <2> QED BY <2>1, <2>2, SetupKept
  <1>5. CASE Spl_Setup_Check
    <2>1. UNCHANGED <<spl_present, mem, asked, reg, shift, k, calib>>
      BY <1>5 DEF Spl_Setup_Check, spl_chip
    <2>2. spl_pc = "check" /\ spl_pc' = IF calib.c0 = -1 THEN "absent" ELSE "idle"
      BY <1>5 DEF Spl_Setup_Check
    <2> QED BY <2>1, <2>2, SetupKept
  <1>6. CASE \E ch \in Channels : spl1301_myDigitalRead(ch)
    BY <1>1, <1>6 DEF spl1301_myDigitalRead
  <1>7. CASE Spl_Read
    BY <1>1, <1>7 DEF Spl_Read, Read_Byte, Raw_Temp, Raw_Pressure
  <1>8. CASE Chip_Sample
    BY <1>1, <1>8 DEF Chip_Sample
  <1>9. CASE UNCHANGED splVars
    BY <1>1, <1>9 DEF splVars
  <1>10. "P" \in Channels /\ "T" \in Channels
    BY DEF Channels
  <1> QED BY <1>2, <1>3, <1>4, <1>5, <1>6, <1>7, <1>8, <1>9, <1>10, SplStep DEF Spl_Setup

(***************************************************************************)
(* The nodes the Setups link, and which driver the depth thread settles on. *)
(***************************************************************************)

\* A node of the list, and where a thread stands.
Node == [base : Nat, max : Int, fd : Int,
         read : Drivers \cup {"none", "dummy"}, next : Drivers \cup {Null}]
Pcs == {"open", "probe", "scan", "link", "register", "done"}

\* The types of what the Setups of the threads hold.
NodeTypes ==
    /\ pc \in [Threads -> Pcs]
    /\ driver \in [Threads -> Drivers]
    /\ driver["lowSpeed"] = "ads1118" /\ driver["depth"] \in DepthDrivers
    /\ own_fd \in [Drivers -> Int]
    /\ heap \in [Drivers -> Node]
    /\ head \in Drivers \cup {Null}
    /\ pin \in [Threads -> Int]

\* The SPL1301 has been set up.
SplReady == spl_pc \in {"idle"} \cup SplReading

\* The node of a thread that has made it has the range of its driver.
Ranged(d) == /\ heap[d].base = BaseOf(d)
             /\ heap[d].max = BaseOf(d) + NumPins(d) - 1

\* The node of a driver whose Setup has returned.
Complete(d) == heap[d].fd = own_fd[d] /\ heap[d].read = d /\ Ranged(d)

\* The thread has filled in its node.
Making(t) == pc[t] \in {"link", "register"}

\* The node of a thread whose Setup has returned is complete.
NodeInv ==
    /\ \A t \in Threads : Making(t) => Ranged(driver[t])
    /\ pc["lowSpeed"] = "done" => Complete("ads1118")
    /\ pc["depth"] = "done" /\ name = driver["depth"] => Complete(driver["depth"])

\* What the depth thread has learnt about the sensors when it is at a point.
DepthInv ==
    /\ "no plugged a depthSensor" \notin DepthDrivers
    /\ pc["depth"] \in {"probe", "scan", "link", "register"} =>
         "i2c" \in buses /\ own_fd[driver["depth"]] \in Fds
    /\ pc["depth"] \in {"scan", "link", "register"} =>
         IF driver["depth"] = "ms5837" THEN ms_pc = "ready" ELSE SplReady
    /\ pc["depth"] = "done" =>
         \/ /\ name = "ms5837" /\ driver["depth"] = name
            /\ "i2c" \in buses /\ ms_pc = "ready"
         \/ /\ name = "spl1301" /\ driver["depth"] = name
            /\ "i2c" \in buses /\ SplReady
         \/ /\ name = "no plugged a depthSensor" /\ driver["depth"] = "spl1301"
            /\ 0 \notin Fds => "i2c" \notin buses \/ spl_pc = "absent"
    /\ pc["depth"] # "done" => name = "unset"
    /\ driver["depth"] = "spl1301" /\ 0 \notin Fds => "i2c" \notin buses \/ ms_pc = "absent"

\* What a step of the program does to the MS5837 and its driver.
LEMMA MsStep ==
    ASSUME [Start_Next]_sensorVars
    PROVE  \/ Ms_Setup
           \/ \E ch \in {PRESSURE_SENSOR, TEMPERATURE_SENSOR} : ms5837_myDigitalRead(ch)
           \/ UNCHANGED msVars
  BY DEF Start_Next, ThreadStep, Depth_Setup, Reading, analogRead, Stay, sensorVars

\* A step either is one of a thread on the nodes, or leaves them alone.
LEMMA NodeSteps ==
    ASSUME [Start_Next]_sensorVars
    PROVE  \/ \E t \in Threads : NodeStep(t) /\ UNCHANGED <<msVars, splVars>>
           \/ UNCHANGED nodeVars
  BY DEF Start_Next, ThreadStep, Depth_Setup, Reading, Stay, sensorVars

\* A verdict on a chip is for ever, whoever reads it.
LEMMA Verdicts ==
    ASSUME [Start_Next]_sensorVars
    PROVE  /\ SplReady => SplReady'
           /\ spl_pc = "absent" => spl_pc' = "absent"
           /\ ms_pc \in {"ready", "absent"} => ms_pc' = ms_pc
  <1>1. (SplReady => SplReady') /\ (spl_pc = "absent" => spl_pc' = "absent")
    BY SplStep DEF SplReady, SplReading, Spl_Setup, Spl_Setup_Calib, Setup_Rate, Setup_Start,
       Spl_Setup_Check, spl1301_myDigitalRead, Spl_Read, Read_Byte, Raw_Temp, Raw_Pressure,
       Chip_Sample, splVars
  <1>2. ms_pc \in {"ready", "absent"} => ms_pc' = ms_pc
    BY MsStep DEF Ms_Setup, Ms_Setup_Calib, Crc_Start, Crc_Byte, Ms_Setup_Check,
       ms5837_myDigitalRead, msVars
  <1> QED BY <1>1, <1>2

\* Before the Setups there are no nodes.
LEMMA NodeInit == Start_Init => NodeTypes /\ NodeInv /\ DepthInv
  <1> SUFFICES ASSUME Start_Init PROVE NodeTypes /\ NodeInv /\ DepthInv
    OBVIOUS
  <1>1. NodeTypes
    BY DEF Start_Init, NodeTypes, Pcs, Node, NoNode, Threads, Drivers, DepthDrivers
  <1> QED BY <1>1 DEF Start_Init, NodeInv, DepthInv, Making, Threads, DepthDrivers

\* Every step keeps the types of the nodes.
LEMMA NodeTypesStep == NodeTypes /\ [Start_Next]_sensorVars => NodeTypes'
  <1> SUFFICES ASSUME NodeTypes, [Start_Next]_sensorVars PROVE NodeTypes'
    OBVIOUS
  <1>a. "lowSpeed" \in Threads /\ "depth" \in Threads
    BY DEF Threads
  <1>b. \A t \in Threads : driver[t] \in Drivers
    BY DEF NodeTypes
  <1>c. DepthDrivers \subseteq Drivers /\ "spl1301" \in DepthDrivers /\ "ads1118" \in Drivers
    BY DEF Drivers, DepthDrivers
  <1>d. \A d \in Drivers : /\ BaseOf(d) \in Nat
                           /\ BaseOf(d) + NumPins(d) - 1 \in Int
    BY BaseAssumption DEF BaseOf, NumPins
  <1>1. CASE UNCHANGED nodeVars
    BY <1>1 DEF nodeVars, NodeTypes
  <1>2. ASSUME NEW t \in Threads, NodeStep(t) PROVE NodeTypes'
    <2> USE DEF NodeTypes, Pcs, Goto
    <2>0. Next_Driver => pc' \in [Threads -> Pcs] /\ driver' \in [Threads -> Drivers]
             /\ driver'["lowSpeed"] = "ads1118" /\ driver'["depth"] \in DepthDrivers
      <3>1. ASSUME driver' = [driver EXCEPT !["depth"] = "spl1301"], Goto("depth", "open")
            PROVE  /\ pc' \in [Threads -> Pcs] /\ driver' \in [Threads -> Drivers]
                   /\ driver'["lowSpeed"] = "ads1118" /\ driver'["depth"] \in DepthDrivers
        BY <1>a, <1>c, <3>1
      <3>2. ASSUME driver' = driver, Goto("depth", "done")
            PROVE  /\ pc' \in [Threads -> Pcs] /\ driver' \in [Threads -> Drivers]
                   /\ driver'["lowSpeed"] = "ads1118" /\ driver'["depth"] \in DepthDrivers
        BY <1>a, <3>2
      <3> QED BY <3>1, <3>2 DEF Next_Driver
    <2>1. CASE Open(t)
      BY <1>b, <2>1, FdAssumption DEF Open
    <2>2. CASE Open_Exit(t) \/ NewNode_Overlap(t)
      BY <2>2 DEF Open_Exit, NewNode_Overlap, Exit
    <2>3. CASE Ads_Open_Failed
      BY <1>a, <1>c, <2>3 DEF Ads_Open_Failed
    <2>4. CASE Ads_Probe
      BY <1>a, <2>4, BaseAssumption DEF Ads_Probe
    <2>5. CASE Depth_Open_Failed
      <3>1. UNCHANGED <<heap, head, pin>> /\ Next_Driver
              /\ own_fd' = [own_fd EXCEPT ![driver["depth"]] = -1]
        BY <2>5 DEF Depth_Open_Failed
      <3>2. own_fd' \in [Drivers -> Int]
        BY <1>c, <3>1
      <3> QED BY <2>0, <3>1, <3>2
    <2>6. CASE Depth_Probe
      BY <1>a, <2>0, <2>6, BaseAssumption DEF Depth_Probe
    <2>7. CASE NewNode_Scan(t)
      BY <2>7 DEF NewNode_Scan
    <2>8. CASE NewNode_Next(t)
      <3>1. heap' \in [Drivers -> Node]
        <4> DEFINE n == [base |-> BaseOf(driver[t]),
                         max |-> BaseOf(driver[t]) + NumPins(driver[t]) - 1,
                         fd |-> 0, read |-> "dummy", next |-> head]
        <4>1. n \in Node
          BY <1>b, <1>d DEF Node
        <4>2. heap' = [heap EXCEPT ![driver[t]] = n]
          BY <2>8 DEF NewNode_Next
        <4> HIDE DEF n
        <4> QED BY <4>1, <4>2
      <3> QED BY <2>8, <3>1 DEF NewNode_Next
    <2>9. CASE NewNode_Link(t)
      BY <1>b, <2>9 DEF NewNode_Link
    <2>10. CASE Register(t)
      <3>1. heap' \in [Drivers -> Node]
        BY <1>b, <2>10 DEF Register, Node
      <3>2. pc' \in [Threads -> Pcs] /\ driver' \in [Threads -> Drivers]
             /\ driver'["lowSpeed"] = "ads1118" /\ driver'["depth"] \in DepthDrivers
        BY <1>a, <2>0, <2>10 DEF Register
      <3> QED BY <2>10, <3>1, <3>2 DEF Register
    <2> QED BY <1>2, <2>1, <2>2, <2>3, <2>4, <2>5, <2>6, <2>7, <2>8, <2>9, <2>10
            DEF NodeStep
  <1> QED BY <1>1, <1>2, NodeSteps

\* A thread that makes its node, or has made it, keeps it: the other thread
\* changes no node but its own.
LEMMA NodeInvStep == NodeTypes /\ NodeInv /\ DepthInv /\ [Start_Next]_sensorVars => NodeInv'
  <1> SUFFICES ASSUME NodeTypes, NodeInv, DepthInv, [Start_Next]_sensorVars PROVE NodeInv'
    OBVIOUS
  <1>a. \A t \in Threads : t = "lowSpeed" \/ t = "depth"
    BY DEF Threads
  <1>b. "lowSpeed" \in Threads /\ "depth" \in Threads
    BY DEF Threads
  <1>c. /\ driver["lowSpeed"] = "ads1118" /\ driver["depth"] \in DepthDrivers
        /\ driver["depth"] # "ads1118" /\ \A t \in Threads : driver[t] \in Drivers
        /\ heap \in [Drivers -> Node] /\ pc \in [Threads -> Pcs]
        /\ driver \in [Threads -> Drivers] /\ own_fd \in [Drivers -> Int]
    BY DEF NodeTypes, DepthDrivers
  <1>1. CASE UNCHANGED nodeVars
    BY <1>1 DEF nodeVars, NodeInv, Making, Ranged, Complete
  <1>2. ASSUME NEW t \in Threads, NodeStep(t) PROVE NodeInv'
    <2> USE DEF NodeInv, Making
    <2>0. Next_Driver => /\ pc'["depth"] \in {"open", "done"} /\ pc'["lowSpeed"] = pc["lowSpeed"]
                         /\ driver'["lowSpeed"] = "ads1118"
                         /\ driver'["depth"] = "spl1301"
                         /\ pc'["depth"] = "done" => name' # driver'["depth"]
      BY <1>b, <1>c DEF Next_Driver, Goto, DepthInv, DepthDrivers
    <2>2. CASE Open_Exit(t) \/ NewNode_Overlap(t)
      BY <2>2 DEF Open_Exit, NewNode_Overlap, Exit, Ranged, Complete
    <2>1. CASE Open(t)
      <3>1. UNCHANGED <<driver, heap, name>> /\ pc' = [pc EXCEPT ![t] = "probe"]
        BY <2>1 DEF Open, Goto
      <3>2. \A d \in Drivers : d # driver[t] => own_fd'[d] = own_fd[d]
        BY <1>c, <2>1 DEF Open
      <3>3. \A d \in Drivers : /\ Ranged(d) <=> Ranged(d)'
                               /\ d # driver[t] /\ Complete(d) => Complete(d)'
        BY <3>1, <3>2 DEF Ranged, Complete
      <3> QED BY <1>a, <1>b, <1>c, <3>1, <3>3
    <2>3. CASE Ads_Open_Failed
      <3>1. UNCHANGED <<driver, heap, name>> /\ pc' = [pc EXCEPT !["lowSpeed"] = "probe"]
        BY <2>3 DEF Ads_Open_Failed, Goto
      <3>2. \A d \in Drivers : d # "ads1118" => own_fd'[d] = own_fd[d]
        BY <1>c, <2>3 DEF Ads_Open_Failed
      <3>3. \A d \in Drivers : /\ Ranged(d) <=> Ranged(d)'
                               /\ d # "ads1118" /\ Complete(d) => Complete(d)'
        BY <3>1, <3>2 DEF Ranged, Complete
      <3> QED BY <1>a, <1>b, <1>c, <3>1, <3>3
    <2>4. CASE Ads_Probe
      BY <1>a, <1>b, <1>c, <2>4 DEF Ads_Probe, Goto, Ranged, Complete
    <2>5. CASE Depth_Open_Failed
      <3>1. UNCHANGED heap /\ own_fd' = [own_fd EXCEPT ![driver["depth"]] = -1]
        BY <2>5 DEF Depth_Open_Failed
      <3>2. Ranged("ads1118") <=> Ranged("ads1118")'
        BY <3>1 DEF Ranged
      <3>3. Complete("ads1118") => Complete("ads1118")'
        BY <1>c, <3>1, <3>2 DEF Complete
      <3> QED BY <1>a, <1>b, <1>c, <2>0, <2>5, <3>2, <3>3 DEF Depth_Open_Failed
    <2>6. CASE Depth_Probe
      <3>1. UNCHANGED <<heap, own_fd>>
        BY <2>6 DEF Depth_Probe
      <3>2. \A d : (Ranged(d) <=> Ranged(d)') /\ (Complete(d) <=> Complete(d)')
        BY <3>1 DEF Ranged, Complete
      <3> QED BY <1>a, <1>b, <1>c, <2>0, <2>6, <3>2 DEF Depth_Probe, Goto
    <2>7. CASE NewNode_Scan(t)
      BY <2>7 DEF NewNode_Scan, Ranged, Complete
    <2>8. CASE NewNode_Next(t)
      <3>1. UNCHANGED <<own_fd, driver, name>> /\ pc' = [pc EXCEPT ![t] = "link"]
        BY <2>8 DEF NewNode_Next, Goto
      <3>2. \A d \in Drivers : d # driver[t] => heap'[d] = heap[d]
        BY <1>c, <2>8 DEF NewNode_Next
      <3>3. Ranged(driver[t])'
        BY <1>c, <2>8 DEF NewNode_Next, Ranged
      <3>4. \A d \in Drivers : d # driver[t] =>
               (Ranged(d) => Ranged(d)') /\ (Complete(d) => Complete(d)')
        BY <3>1, <3>2 DEF Ranged, Complete
      <3> QED BY <1>a, <1>b, <1>c, <3>1, <3>3, <3>4
    <2>9. CASE NewNode_Link(t)
      <3>1. UNCHANGED <<own_fd, heap, driver, name>> /\ pc' = [pc EXCEPT ![t] = "register"]
        BY <2>9 DEF NewNode_Link, Goto
      <3>2. \A d : (Ranged(d) <=> Ranged(d)') /\ (Complete(d) <=> Complete(d)')
        BY <3>1 DEF Ranged, Complete
      <3>3. pc[t] = "link"
        BY <2>9 DEF NewNode_Link, At
      <3> QED BY <1>a, <1>b, <1>c, <3>1, <3>2, <3>3
    <2>10. CASE Register(t)
      <3>1. UNCHANGED own_fd /\ pc[t] = "register" /\ Ranged(driver[t])
        BY <2>10 DEF Register, At
      <3>2. heap' = [heap EXCEPT ![driver[t]].fd = own_fd[driver[t]],
                                 ![driver[t]].read = driver[t]]
        BY <2>10 DEF Register
      <3>3. \A d \in Drivers : d # driver[t] =>
               (Ranged(d) => Ranged(d)') /\ (Complete(d) => Complete(d)')
        BY <1>c, <3>1, <3>2 DEF Ranged, Complete
      <3>4. \A d \in Drivers : d = driver[t] => Complete(d)' /\ Ranged(d)'
        <4>1. heap[driver[t]] \in Node
          BY <1>c
        <4>2. heap'[driver[t]] = [heap[driver[t]] EXCEPT !.fd = own_fd[driver[t]],
                                                        !.read = driver[t]]
          BY <1>c, <3>2
        <4>3. /\ heap'[driver[t]].fd = own_fd[driver[t]] /\ heap'[driver[t]].read = driver[t]
              /\ heap'[driver[t]].base = heap[driver[t]].base
              /\ heap'[driver[t]].max = heap[driver[t]].max
          BY <4>1, <4>2 DEF Node
        <4> QED BY <3>1, <4>3 DEF Complete, Ranged
      <3>5. CASE t = "lowSpeed"
        <4>1. UNCHANGED <<driver, name>> /\ pc' = [pc EXCEPT !["lowSpeed"] = "done"]
          BY <2>10, <3>5 DEF Register, Goto
        <4> QED BY <1>a, <1>b, <1>c, <3>3, <3>4, <3>5, <4>1
      <3>6. CASE t = "depth"
        <4>1. \/ UNCHANGED driver /\ pc' = [pc EXCEPT !["depth"] = "done"]
              \/ Next_Driver
          BY <2>10, <3>6 DEF Register, Goto
        <4>2. driver["lowSpeed"] # driver[t] /\ "ads1118" \in Drivers
          BY <1>b, <1>c, <3>6
        <4> QED BY <1>a, <1>b, <1>c, <2>0, <3>3, <3>4, <3>6, <4>1, <4>2
      <3> QED BY <1>a, <3>5, <3>6
    <2> QED BY <1>2, <2>1, <2>2, <2>3, <2>4, <2>5, <2>6, <2>7, <2>8, <2>9, <2>10
            DEF NodeStep
  <1> QED BY <1>1, <1>2, NodeSteps

\* A descriptor that is not positive is 0.
LEMMA Positive == \A f \in Nat : f > 0 \/ f = 0
  OBVIOUS

\* What the depth thread has learnt stays true.
LEMMA DepthInvStep == NodeTypes /\ DepthInv /\ [Start_Next]_sensorVars => DepthInv'
  <1> SUFFICES ASSUME NodeTypes, DepthInv, [Start_Next]_sensorVars PROVE DepthInv'
    OBVIOUS
  <1>b. "lowSpeed" \in Threads /\ "depth" \in Threads
    BY DEF Threads
  <1>c. /\ driver["depth"] \in {"ms5837", "spl1301"} /\ driver["depth"] \in Drivers
        /\ driver["lowSpeed"] = "ads1118"
        /\ pc \in [Threads -> Pcs]
        /\ driver \in [Threads -> Drivers] /\ own_fd \in [Drivers -> Int]
    BY <1>b DEF NodeTypes, DepthDrivers, Drivers
  <1>1. CASE UNCHANGED nodeVars
    <2>1. UNCHANGED <<buses, pc, driver, own_fd, name>>
      BY <1>1 DEF nodeVars, world
    <2> QED BY <2>1, Verdicts DEF DepthInv
  <1>2. ASSUME NEW t \in Threads, NodeStep(t), UNCHANGED <<msVars, splVars>> PROVE DepthInv'
    <2>a. UNCHANGED <<spl_pc, ms_pc>> /\ (SplReady' <=> SplReady)
      BY <1>2 DEF msVars, splVars, SplReady
    <2> USE DEF DepthInv
    <2>b. ASSUME t = "lowSpeed", UNCHANGED <<buses, driver, name>>,
                 pc'["depth"] = pc["depth"],
                 own_fd'[driver["depth"]] = own_fd[driver["depth"]]
          PROVE  DepthInv'
      BY <2>a, <2>b
    <2>c. \A x : pc' = [pc EXCEPT !["lowSpeed"] = x] => pc'["depth"] = pc["depth"]
      BY <1>b, <1>c
    <2>d. ASSUME NEW p, pc' = [pc EXCEPT !["depth"] = p],
                 \/ pc["depth"] = "scan" /\ p = "link"
                 \/ pc["depth"] = "link" /\ p = "register",
                 UNCHANGED <<buses, driver, name, own_fd>>
          PROVE  DepthInv'
      BY <1>b, <1>c, <2>a, <2>d
    <2>e. t = "lowSpeed" \/ t = "depth"
      BY DEF Threads
    <2>f. BusOf("ms5837") = "i2c" /\ BusOf("spl1301") = "i2c" /\ "ads1118" # driver["depth"]
      BY <1>c DEF BusOf
    <2>1. CASE Open(t)
      <3>1. /\ UNCHANGED <<buses, driver, name>> /\ pc[t] = "open"
            /\ pc' = [pc EXCEPT ![t] = "probe"] /\ BusOf(driver[t]) \in buses
        BY <2>1 DEF Open, Goto, At, world
      <3>2. PICK f \in Fds : own_fd' = [own_fd EXCEPT ![driver[t]] = f]
        BY <2>1 DEF Open
      <3>3. CASE t = "lowSpeed"
        BY <1>c, <2>b, <2>c, <2>f, <3>1, <3>2, <3>3
      <3>4. CASE t = "depth"
        <4>1. pc'["depth"] = "probe" /\ own_fd'[driver["depth"]] = f /\ "i2c" \in buses
          BY <1>b, <1>c, <2>f, <3>1, <3>2, <3>4
        <4> QED BY <2>a, <3>1, <3>4, <4>1
      <3> QED BY <2>e, <3>3, <3>4
    <2>2. CASE Open_Exit(t) \/ NewNode_Overlap(t)
      BY <2>a, <2>2 DEF Open_Exit, NewNode_Overlap, Exit, world
    <2>3. CASE t = "lowSpeed" /\ Ads_Open_Failed
      <3>1. own_fd'[driver["depth"]] = own_fd[driver["depth"]]
        BY <1>c, <2>3, <2>f DEF Ads_Open_Failed
      <3> QED BY <2>b, <2>c, <2>3, <3>1 DEF Ads_Open_Failed, Goto, world
    <2>4. CASE t = "lowSpeed" /\ Ads_Probe
      BY <2>b, <2>c, <2>4 DEF Ads_Probe, Goto, world
    <2>5. CASE Depth_Open_Failed
      BY <1>b, <1>c, <2>a, <2>5 DEF Depth_Open_Failed, Next_Driver, Goto, world, At
    <2>6. CASE Depth_Probe
      <3>1. UNCHANGED <<buses, own_fd>> /\ pc["depth"] = "probe"
        BY <2>6 DEF Depth_Probe, world, At
      <3>2. CASE /\ Answers(driver["depth"]) /\ UNCHANGED <<driver, name>>
                 /\ pc' = [pc EXCEPT !["depth"] = "scan"]
        BY <1>b, <1>c, <2>a, <3>1, <3>2 DEF Answers, SplReady
      <3>3. CASE Refused(driver["depth"]) /\ Next_Driver
        BY <1>b, <1>c, <2>a, <3>1, <3>3 DEF Refused, Next_Driver, Goto
      <3> QED BY <2>6, <3>2, <3>3 DEF Depth_Probe, Goto
    <2>7. CASE NewNode_Scan(t)
      BY <2>a, <2>7 DEF NewNode_Scan, world
    <2>8. CASE NewNode_Next(t)
      BY <2>b, <2>c, <2>d, <2>e, <2>8 DEF NewNode_Next, Goto, world, At
    <2>9. CASE NewNode_Link(t)
      BY <2>b, <2>c, <2>d, <2>e, <2>9 DEF NewNode_Link, Goto, world, At
    <2>10. CASE Register(t)
      <3>1. UNCHANGED <<buses, own_fd>> /\ pc[t] = "register"
        BY <2>10 DEF Register, world, At
      <3>2. CASE t = "lowSpeed"
        BY <2>b, <2>c, <2>10, <3>1, <3>2 DEF Register, Goto
      <3>3. CASE t = "depth"
        <4>1. CASE own_fd[driver["depth"]] > 0
          <5>1. /\ UNCHANGED driver /\ name' = driver["depth"]
                /\ pc' = [pc EXCEPT !["depth"] = "done"]
            BY <2>10, <3>3, <4>1, Zenon DEF Register, Goto
          <5>2. pc'["depth"] = "done"
            BY <1>b, <1>c, <5>1
          <5> QED BY <1>c, <2>a, <3>1, <3>3, <5>1, <5>2
        <4>2. CASE ~ own_fd[driver["depth"]] > 0
          <5>1. 0 \in Fds
            <6>1. own_fd[driver["depth"]] \in Fds
              BY <3>1, <3>3
            <6>2. own_fd[driver["depth"]] \in Nat
              BY <6>1, FdAssumption
            <6> QED BY <4>2, <6>1, <6>2, Positive
          <5>2. Next_Driver
            BY <2>10, <3>3, <4>2 DEF Register
          <5> QED BY <1>b, <1>c, <2>a, <3>1, <3>3, <5>1, <5>2 DEF Next_Driver, Goto
        <4> QED BY <4>1, <4>2
      <3> QED BY <2>e, <3>2, <3>3
    <2> QED BY <1>2, <2>1, <2>2, <2>3, <2>4, <2>5, <2>6, <2>7, <2>8, <2>9, <2>10
            DEF NodeStep
  <1> QED BY <1>1, <1>2, NodeSteps

\* A pin that leads to the node of a Setup that has returned is read by the
\* right driver, and what the SPL1301's driver computes with is what its chip
\* holds and runs with (wiringPiNewNode, ads1118Setup, ms5837Setup,
\* spl1301Setup).
THEOREM CompleteNodes == Start_Spec => []NodesComplete
  <1>1. NodeTypes /\ NodeInv /\ DepthInv /\ SetupInv => NodesComplete
    <2> SUFFICES ASSUME NodeTypes, NodeInv, DepthInv, SetupInv, NEW t \in Threads,
                        pc[t] = "done", t = "depth" => name = driver[t]
                 PROVE  /\ name = "spl1301" => CalibRight /\ ConfigConsistent
                        /\ Complete(driver[t])
                        /\ heap[driver[t]].base .. heap[driver[t]].max = Pins(driver[t])
      BY DEF NodesComplete, Complete
    <2>1. Complete(driver[t])
      BY DEF NodeInv, NodeTypes, Threads
    <2>2. name = "spl1301" => SplReady
      BY DEF DepthInv
    <2>3. SplReady => CalibRight /\ Consistent("P") /\ Consistent("T")
      BY DEF SplReady, SetupInv, SplReading
    <2>4. Consistent("P") /\ Consistent("T") => ConfigConsistent
      BY DEF ConfigConsistent, Consistent, Channels
    <2> QED BY <2>1, <2>2, <2>3, <2>4 DEF Complete, Ranged, Pins
  <1> QED BY <1>1, NodeInit, NodeTypesStep, NodeInvStep, DepthInvStep, SetupInit, SetupStep, PTL
          DEF Start_Spec

(***************************************************************************)
(* The list of the nodes, which no lock protects, and the walk along it.   *)
(***************************************************************************)

\* What holds head and, with a node, the node behind it.
Closed(L) == head \in L /\ \A e \in L \ {Null} : heap[e].next \in L

\* The nodes in the list: those no such set can do without.
Listed == {d \in Drivers : \A L \in SUBSET (Drivers \cup {Null}) : Closed(L) => d \in L}

\* The node has the pin.
Has(d, p) == p \in heap[d].base .. heap[d].max

\* wiringPiFindNode ends in every state, and what it returns is a node of the
\* list that has the pin, or nothing if no node of the list has it (wiringPi.c,
\* the while of wiringPiFindNode).
WalkRight ==
    \A p : LET n == wiringPiFindNode(p)
           IN  IF n = Null THEN \A d \in Listed : ~ Has(d, p)
               ELSE n \in Listed /\ Has(n, p)

\* No node is behind itself: the nodes can be numbered so that what follows a
\* node has a lower number.
Numbers(r) == /\ r \in [Drivers \cup {Null} -> Nat]
              /\ \A d \in Drivers : r[heap[d].next] < r[d]

\* The node of the driver is not in the list yet, nor has it been.
Unlinked(d) ==
    IF d = "ads1118" THEN pc["lowSpeed"] \in {"open", "probe", "scan", "link"}
    ELSE \/ driver["depth"] = d /\ pc["depth"] \in {"open", "probe", "scan", "link"}
         \/ driver["depth"] = "ms5837" /\ d = "spl1301"

\* Two threads that link at the same time may lose a node of the list, but they
\* make no circle: nothing leads to a node before it is linked.
ListInv ==
    /\ \E r : Numbers(r)
    /\ \A d \in Drivers : Unlinked(d) => head # d /\ \A e \in Drivers : heap[e].next # d

\* One step of the walk for a pin, and where it stays.
Stops(p, d) == d = Null \/ Has(d, p)
Onward(p, d) == IF Stops(p, d) THEN d ELSE heap[d].next

\* Three steps are enough for the three nodes there may be.
LEMMA WalkStops ==
    ASSUME NodeTypes, ListInv, NEW p, NEW d \in Drivers \cup {Null}
    PROVE  Stops(p, Onward(p, Onward(p, Onward(p, d))))
  <1> DEFINE a == Onward(p, d)
             b == Onward(p, a)
             e == Onward(p, b)
  <1>1. PICK r : Numbers(r)
    BY DEF ListInv
  <1>2. ASSUME NEW x \in Drivers \cup {Null}
        PROVE  /\ Onward(p, x) \in Drivers \cup {Null}
               /\ ~ Stops(p, x) => x \in Drivers /\ r[Onward(p, x)] < r[x]
               /\ Stops(p, x) => Onward(p, x) = x
    <2>1. CASE Stops(p, x)
      BY <2>1 DEF Onward
    <2>2. CASE ~ Stops(p, x)
      <3>1. x \in Drivers
        BY <2>2 DEF Stops
      <3>2. Onward(p, x) = heap[x].next /\ heap[x].next \in Drivers \cup {Null}
        BY <2>2, <3>1 DEF Onward, NodeTypes, Node
      <3> QED BY <1>1, <2>2, <3>1, <3>2 DEF Numbers
    <2> QED BY <2>1, <2>2
  <1>3. /\ a \in Drivers \cup {Null} /\ b \in Drivers \cup {Null} /\ e \in Drivers \cup {Null}
    BY <1>2
  <1> SUFFICES ASSUME ~ Stops(p, e) PROVE FALSE
    OBVIOUS
  <1>4. ~ Stops(p, b) /\ ~ Stops(p, a) /\ ~ Stops(p, d)
    BY <1>2, <1>3
  <1>5. /\ d \in Drivers /\ a \in Drivers /\ b \in Drivers /\ e \in Drivers
        /\ r[a] < r[d] /\ r[b] < r[a] /\ r[e] < r[b]
    BY <1>2, <1>3, <1>4
  <1>6. r[d] \in Nat /\ r[a] \in Nat /\ r[b] \in Nat /\ r[e] \in Nat
    BY <1>1, <1>5 DEF Numbers
  <1> HIDE DEF a, b, e
  <1>7. d # a /\ d # b /\ d # e /\ a # b /\ a # e /\ b # e
    BY <1>5, <1>6
  <1> QED BY <1>5, <1>7 DEF Drivers, DepthDrivers

\* So the recursion has a value, and it is where those three steps end.
LEMMA WalkEnds ==
    ASSUME NodeTypes, ListInv, NEW p
    PROVE  wiringPiFindNode(p) = Onward(p, Onward(p, Onward(p, head)))
  <1> DEFINE D == Drivers \cup {Null}
             Walks(f) == f = [d \in D |-> IF d = Null \/ p \in heap[d].base .. heap[d].max
                                          THEN d ELSE f[heap[d].next]]
             g == [d \in D |-> Onward(p, Onward(p, Onward(p, d)))]
  <1>1. \A d \in D : Onward(p, d) \in D /\ (Stops(p, d) => Onward(p, d) = d)
    BY DEF Onward, Stops, NodeTypes, Node
  <1>2. Walks(g)
    <2> SUFFICES ASSUME NEW d \in D
                 PROVE  g[d] = IF Stops(p, d) THEN d ELSE g[heap[d].next]
      BY DEF Stops, Has
    <2>1. CASE Stops(p, d)
      BY <1>1, <2>1
    <2>2. CASE ~ Stops(p, d)
      <3>1. Onward(p, d) = heap[d].next /\ heap[d].next \in D
        BY <1>1, <2>2 DEF Onward
      <3>2. Stops(p, Onward(p, Onward(p, Onward(p, d))))
        BY WalkStops
      <3>3. Onward(p, Onward(p, Onward(p, d))) \in D
        BY <1>1
      <3> QED BY <1>1, <2>2, <3>1, <3>2, <3>3
    <2> QED BY <2>1, <2>2
  <1> DEFINE w == CHOOSE f : Walks(f)
  <1>3. Walks(w)
    BY <1>2
  <1>4. wiringPiFindNode(p) = w[head]
    BY DEF wiringPiFindNode
  <1> HIDE DEF w
  <1>5. \A d \in D : w[d] = IF Stops(p, d) THEN d ELSE w[heap[d].next]
    BY <1>3 DEF Stops, Has
  <1>6. \A d \in D : w[Onward(p, d)] = w[d]
    BY <1>1, <1>5 DEF Onward
  <1>7. head \in D
    BY DEF NodeTypes
  <1>8. Onward(p, Onward(p, Onward(p, head))) \in D
    BY <1>1, <1>7
  <1>9. w[Onward(p, Onward(p, Onward(p, head)))] = w[head]
    BY <1>1, <1>6, <1>7
  <1>10. Stops(p, Onward(p, Onward(p, Onward(p, head))))
    BY <1>7, WalkStops
  <1> QED BY <1>4, <1>5, <1>8, <1>9, <1>10

\* The nodes the walk passes are in the list.
LEMMA ListedKept ==
    ASSUME NodeTypes, NEW p, NEW L \in SUBSET (Drivers \cup {Null}), Closed(L), NEW d \in L
    PROVE  Onward(p, d) \in L
  BY DEF Onward, Stops, Closed

\* What the walk returns.
LEMMA WalkReturns == NodeTypes /\ ListInv => WalkRight
  <1> SUFFICES ASSUME NodeTypes, ListInv, NEW p
               PROVE  LET n == wiringPiFindNode(p)
                      IN  IF n = Null THEN \A d \in Listed : ~ Has(d, p)
                          ELSE n \in Listed /\ Has(n, p)
    BY DEF WalkRight
  <1> DEFINE n == wiringPiFindNode(p)
             a == Onward(p, head)
             b == Onward(p, a)
  <1>1. n = Onward(p, b)
    BY WalkEnds
  <1>2. head \in Drivers \cup {Null}
    BY DEF NodeTypes
  <1>3. Stops(p, n)
    BY <1>1, <1>2, WalkStops
  <1>4. \A L \in SUBSET (Drivers \cup {Null}) : Closed(L) => a \in L /\ b \in L /\ n \in L
    <2> SUFFICES ASSUME NEW L \in SUBSET (Drivers \cup {Null}), Closed(L)
                 PROVE  a \in L /\ b \in L /\ n \in L
      OBVIOUS
    <2>1. head \in L
      BY DEF Closed
    <2> QED BY <1>1, <2>1, ListedKept
  <1>5. Closed(Drivers \cup {Null})
    BY <1>2 DEF Closed, NodeTypes, Node
  <1>6. a \in Drivers \cup {Null} /\ b \in Drivers \cup {Null} /\ n \in Drivers \cup {Null}
    BY <1>4, <1>5
  <1> HIDE DEF n
  <1>7. CASE n # Null
    <2>1. n \in Drivers /\ Has(n, p)
      BY <1>3, <1>6, <1>7 DEF Stops
    <2> QED BY <1>4, <1>7, <2>1 DEF Listed, n
  <1>8. CASE n = Null
    <2> DEFINE L == {head, a, b, Null}
    <2>1. \A x \in L : x # Null => ~ Has(x, p)
      <3>1. ~ Stops(p, b) \/ b = Null
        BY <1>1, <1>8 DEF Onward
      <3>2. ~ Stops(p, a) \/ a = Null
        BY <3>1 DEF Onward, Stops
      <3>3. ~ Stops(p, head) \/ head = Null
        BY <3>2 DEF Onward, Stops
      <3> QED BY <3>1, <3>2, <3>3 DEF Stops
    <2>2. \A x \in L : x # Null => heap[x].next \in L
      BY <1>1, <1>8, <2>1 DEF Onward, Stops
    <2>3. L \in SUBSET (Drivers \cup {Null}) /\ Closed(L)
      BY <1>2, <1>6, <2>2 DEF Closed
    <2>4. \A d \in Listed : d \in L /\ d # Null
      BY <2>3 DEF Listed, Drivers, DepthDrivers, Null
    <2> QED BY <1>8, <2>1, <2>4 DEF n
  <1> QED BY <1>7, <1>8 DEF n

\* A node that has been linked stays so.
LEMMA UnlinkedShrinks ==
    ASSUME NodeTypes, [Start_Next]_sensorVars, NEW d \in Drivers
    PROVE  Unlinked(d)' => Unlinked(d)
  <1>a. "lowSpeed" \in Threads /\ "depth" \in Threads
    BY DEF Threads
  <1>b. pc \in [Threads -> Pcs] /\ driver \in [Threads -> Drivers] /\ driver["depth"] \in DepthDrivers
    BY DEF NodeTypes
  <1>1. CASE UNCHANGED nodeVars
    BY <1>1 DEF nodeVars, Unlinked
  <1>2. ASSUME NEW t \in Threads, NodeStep(t) PROVE Unlinked(d)' => Unlinked(d)
    <2>1. CASE Open(t) \/ Open_Exit(t) \/ NewNode_Scan(t) \/ NewNode_Overlap(t) \/ NewNode_Next(t)
               \/ NewNode_Link(t)
      <3>1. driver' = driver
        BY <2>1 DEF Open, Open_Exit, NewNode_Scan, NewNode_Overlap, NewNode_Next, NewNode_Link, Exit
      <3>2. \/ pc' = pc
            \/ pc[t] \in {"open", "scan", "link"} /\ \E x : pc' = [pc EXCEPT ![t] = x]
        BY <2>1 DEF Open, Open_Exit, NewNode_Scan, NewNode_Overlap, NewNode_Next, NewNode_Link, Exit,
                    At, Goto
      <3> QED BY <1>a, <1>b, <3>1, <3>2 DEF Unlinked
    <2>2. CASE Ads_Open_Failed \/ Ads_Probe
      BY <1>a, <1>b, <2>2 DEF Ads_Open_Failed, Ads_Probe, At, Goto, Unlinked
    <2>3. Next_Driver => /\ pc'["lowSpeed"] = pc["lowSpeed"]
                         /\ \/ driver["depth"] = "ms5837" /\ driver'["depth"] = "spl1301"
                            \/ driver'["depth"] = "spl1301" /\ pc'["depth"] = "done"
      BY <1>a, <1>b DEF Next_Driver, Goto, DepthDrivers
    <2>4. Next_Driver => (Unlinked(d)' => Unlinked(d))
      BY <2>3 DEF Unlinked
    <2>5. CASE Depth_Open_Failed
      BY <2>4, <2>5 DEF Depth_Open_Failed
    <2>6. CASE Depth_Probe
      <3>1. \/ Next_Driver
            \/ /\ driver' = driver /\ pc["depth"] = "probe" /\ pc' = [pc EXCEPT !["depth"] = "scan"]
        BY <2>6 DEF Depth_Probe, At, Goto
      <3> QED BY <1>a, <1>b, <2>4, <3>1 DEF Unlinked
    <2>7. CASE Register(t)
      <3>1. \/ Next_Driver
            \/ driver' = driver /\ pc' = [pc EXCEPT ![t] = "done"]
        BY <2>7 DEF Register, Goto
      <3> QED BY <1>a, <1>b, <2>4, <3>1 DEF Unlinked
    <2> QED BY <1>2, <2>1, <2>2, <2>5, <2>6, <2>7 DEF NodeStep
  <1> QED BY <1>1, <1>2, NodeSteps

\* What a step does to the list: nothing, or a thread makes the node it has
\* not linked yet, or it links that node.
LEMMA ListSteps ==
    ASSUME NodeTypes, [Start_Next]_sensorVars
    PROVE  \/ UNCHANGED head /\ \A d \in Drivers : heap'[d].next = heap[d].next
           \/ \E t \in Threads : NewNode_Next(t) \/ NewNode_Link(t)
  <1> DEFINE Same == UNCHANGED head /\ \A d \in Drivers : heap'[d].next = heap[d].next
  <1>1. CASE UNCHANGED nodeVars
    BY <1>1 DEF nodeVars
  <1>2. ASSUME NEW t \in Threads, NodeStep(t), ~ NewNode_Next(t), ~ NewNode_Link(t) PROVE Same
    <2>1. CASE Register(t)
      <3>1. driver[t] \in Drivers /\ heap \in [Drivers -> Node]
        BY DEF NodeTypes
      <3>2. heap' = [heap EXCEPT ![driver[t]] =
                        [heap[driver[t]] EXCEPT !.fd = own_fd[driver[t]], !.read = driver[t]]]
        BY <2>1, <3>1 DEF Register, Node
      <3>3. [heap[driver[t]] EXCEPT !.fd = own_fd[driver[t]], !.read = driver[t]].next
              = heap[driver[t]].next
        BY <3>1 DEF Node
      <3>4. \A d \in Drivers : heap'[d].next = heap[d].next
        BY <3>1, <3>2, <3>3
      <3> QED BY <2>1, <3>4 DEF Register
    <2>2. CASE UNCHANGED <<heap, head>>
      BY <2>2
    <2>3. Register(t) \/ UNCHANGED <<heap, head>>
      BY <1>2 DEF NodeStep, Open, Open_Exit, Ads_Open_Failed, Ads_Probe, Depth_Open_Failed, Depth_Probe,
                  NewNode_Scan, NewNode_Overlap, Exit
    <2> QED BY <2>1, <2>2, <2>3
  <1> QED BY <1>1, <1>2, NodeSteps

\* No step makes a circle.
LEMMA ListInvStep == NodeTypes /\ ListInv /\ [Start_Next]_sensorVars => ListInv'
  <1> SUFFICES ASSUME NodeTypes, ListInv, [Start_Next]_sensorVars PROVE ListInv'
    OBVIOUS
  <1>a. heap \in [Drivers -> Node] /\ head \in Drivers \cup {Null}
    BY DEF NodeTypes
  <1>b. PICK r : Numbers(r)
    BY DEF ListInv
  <1>c. \A d \in Drivers : Unlinked(d)' => Unlinked(d)
    BY UnlinkedShrinks
  <1>d. ASSUME NEW t \in Threads, pc[t] \in {"scan", "link"}
        PROVE  driver[t] \in Drivers /\ Unlinked(driver[t])
    BY <1>d DEF NodeTypes, Threads, Unlinked, DepthDrivers, Drivers
  <1>1. CASE UNCHANGED head /\ \A d \in Drivers : heap'[d].next = heap[d].next
    <2>1. Numbers(r)'
      BY <1>1, <1>b DEF Numbers
    <2> QED BY <1>1, <1>c, <2>1 DEF ListInv
  <1>2. ASSUME NEW t \in Threads, NewNode_Next(t) PROVE ListInv'
    <2> DEFINE d == driver[t]
    <2>1. d \in Drivers /\ Unlinked(d) /\ head' = head
      BY <1>2, <1>d DEF NewNode_Next, At
    <2>2. heap'[d].next = head /\ \A e \in Drivers : e # d => heap'[e] = heap[e]
      BY <1>2, <1>a, <2>1 DEF NewNode_Next
    <2>3. head # d /\ \A e \in Drivers : heap[e].next # d
      BY <2>1 DEF ListInv
    <2> HIDE DEF d
    <2>a. PICK s : s = [r EXCEPT ![d] = r[head] + 1]
      OBVIOUS
    <2>4. Numbers(s)'
      <3>1. r \in [Drivers \cup {Null} -> Nat] /\ r[head] \in Nat
        BY <1>a, <1>b DEF Numbers
      <3>2. s \in [Drivers \cup {Null} -> Nat]
        <4>1. r[head] + 1 \in Nat
          BY <3>1
        <4> QED BY <2>a, <3>1, <4>1
      <3>3. s[d] = r[head] + 1 /\ \A x \in Drivers \cup {Null} : x # d => s[x] = r[x]
        BY <2>1, <2>a, <3>1
      <3>4. ASSUME NEW e \in Drivers PROVE s[heap'[e].next] < s[e]
        <4>1. CASE e = d
          <5>1. s[head] = r[head]
            BY <1>a, <2>3, <3>3
          <5> QED BY <2>2, <3>1, <3>3, <4>1, <5>1
        <4>2. CASE e # d
          <5>1. heap'[e].next = heap[e].next /\ heap[e].next # d
                  /\ heap[e].next \in Drivers \cup {Null}
            BY <1>a, <2>2, <2>3, <4>2 DEF Node
          <5> QED BY <1>b, <3>3, <4>2, <5>1 DEF Numbers
        <4> QED BY <4>1, <4>2
      <3> QED BY <3>2, <3>4 DEF Numbers
    <2>5. ASSUME NEW x \in Drivers, Unlinked(x)'
          PROVE  head' # x /\ \A e \in Drivers : heap'[e].next # x
      <3>1. head # x /\ \A e \in Drivers : heap[e].next # x
        BY <1>c, <2>5 DEF ListInv
      <3> QED BY <2>1, <2>2, <3>1
    <2> QED BY <2>4, <2>5 DEF ListInv
  <1>3. ASSUME NEW t \in Threads, NewNode_Link(t) PROVE ListInv'
    <2>1. heap' = heap /\ driver' = driver /\ head' = driver[t] /\ pc[t] = "link"
            /\ pc' = [pc EXCEPT ![t] = "register"]
      BY <1>3 DEF NewNode_Link, At, Goto
    <2>2. Numbers(r)'
      BY <1>b, <2>1 DEF Numbers
    <2>3. ~ Unlinked(driver[t])'
      <3>1. pc'[t] = "register"
        BY <2>1 DEF NodeTypes
      <3>2. CASE t = "lowSpeed"
        BY <2>1, <3>1, <3>2 DEF NodeTypes, Unlinked
      <3>3. CASE t = "depth"
        BY <2>1, <3>1, <3>3 DEF NodeTypes, Unlinked, DepthDrivers
      <3> QED BY <3>2, <3>3 DEF Threads
    <2>4. ASSUME NEW x \in Drivers, Unlinked(x)'
          PROVE  head' # x /\ \A e \in Drivers : heap'[e].next # x
      <3>1. x # driver[t]
        BY <2>1, <2>3, <2>4
      <3>2. \A e \in Drivers : heap[e].next # x
        BY <1>c, <2>4 DEF ListInv
      <3> QED BY <2>1, <3>1, <3>2
    <2> QED BY <2>2, <2>4 DEF ListInv
  <1> QED BY <1>1, <1>2, <1>3, ListSteps

\* wiringPiFindNode ends, and finds what the list holds, in every state: at
\* whatever points the threads are that put nodes into it.
THEOREM WalksEnd == Start_Spec => []WalkRight
  <1>1. Start_Init => ListInv
    <2> SUFFICES ASSUME Start_Init PROVE ListInv
      OBVIOUS
    <2>1. Numbers([d \in Drivers \cup {Null} |-> IF d = Null THEN 0 ELSE 1])
      BY DEF Start_Init, Numbers, NoNode, Drivers, DepthDrivers, Null
    <2>2. \A d \in Drivers : head # d /\ heap[d].next = Null /\ d # Null
      BY DEF Start_Init, NoNode, Drivers, DepthDrivers, Null
    <2> QED BY <2>1, <2>2 DEF ListInv
  <1> QED BY <1>1, WalkReturns, ListInvStep, NodeInit, NodeTypesStep, PTL DEF Start_Spec

(***************************************************************************)
(* A reading of the MS5837.                                                *)
(***************************************************************************)

\* A number below the modulus is its own remainder.
LEMMA Below == ASSUME NEW m \in Nat \ {0}, NEW x \in Nat, x < m PROVE x % m = x
  <1>1. x = m * (x \div m) + (x % m) /\ x \div m \in Int /\ x % m \in 0..(m - 1)
    OBVIOUS
  <1>2. \A q \in Int : q >= 1 => m * q >= m
    BY SMT
  <1>3. \A q \in Int : q <= -1 => m * q <= -m
    BY SMT
  <1>4. x \div m = 0
    BY <1>1, <1>2, <1>3
  <1> QED BY <1>1, <1>4

\* A power of two is a positive number, whatever the exponent.
LEMMA PowerPositive == ASSUME NEW n \in Nat PROVE 2^n \in Nat \ {0}
  <1> DEFINE S == 1..n
  <1>1. IsFiniteSet(S) /\ Cardinality(S) = n
    BY FS_Interval
  <1> HIDE DEF S
  <1>2. IsFiniteSet(SUBSET S) /\ Cardinality(SUBSET S) = 2^Cardinality(S)
    BY <1>1, FS_SUBSET, Zenon
  <1>3. Cardinality(SUBSET S) \in Nat
    BY <1>2, FS_CardinalityType, Zenon
  <1>4. SUBSET S # {}
    OBVIOUS
  <1>5. Cardinality(SUBSET S) # 0
    BY <1>2, <1>4, FS_EmptySet, Zenon
  <1>6. Cardinality(SUBSET S) = 2^n
    BY <1>1, <1>2, Zenon
  <1> QED BY <1>3, <1>5, <1>6

\* Without a wrap-around the product of the code is the true one.
LEMMA NoWrap ==
    ASSUME NEW m \in Nat \ {0}, NEW half, NEW x \in Nat, NEW q \in Nat,
           x < half, half \in Int, x * q < m
    PROVE  LET u == x % m
               s == IF u >= half THEN u - m ELSE u
           IN  ((s % m) * q) % m = x * q
  <1>1. x * q \in Nat
    BY SMT
  <1>2. CASE q = 0
    <2>1. \A y \in Int : (y % m) * q = 0 
      BY <1>2, SMT
    <2>2. x % m \in Int /\ (IF x % m >= half THEN (x % m) - m ELSE x % m) \in Int
      BY SMT
    <2>3. 0 % m = 0 /\ x * q = 0
      BY <1>2, Below, SMT
    <2> QED BY <2>1, <2>2, <2>3
  <1>3. CASE q >= 1
    <2>1. x <= x * q
      BY <1>3, SMT
    <2>2. x < m
      BY <1>1, <2>1
    <2>3. x % m = x
      BY <2>2, Below
    <2>4. (x * q) % m = x * q
      BY <1>1, Below
    <2> QED BY <2>3, <2>4
  <1> QED BY <1>2, <1>3


\* What the temperature of the MS5837 is computed from.
MsInv ==
    /\ ms_pc \in {"calib", "check", "crc", "ready", "absent"}
    /\ ms_present => prom \in [PromWords -> 0..(2^16 - 1)]
    /\ water.D2 \subseteq Nat
    /\ c \in [PromWords -> Nat]
    /\ D2_Temp \in Nat
    /\ TEMP # 0 => ms_pc = "ready" /\ TEMP = RawTEMP(D2_Temp)

\* A bit that is set counts for no more than the word.
LEMMA ToggleNat ==
    ASSUME NEW x \in Nat, NEW m \in Nat \ {0}, (x \div m) % 2 = 1
    PROVE  x >= m
  <1>1. x = m * (x \div m) + (x % m) /\ x \div m \in Int /\ x % m \in 0..(m - 1)
    OBVIOUS
  <1>2. \A q \in Int : q <= -1 => m * q <= -m
    BY SMT
  <1>3. x \div m >= 0
    BY <1>1, <1>2
  <1>4. x \div m # 0
    OBVIOUS
  <1>5. \A q \in Int : q >= 1 => m * q >= m
    BY SMT
  <1> QED BY <1>1, <1>3, <1>4, <1>5

\* The powers that the bits of a word count for.
LEMMA PowerOfTwo == \A b \in 0..15 : 2^b \in Nat \ {0}
  BY PowerPositive

\* The words delivered are natural numbers.
LEMMA DeliveredNat ==
    ASSUME MsInv
    PROVE  /\ Delivered \in [PromWords -> Nat]
           /\ \A i \in PromWords, b \in 0..15 : Flip(Delivered, i, b) \in [PromWords -> Nat]
  <1>1. \A i \in PromWords : (IF ms_present THEN Swapped(prom[i]) ELSE 2^16 - 1) \in Nat
    <2> TAKE i \in PromWords
    <2>1. CASE ms_present
      <3>1. prom[i] \in 0..(2^16 - 1)
        BY <2>1, Zenon DEF MsInv
      <3>2. \A v : v \in 0..(2^16 - 1) => (v % 256) * 256 + v \div 256 \in Nat
        BY SMT
      <3> QED BY <2>1, <3>1, <3>2, Zenon DEF Swapped
    <2>2. CASE ~ ms_present
      <3>1. 2^16 - 1 \in Nat
        BY SMT
      <3> QED BY <2>2, <3>1, Zenon
    <2> QED BY <2>1, <2>2
  <1>2. Delivered \in [PromWords -> Nat]
    BY <1>1, Zenon DEF Delivered
  <1>3. ASSUME NEW i \in PromWords, NEW b \in 0..15
        PROVE  Flip(Delivered, i, b) \in [PromWords -> Nat]
    <2>1. Delivered[i] \in Nat /\ 2^b \in Nat \ {0}
      BY <1>2, PowerOfTwo
    <2> HIDE DEF MsInv
    <2>2. \A x \in Nat, m \in Nat \ {0} :
             (IF (x \div m) % 2 = 1 THEN x - m ELSE x + m) \in Nat
      BY ToggleNat
    <2>3. Toggle(Delivered[i], b) \in Nat
      BY <2>1, <2>2 DEF Toggle
    <2> QED BY <1>2, <2>3 DEF Flip
  <1> QED BY <1>2, <1>3

\* Before Setup no temperature has been computed.
LEMMA MsInit == Start_Init => MsInv
  <1> SUFFICES ASSUME Start_Init PROVE MsInv
    OBVIOUS
  <1>1. (ms_present => prom \in [PromWords -> 0..(2^16 - 1)]) /\ water.D2 \subseteq Nat
    BY BoardsAssumption, Zenon DEF Start_Init
  <1>2. c \in [PromWords -> Nat] /\ D2_Temp = 0 /\ TEMP = 0 /\ ms_pc = "calib"
    BY DEF Start_Init, Ms_Init
  <1> HIDE DEF Start_Init
  <1> QED BY <1>1, <1>2 DEF MsInv

\* Every step keeps the temperature that of the last conversion, to the
\* calibration the Setup read.
LEMMA MsInvStep == MsInv /\ [Start_Next]_sensorVars => MsInv'
  <1> SUFFICES ASSUME MsInv, [Start_Next]_sensorVars PROVE MsInv'
    OBVIOUS
  <1>a. ASSUME UNCHANGED <<ms_chip, ms_reading>>, TEMP = 0, c' \in [PromWords -> Nat],
               ms_pc' \in {"calib", "check", "crc", "ready", "absent"}
        PROVE  MsInv'
    BY <1>a, Zenon DEF MsInv, ms_chip, ms_reading
  <1>b. ms_pc # "ready" => TEMP = 0
    BY DEF MsInv
  <1>1. CASE Ms_Setup_Calib
    <2>1. c' \in [PromWords -> Nat]
      BY <1>1, DeliveredNat, Zenon DEF Ms_Setup_Calib
    <2> QED BY <1>a, <1>b, <1>1, <2>1 DEF Ms_Setup_Calib
  <1>2. CASE Crc_Start
    <2>1. c[0] % 2^12 \in Nat /\ c \in [PromWords -> Nat]
      <3>1. c[0] \in Nat
        <4>1. 0 \in PromWords
          BY DEF PromWords
        <4> QED BY <4>1 DEF MsInv
      <3>2. \A x \in Nat : x % 2^12 \in Nat
        BY SMT
      <3> QED BY <3>1, <3>2 DEF MsInv
    <2>2. c' = [c EXCEPT ![0] = c[0] % 2^12]
      BY <1>2 DEF Crc_Start
    <2>3. c' \in [PromWords -> Nat]
      BY <2>1, <2>2
    <2> QED BY <1>a, <1>b, <1>2, <2>3 DEF Crc_Start
  <1>3. CASE Crc_Byte
    <2>1. UNCHANGED <<ms_chip, c, ms_reading, ms_pc>> /\ ms_pc = "crc"
      BY <1>3, Zenon DEF Crc_Byte
    <2> QED BY <1>a, <1>b, <2>1 DEF MsInv
  <1>4. CASE Ms_Setup_Check
    <2>1. UNCHANGED <<ms_chip, c, ms_reading>> /\ ms_pc = "crc" /\ ms_pc' \in {"ready", "absent"}
      BY <1>4 DEF Ms_Setup_Check
    <2> QED BY <1>a, <1>b, <2>1 DEF MsInv
  <1>5. CASE \E ch \in {PRESSURE_SENSOR, TEMPERATURE_SENSOR} : ms5837_myDigitalRead(ch)
    <2>1. /\ D2_Temp' \in water.D2 /\ TEMP' = RawTEMP(D2_Temp')
          /\ UNCHANGED <<ms_chip, c, ms_pc>> /\ ms_pc = "ready"
      BY <1>5, Zenon DEF ms5837_myDigitalRead
    <2>2. RawTEMP(D2_Temp') = RawTEMP(D2_Temp)'
      <3>1. c' = c
        BY <2>1
      <3> QED BY <3>1, SMT DEF RawTEMP, RawDT
    <2> QED BY <2>1, <2>2, Zenon DEF MsInv, ms_chip
  <1>6. CASE UNCHANGED msVars
    <2>1. UNCHANGED <<ms_present, prom, water, c, D2_Temp, TEMP, ms_pc>>
      BY <1>6 DEF msVars, ms_chip, ms_reading
    <2>2. RawTEMP(D2_Temp)' = RawTEMP(D2_Temp)
      BY <2>1, SMT DEF RawTEMP, RawDT
    <2> QED BY <2>1, <2>2, Zenon DEF MsInv
  <1> QED BY <1>1, <1>2, <1>3, <1>4, <1>5, <1>6, MsStep DEF Ms_Setup

\* At and above the reference temperature the code's unsigned product is the
\* datasheet's, for every width of int, as long as it fits
\* (ms5837_cal_raw_temperature).
THEOREM WarmReadings == Start_Spec => []WarmExact
  <1>1. MsInv => WarmExact
    <2> SUFFICES ASSUME MsInv, TEMP # 0, D2_Temp >= c[5] * RefScale,
                        (D2_Temp - c[5] * RefScale) * c[6] < 2^W, D2_Temp < 2^(W - 1)
                 PROVE  TEMP = TrueTEMP
      BY DEF WarmExact
    <2> DEFINE x == D2_Temp - c[5] * RefScale
               q == c[6]
    <2>1. c[5] \in Nat /\ q \in Nat /\ D2_Temp \in Nat /\ TEMP = RawTEMP(D2_Temp)
      <3>1. 5 \in PromWords /\ 6 \in PromWords
        BY DEF PromWords
      <3> QED BY <3>1 DEF MsInv
    <2>2. x \in Nat /\ x <= D2_Temp
      BY <2>1, ScaleAssumption, SMT
    <2>3. x * q < 2^W /\ x < 2^(W - 1) /\ 2^W \in Nat \ {0} /\ 2^(W - 1) \in Int
      <3>1. W \in Nat /\ W - 1 \in Nat
        BY ScaleAssumption
      <3>2. 2^W \in Nat \ {0} /\ 2^(W - 1) \in Nat \ {0}
        BY <3>1, PowerPositive
      <3> QED BY <2>1, <2>2, <3>2
    <2>4. RawTEMP(D2_Temp) = 2000 + Unsigned(Unsigned(Signed(x)) * q) \div TempScale
      BY DEF RawTEMP, RawDT
    <2>5. TrueTEMP = 2000 + Div(x * q, TempScale)
      BY DEF TrueTEMP
    <2> HIDE DEF x, q
    <2>6. Unsigned(Unsigned(Signed(x)) * q) = x * q
      <3>1. \A m \in Nat \ {0}, half \in Int : x < half /\ x * q < m =>
               LET u == x % m
                   s == IF u >= half THEN u - m ELSE u
               IN  ((s % m) * q) % m = x * q
        BY <2>1, <2>2, NoWrap
      <3>2. LET u == x % 2^W
                s == IF u >= 2^(W - 1) THEN u - 2^W ELSE u
            IN  ((s % 2^W) * q) % 2^W = x * q
        BY <2>3, <3>1, Zenon
      <3> QED BY <3>2, Zenon DEF Unsigned, Signed
    <2>7. x * q >= 0
      BY <2>1, <2>2, SMT
    <2> QED BY <2>1, <2>4, <2>5, <2>6, <2>7 DEF Div
  <1> QED BY <1>1, MsInit, MsInvStep, PTL DEF Start_Spec

(***************************************************************************)
(* The CRC of the MS5837's PROM.                                           *)
(***************************************************************************)

\* Bits, and digits of four of them.
BitValue == {0, 1}
DigitValue == 0..15
\* What comes behind the first digit and the bit after it.
Low == 0..2047

\* A digit is made of its bits.
LEMMA DigitBits ==
    ASSUME NEW d \in DigitValue
    PROVE  /\ Bit(d, 0) \in BitValue /\ Bit(d, 1) \in BitValue
           /\ Bit(d, 2) \in BitValue /\ Bit(d, 3) \in BitValue
           /\ d = DigitOf(Bit(d, 3), Bit(d, 2), Bit(d, 1), Bit(d, 0))
  <1>1. Bit(d, 0) = d % 2 /\ Bit(d, 1) = (d \div 2) % 2
        /\ Bit(d, 2) = (d \div 4) % 2 /\ Bit(d, 3) = (d \div 8) % 2
    BY SMT DEF Bit, DigitValue
  <1>2. /\ Bit(d, 0) \in BitValue /\ Bit(d, 1) \in BitValue
        /\ Bit(d, 2) \in BitValue /\ Bit(d, 3) \in BitValue
        /\ d = DigitOf(Bit(d, 3), Bit(d, 2), Bit(d, 1), Bit(d, 0))
    <2>1. \/ d = 0 \/ d = 1 \/ d = 2 \/ d = 3 \/ d = 4 \/ d = 5 \/ d = 6 \/ d = 7
          \/ d = 8 \/ d = 9 \/ d = 10 \/ d = 11 \/ d = 12 \/ d = 13 \/ d = 14 \/ d = 15
      BY DEF DigitValue
    <2> QED BY <1>1, <2>1, SMT DEF BitValue, DigitOf
  <1> QED BY <1>2

\* Digits with the same bits are the same.
LEMMA SameBits ==
    \A a, b, p, q, w, x, y, z :
        {a, b, p, q, w, x, y, z} \subseteq BitValue /\ DigitOf(a, b, p, q) = DigitOf(w, x, y, z)
            => a = w /\ b = x /\ p = y /\ q = z
  <1> SUFFICES ASSUME NEW a, NEW b, NEW p, NEW q, NEW w, NEW x, NEW y, NEW z,
                      {a, b, p, q, w, x, y, z} \subseteq BitValue,
                      DigitOf(a, b, p, q) = DigitOf(w, x, y, z)
               PROVE  a = w /\ b = x /\ p = y /\ q = z
    OBVIOUS
  <1>1. /\ a \in BitValue /\ b \in BitValue /\ p \in BitValue /\ q \in BitValue
        /\ w \in BitValue /\ x \in BitValue /\ y \in BitValue /\ z \in BitValue
    OBVIOUS
  <1> QED BY <1>1, SMT DEF BitValue, DigitOf

\* The numbers of sixteen bits.
LEMMA Word16 == \A v \in Nat : v \in 0..(2^16 - 1) <=> v <= 65535
  BY SMT

\* The table of the turns holds their values.
LEMMA ShiftedValue ==
    ASSUME NEW r \in 0..(2^16 - 1)
    PROVE  Shifted[r] = IF r >= 2^15 THEN Toggle(Toggle((2 * r) % 2^16, 13), 12)
                        ELSE (2 * r) % 2^16
  BY Zenon DEF Shifted

\* One turn of the loop on a remainder whose first digit has the bits h3 to
\* h0 and whose next bit is e.
Turn(h3, h2, h1, h0, e, t) ==
    {h3, h2, h1, h0, e} \subseteq BitValue /\ t \in Low =>
      Shifted[4096 * DigitOf(h3, h2, h1, h0) + 2048 * e + t]
        = 4096 * DigitOf(h2, h1, (h0 + h3) % 2, (e + h3) % 2) + 2 * t

\* A turn shifts the digit left by one bit, and adds its first bit to two of
\* the others.
LEMMA OneTurn == \A h3, h2, h1, h0, e, t : Turn(h3, h2, h1, h0, e, t)
  <1> SUFFICES ASSUME NEW h3 \in BitValue, NEW h2 \in BitValue, NEW h1 \in BitValue,
                      NEW h0 \in BitValue, NEW e \in BitValue, NEW t \in Low
               PROVE  Shifted[4096 * DigitOf(h3, h2, h1, h0) + 2048 * e + t]
                        = 4096 * DigitOf(h2, h1, (h0 + h3) % 2, (e + h3) % 2) + 2 * t
    BY DEF Turn
  <1> DEFINE r == 4096 * DigitOf(h3, h2, h1, h0) + 2048 * e + t
             u == 32768 * h2 + 16384 * h1 + 8192 * h0 + 4096 * e + 2 * t
             v == 32768 * h2 + 16384 * h1 + 8192 * (1 - h0) + 4096 * e + 2 * t
             x == 32768 * h2 + 16384 * h1 + 8192 * (1 - h0) + 4096 * (1 - e) + 2 * t
  <1>1. r \in 0..(2^16 - 1)
    <2>1. r \in Nat /\ r <= 65535
      BY SMT DEF DigitOf, BitValue, Low
    <2> HIDE DEF r
    <2> QED BY <2>1, Word16, SMT
  <1>2. Shifted[r] = IF r >= 2^15 THEN Toggle(Toggle((2 * r) % 2^16, 13), 12)
                     ELSE (2 * r) % 2^16
    <2> HIDE DEF r
    <2> QED BY <1>1, ShiftedValue, Zenon
  <1>3. (2 * r) % 2^16 = u
    BY SMT DEF DigitOf, BitValue, Low
  <1>4. r >= 2^15 <=> h3 = 1
    BY SMT DEF DigitOf, BitValue, Low
  <1>5. (u \div 2^13) % 2 = h0
    BY SMT DEF BitValue, Low
  <1>6. Toggle(u, 13) = v
    <2>1. h0 = 1 => u - 2^13 = v
      BY SMT DEF BitValue, Low
    <2>2. h0 # 1 => u + 2^13 = v
      BY SMT DEF BitValue, Low
    <2> HIDE DEF u, v
    <2> QED BY <1>5, <2>1, <2>2, SMT DEF Toggle
  <1>7. (v \div 2^12) % 2 = e
    BY SMT DEF BitValue, Low
  <1>8. Toggle(v, 12) = x
    <2>1. e = 1 => v - 2^12 = x
      BY SMT DEF BitValue, Low
    <2>2. e # 1 => v + 2^12 = x
      BY SMT DEF BitValue, Low
    <2> HIDE DEF x, v
    <2> QED BY <1>7, <2>1, <2>2, SMT DEF Toggle
  <1>9. h3 = 1 => x = 4096 * DigitOf(h2, h1, (h0 + h3) % 2, (e + h3) % 2) + 2 * t
    BY SMT DEF DigitOf, BitValue, Low
  <1>10. h3 # 1 => u = 4096 * DigitOf(h2, h1, (h0 + h3) % 2, (e + h3) % 2) + 2 * t
    BY SMT DEF DigitOf, BitValue, Low
  <1> HIDE DEF r, u, v, x
  <1>11. Shifted[r] = IF h3 = 1 THEN x ELSE u
    <2>1. CASE h3 = 1
      <3>1. Shifted[r] = Toggle(Toggle(u, 13), 12)
        BY <1>2, <1>3, <1>4, <2>1
      <3> QED BY <1>6, <1>8, <2>1, <3>1, SMT
    <2>2. CASE h3 # 1
      BY <1>2, <1>3, <1>4, <2>2
    <2> QED BY <2>1, <2>2
  <1>12. Shifted[r] = 4096 * DigitOf(h2, h1, (h0 + h3) % 2, (e + h3) % 2) + 2 * t
    BY <1>9, <1>10, <1>11
  <1> QED BY <1>12 DEF r

\* The sum of two bits without its carry is a bit.
LEMMA BitSum == \A x, y \in BitValue : (x + y) % 2 \in BitValue
  BY SMT DEF BitValue, Low

\* Four turns: the first digit is divided, the next one comes in.
LEMMA FourTurnsMix ==
    ASSUME NEW h \in DigitValue, NEW m \in DigitValue, NEW t \in 0..255
    PROVE  FourTurns(4096 * h + 256 * m + t) = 4096 * Mix(h, m) + 16 * t
  <1>1. PICK h3, h2, h1, h0 \in BitValue :
           /\ h3 = Bit(h, 3) /\ h2 = Bit(h, 2) /\ h1 = Bit(h, 1) /\ h0 = Bit(h, 0)
           /\ h = DigitOf(h3, h2, h1, h0)
    BY DigitBits
  <1>2. PICK m3, m2, m1, m0 \in BitValue :
           /\ m3 = Bit(m, 3) /\ m2 = Bit(m, 2) /\ m1 = Bit(m, 1) /\ m0 = Bit(m, 0)
           /\ m = DigitOf(m3, m2, m1, m0)
    BY DigitBits
  <1>3. PICK a, b \in BitValue : a = (h0 + h3) % 2 /\ b = (m3 + h3) % 2
    BY BitSum
  <1>4. PICK p, q \in BitValue : p = (b + h2) % 2 /\ q = (m2 + h2) % 2
    BY BitSum
  <1>5. PICK u, v \in BitValue : u = (q + h1) % 2 /\ v = (m1 + h1) % 2
    BY BitSum
  <1>6. PICK y, z \in BitValue : y = (v + a) % 2 /\ z = (m0 + a) % 2
    BY BitSum
  <1>7a. PICK t1 \in Low : t1 = 1024 * m2 + 512 * m1 + 256 * m0 + t
    <2>1. 1024 * m2 + 512 * m1 + 256 * m0 + t \in Low
      BY SMT DEF BitValue, Low
    <2> QED BY <2>1
  <1>7b. PICK t2 \in Low : t2 = 1024 * m1 + 512 * m0 + 2 * t
    <2>1. 1024 * m1 + 512 * m0 + 2 * t \in Low
      BY SMT DEF BitValue, Low
    <2> QED BY <2>1
  <1>7c. PICK t3 \in Low : t3 = 1024 * m0 + 4 * t
    <2>1. 1024 * m0 + 4 * t \in Low
      BY SMT DEF BitValue, Low
    <2> QED BY <2>1
  <1>7d. PICK t4 \in Low : t4 = 8 * t
    <2>1. 8 * t \in Low
      BY SMT DEF BitValue, Low
    <2> QED BY <2>1
  <1>7e. /\ m2 \in Int /\ m1 \in Int /\ m0 \in Int /\ t \in Int
        /\ t1 \in Int /\ t2 \in Int /\ t3 \in Int /\ t4 \in Int
    BY SMT DEF BitValue, Low
  <1>8. Shifted[4096 * h + 256 * m + t] = 4096 * DigitOf(h2, h1, a, b) + 2048 * m2 + t2
    <2>1. Turn(h3, h2, h1, h0, m3, t1)
      BY OneTurn
    <2>2. 4096 * h + 256 * m + t = 4096 * DigitOf(h3, h2, h1, h0) + 2048 * m3 + t1
      <3>1. 256 * m = 2048 * m3 + 1024 * m2 + 512 * m1 + 256 * m0
        BY <1>2, SMT DEF DigitOf, BitValue
      <3>2. h \in Int /\ 256 * m \in Int /\ 2048 * m3 \in Int /\ t1 \in Int
        BY SMT DEF DigitValue, BitValue, Low
      <3>3. 4096 * DigitOf(h3, h2, h1, h0) = 4096 * h
        BY <1>1
      <3> QED BY <1>7a, <3>1, <3>2, <3>3, SMT DEF BitValue
    <2>3. 2 * t1 = 2048 * m2 + t2
      BY <1>7a, <1>7b, <1>7e, SMT
    <2>4. 4096 * DigitOf(h2, h1, a, b) + 2 * t1 = 4096 * DigitOf(h2, h1, a, b) + 2048 * m2 + t2
      BY <2>3, SMT DEF DigitOf, BitValue, Low
    <2> QED BY <1>3, <2>1, <2>2, <2>4 DEF Turn
  <1>9. Shifted[4096 * DigitOf(h2, h1, a, b) + 2048 * m2 + t2]
          = 4096 * DigitOf(h1, a, p, q) + 2048 * m1 + t3
    <2>1. Turn(h2, h1, a, b, m2, t2)
      BY OneTurn
    <2>3. 2 * t2 = 2048 * m1 + t3
      BY <1>7b, <1>7c, <1>7e, SMT
    <2>4. 4096 * DigitOf(h1, a, p, q) + 2 * t2 = 4096 * DigitOf(h1, a, p, q) + 2048 * m1 + t3
      BY <2>3, SMT DEF DigitOf, BitValue, Low
    <2> QED BY <1>4, <2>1, <2>4 DEF Turn
  <1>10. Shifted[4096 * DigitOf(h1, a, p, q) + 2048 * m1 + t3]
           = 4096 * DigitOf(a, p, u, v) + 2048 * m0 + t4
    <2>1. Turn(h1, a, p, q, m1, t3)
      BY OneTurn
    <2>3. 2 * t3 = 2048 * m0 + t4
      BY <1>7c, <1>7d, <1>7e, SMT
    <2>4. 4096 * DigitOf(a, p, u, v) + 2 * t3 = 4096 * DigitOf(a, p, u, v) + 2048 * m0 + t4
      BY <2>3, SMT DEF DigitOf, BitValue, Low
    <2> QED BY <1>5, <2>1, <2>4 DEF Turn
  <1>11. Shifted[4096 * DigitOf(a, p, u, v) + 2048 * m0 + t4]
           = 4096 * DigitOf(p, u, y, z) + 16 * t
    <2>1. Turn(a, p, u, v, m0, t4)
      BY OneTurn
    <2>3. 2 * t4 = 16 * t
      BY <1>7d, <1>7e, SMT
    <2> QED BY <1>6, <2>1, <2>3 DEF Turn
  <1>12. Mix(h, m) = DigitOf(p, u, y, z)
    <2>1. Mix(h, m) = DigitOf((h3 + h2 + m3) % 2, (h2 + h1 + m2) % 2,
                              (h1 + h0 + h3 + m1) % 2, (h0 + h3 + m0) % 2)
      BY <1>1, <1>2 DEF Mix
    <2>2. /\ (h3 + h2 + m3) % 2 = p /\ (h2 + h1 + m2) % 2 = u
          /\ (h1 + h0 + h3 + m1) % 2 = y /\ (h0 + h3 + m0) % 2 = z
      <3>1. (h0 + h3 + m0) % 2 = z /\ (h3 + h2 + m3) % 2 = p
        BY <1>3, <1>4, <1>6, SMT DEF BitValue
      <3>2. (h2 + h1 + m2) % 2 = u
        BY <1>4, <1>5, SMT DEF BitValue
      <3>3. (h1 + h0 + h3 + m1) % 2 = y
        BY <1>3, <1>5, <1>6, SMT DEF BitValue
      <3> QED BY <3>1, <3>2, <3>3
    <2> QED BY <2>1, <2>2
  <1> QED BY <1>8, <1>9, <1>10, <1>11, <1>12 DEF FourTurns

\* A set of numbers that is not empty has a least one.
LEMMA Least ==
    ASSUME NEW S \in SUBSET Nat, S # {}
    PROVE  \E m \in S : \A x \in S : m <= x
  <1>1. PICK m \in S : \A x \in S : <<x, m>> \notin OpToRel(<, Nat)
    BY WFMin, NatLessThanWellFounded, Zenon
  <1>2. \A x \in S : ~ (x < m)
    BY <1>1, Zenon DEF OpToRel
  <1> QED BY <1>2

\* The remainder is a digit, and none of its two arguments is lost in it.
LEMMA MixDigit ==
    ASSUME NEW h \in DigitValue, NEW m \in DigitValue
    PROVE  Mix(h, m) \in DigitValue
  <1>1. /\ Bit(h, 0) \in BitValue /\ Bit(h, 1) \in BitValue
        /\ Bit(h, 2) \in BitValue /\ Bit(h, 3) \in BitValue
        /\ Bit(m, 0) \in BitValue /\ Bit(m, 1) \in BitValue
        /\ Bit(m, 2) \in BitValue /\ Bit(m, 3) \in BitValue
    BY DigitBits
  <1> QED BY <1>1, SMT DEF Mix, DigitOf, DigitValue, BitValue

\* If the results of a division are the same and so is one of its two inputs,
\* the other one is.
Kept(h, m, g, n) ==
    {h, m, g, n} \subseteq DigitValue /\ (h = g \/ m = n) /\ Mix(h, m) = Mix(g, n)
        => h = g /\ m = n

\* The division loses nothing: from its result and one input the other one
\* follows.
LEMMA MixKeeps == \A h, m, g, n : Kept(h, m, g, n)
  <1> SUFFICES ASSUME NEW h \in DigitValue, NEW m \in DigitValue,
                      NEW g \in DigitValue, NEW n \in DigitValue,
                      h = g \/ m = n, Mix(h, m) = Mix(g, n)
               PROVE  h = g /\ m = n
    BY DEF Kept
  <1>1. PICK h3, h2, h1, h0 \in BitValue :
           /\ h3 = Bit(h, 3) /\ h2 = Bit(h, 2) /\ h1 = Bit(h, 1) /\ h0 = Bit(h, 0)
           /\ h = DigitOf(h3, h2, h1, h0)
    BY DigitBits
  <1>2. PICK m3, m2, m1, m0 \in BitValue :
           /\ m3 = Bit(m, 3) /\ m2 = Bit(m, 2) /\ m1 = Bit(m, 1) /\ m0 = Bit(m, 0)
           /\ m = DigitOf(m3, m2, m1, m0)
    BY DigitBits
  <1>3. PICK g3, g2, g1, g0 \in BitValue :
           /\ g3 = Bit(g, 3) /\ g2 = Bit(g, 2) /\ g1 = Bit(g, 1) /\ g0 = Bit(g, 0)
           /\ g = DigitOf(g3, g2, g1, g0)
    BY DigitBits
  <1>4. PICK n3, n2, n1, n0 \in BitValue :
           /\ n3 = Bit(n, 3) /\ n2 = Bit(n, 2) /\ n1 = Bit(n, 1) /\ n0 = Bit(n, 0)
           /\ n = DigitOf(n3, n2, n1, n0)
    BY DigitBits
  <1>5. \A x \in Int : x % 2 \in BitValue
    BY SMT DEF BitValue
  <1>6. /\ Mix(h, m) = DigitOf((h3 + h2 + m3) % 2, (h2 + h1 + m2) % 2,
                               (h1 + h0 + h3 + m1) % 2, (h0 + h3 + m0) % 2)
        /\ Mix(g, n) = DigitOf((g3 + g2 + n3) % 2, (g2 + g1 + n2) % 2,
                               (g1 + g0 + g3 + n1) % 2, (g0 + g3 + n0) % 2)
    BY <1>1, <1>2, <1>3, <1>4 DEF Mix
  <1>7. /\ (h3 + h2 + m3) % 2 = (g3 + g2 + n3) % 2
        /\ (h2 + h1 + m2) % 2 = (g2 + g1 + n2) % 2
        /\ (h1 + h0 + h3 + m1) % 2 = (g1 + g0 + g3 + n1) % 2
        /\ (h0 + h3 + m0) % 2 = (g0 + g3 + n0) % 2
    <2>1. /\ (h3 + h2 + m3) % 2 \in BitValue /\ (g3 + g2 + n3) % 2 \in BitValue
          /\ (h2 + h1 + m2) % 2 \in BitValue /\ (g2 + g1 + n2) % 2 \in BitValue
          /\ (h1 + h0 + h3 + m1) % 2 \in BitValue /\ (g1 + g0 + g3 + n1) % 2 \in BitValue
          /\ (h0 + h3 + m0) % 2 \in BitValue /\ (g0 + g3 + n0) % 2 \in BitValue
      BY SMT DEF BitValue
    <2>2. DigitOf((h3 + h2 + m3) % 2, (h2 + h1 + m2) % 2,
                  (h1 + h0 + h3 + m1) % 2, (h0 + h3 + m0) % 2)
            = DigitOf((g3 + g2 + n3) % 2, (g2 + g1 + n2) % 2,
                      (g1 + g0 + g3 + n1) % 2, (g0 + g3 + n0) % 2)
      BY <1>6
    <2> QED BY <2>1, <2>2, SameBits
  <1>8. CASE h = g
    <2>1. h3 = g3 /\ h2 = g2 /\ h1 = g1 /\ h0 = g0
      BY <1>1, <1>3, <1>8
    <2>2. m3 = n3 /\ m2 = n2 /\ m1 = n1 /\ m0 = n0
      BY <1>7, <2>1, SMT DEF BitValue
    <2> QED BY <1>2, <1>4, <1>8, <2>2
  <1>9. CASE m = n
    <2>1. m3 = n3 /\ m2 = n2 /\ m1 = n1 /\ m0 = n0
      BY <1>2, <1>4, <1>9
    <2>2. h1 = g1
      BY <1>7, <2>1, SMT DEF BitValue
    <2>3. h2 = g2
      BY <1>7, <2>1, <2>2, SMT DEF BitValue
    <2>4. h3 = g3
      BY <1>7, <2>1, <2>3, SMT DEF BitValue
    <2>5. h0 = g0
      BY <1>7, <2>1, <2>4, SMT DEF BitValue
    <2> QED BY <1>1, <1>3, <1>9, <2>2, <2>3, <2>4, <2>5
  <1> QED BY <1>8, <1>9

\* Eight turns take the two digits of a byte in.
LEMMA DividedDigits ==
    ASSUME NEW h \in DigitValue, NEW l \in DigitValue,
           NEW b1 \in DigitValue, NEW b0 \in DigitValue
    PROVE  Divided(4096 * h + 256 * l + (16 * b1 + b0)) = 4096 * Mix(Mix(h, l), b1) + 256 * b0
  <1>1. 16 * b1 + b0 \in 0..255 /\ 16 * b0 \in 0..255
    BY SMT DEF DigitValue
  <1>2. FourTurns(4096 * h + 256 * l + (16 * b1 + b0)) = 4096 * Mix(h, l) + 16 * (16 * b1 + b0)
    BY <1>1, FourTurnsMix
  <1>3. Mix(h, l) \in DigitValue
    BY MixDigit
  <1>4. FourTurns(4096 * Mix(h, l) + 256 * b1 + 16 * b0)
          = 4096 * Mix(Mix(h, l), b1) + 16 * (16 * b0)
    BY <1>1, <1>3, FourTurnsMix
  <1>5. 4096 * Mix(h, l) + 16 * (16 * b1 + b0) = 4096 * Mix(h, l) + 256 * b1 + 16 * b0
    BY <1>3, SMT DEF DigitValue
  <1>6. 16 * (16 * b0) = 256 * b0
    BY SMT DEF DigitValue
  <1> QED BY <1>2, <1>4, <1>5, <1>6 DEF Divided

\* The remainders of a stream of digits.
CrcOf(w, rem) ==
    [i \in 0..31 |-> IF i = 0 THEN 0 ELSE Mix(rem[i - 1], PromDigit(w, i - 1))]

\* The remainders of the datasheet's CRC of w.
CrcRem(w) == CHOOSE rem : rem = CrcOf(w, rem)

\* The first n of them.
FirstRems(w, rem, n) ==
    /\ rem \in [0..31 -> DigitValue] /\ rem[0] = 0
    /\ \A i \in 1..n : rem[i] = Mix(rem[i - 1], PromDigit(w, i - 1))

\* The words of a PROM consist of digits.
LEMMA PromDigits ==
    ASSUME NEW w \in [PromWords -> Nat]
    PROVE  \A i \in 0..31 : PromDigit(w, i) \in DigitValue
  <1>1. ASSUME NEW i \in 1..27 PROVE PromDigit(w, i) \in DigitValue
    <2>1. i \div 4 \in PromWords
      BY SMT DEF PromWords
    <2>2. w[i \div 4] \in Nat
      BY <2>1
    <2>3. <<4096, 256, 16, 1>>[(i % 4) + 1] \in Nat \ {0}
      <3>1. i % 4 = 0 \/ i % 4 = 1 \/ i % 4 = 2 \/ i % 4 = 3
        BY SMT
      <3> QED BY <3>1
    <2>4. \A x \in Nat, y \in Nat \ {0} : (x \div y) % 16 \in 0..15
      BY SMT
    <2> DEFINE x == w[i \div 4]
               y == <<4096, 256, 16, 1>>[(i % 4) + 1]
    <2>5. PromDigit(w, i) = (x \div y) % 16
      BY DEF PromDigit
    <2> HIDE DEF x, y
    <2> QED BY <2>2, <2>3, <2>4, <2>5 DEF DigitValue, x, y
  <1>2. ASSUME NEW i \in 0..31, i \notin 1..27 PROVE PromDigit(w, i) \in DigitValue
    BY <1>2 DEF PromDigit, DigitValue
  <1> QED BY <1>1, <1>2

\* Such remainders exist, and each is the remainder of the one before.
LEMMA CrcRemSteps ==
    ASSUME NEW w \in [PromWords -> Nat]
    PROVE  /\ FirstRems(w, CrcRem(w), 31)
           /\ Crc4(w) = CrcRem(w)[31]
  <1> DEFINE Bad == {n \in 0..31 : \A rem : ~ FirstRems(w, rem, n)}
  <1>1. Bad = {}
    <2> SUFFICES ASSUME Bad # {} PROVE FALSE
      OBVIOUS
    <2>0. Bad \in SUBSET Nat
      OBVIOUS
    <2> HIDE DEF Bad
    <2>1. PICK n \in Bad : \A m \in Bad : n <= m
      BY <2>0, Least
    <2> USE DEF Bad
    <2>2. CASE n = 0
      <3>1. FirstRems(w, [i \in 0..31 |-> 0], 0)
        BY DEF FirstRems, DigitValue
      <3> QED BY <2>1, <2>2, <3>1
    <2>3. CASE n # 0
      <3>1. n \in 1..31 /\ n - 1 \in 0..31 /\ n - 1 \notin Bad
        BY <2>1, <2>3
      <3>2. PICK rem : FirstRems(w, rem, n - 1)
        BY <3>1
      <3> DEFINE d == Mix(rem[n - 1], PromDigit(w, n - 1))
                 rem2 == [rem EXCEPT ![n] = d]
      <3>3. d \in DigitValue
        <4>1. rem[n - 1] \in DigitValue /\ PromDigit(w, n - 1) \in DigitValue
          BY <3>1, <3>2, PromDigits DEF FirstRems
        <4> QED BY <4>1, MixDigit
      <3> HIDE DEF d
      <3>4. rem2 \in [0..31 -> DigitValue] /\ rem2[n] = d
            /\ \A i \in 0..31 : i # n => rem2[i] = rem[i]
        BY <3>1, <3>2, <3>3 DEF FirstRems
      <3> HIDE DEF rem2
      <3>5. \A i \in 1..n : rem2[i] = Mix(rem2[i - 1], PromDigit(w, i - 1))
        <4>1. ASSUME NEW i \in 1..n PROVE rem2[i] = Mix(rem2[i - 1], PromDigit(w, i - 1))
          <5>1. i \in 0..31 /\ i - 1 \in 0..31 /\ i - 1 # n /\ rem2[i - 1] = rem[i - 1]
            BY <3>1, <3>4
          <5>2. CASE i = n
            BY <3>4, <5>1, <5>2 DEF d
          <5>3. CASE i # n
            <6>1. i \in 1..(n - 1)
              BY <3>1, <5>3
            <6> QED BY <3>2, <3>4, <5>1, <5>3, <6>1 DEF FirstRems
          <5> QED BY <5>2, <5>3
        <4> QED BY <4>1
      <3>6. FirstRems(w, rem2, n)
        <4>1. rem2[0] = 0
          BY <3>1, <3>2, <3>4 DEF FirstRems
        <4> QED BY <3>4, <3>5, <4>1 DEF FirstRems
      <3> QED BY <2>1, <3>6
    <2> QED BY <2>2, <2>3
  <1>2. PICK r : FirstRems(w, r, 31)
    BY <1>1
  <1>3. r = CrcOf(w, r)
    BY <1>2 DEF FirstRems, CrcOf
  <1>4. CrcRem(w) = CrcOf(w, CrcRem(w))
    BY <1>3, Zenon DEF CrcRem
  <1> DEFINE q == CrcRem(w)
  <1>5. q = [i \in 0..31 |-> IF i = 0 THEN 0 ELSE Mix(q[i - 1], PromDigit(w, i - 1))]
    BY <1>4, Zenon DEF CrcOf
  <1>6. q[0] = 0 /\ \A i \in 1..31 : q[i] = Mix(q[i - 1], PromDigit(w, i - 1))
    <2> HIDE DEF q
    <2> QED BY <1>5
  <1>7. Crc4(w) = q[31]
    BY Zenon DEF Crc4, CrcRem, CrcOf
  <1> HIDE DEF q
  <1> DEFINE Off == {n \in 0..31 : q[n] # r[n]}
  <1>8. Off = {}
    <2> SUFFICES ASSUME Off # {} PROVE FALSE
      OBVIOUS
    <2>0. Off \in SUBSET Nat
      OBVIOUS
    <2> HIDE DEF Off
    <2>1. PICK n \in Off : \A m \in Off : n <= m
      BY <2>0, Least
    <2>2. n \in 0..31 /\ q[n] # r[n] /\ \A m \in 0..31 : m < n => q[m] = r[m]
      BY <2>1 DEF Off
    <2>3. n # 0
      BY <1>2, <1>6, <2>2 DEF FirstRems
    <2>4. n \in 1..31 /\ n - 1 \in 0..31 /\ n - 1 < n
      BY <2>2, <2>3
    <2>5. q[n - 1] = r[n - 1]
      BY <2>2, <2>4
    <2>6. q[n] = Mix(q[n - 1], PromDigit(w, n - 1)) /\ r[n] = Mix(r[n - 1], PromDigit(w, n - 1))
      BY <1>2, <1>6, <2>4 DEF FirstRems
    <2> QED BY <2>2, <2>5, <2>6
  <1>9. q = r
    BY <1>2, <1>5, <1>8 DEF FirstRems
  <1> QED BY <1>2, <1>7, <1>9 DEF q

\* A word of sixteen bits.
Word(x) == x \in Nat /\ x <= 65535

\* The digit j of a word.
WordDigit(x, j) == (x \div <<4096, 256, 16, 1>>[j + 1]) % 16

\* The four digits of a word.
LEMMA FourDigits ==
    \A x : /\ WordDigit(x, 0) = (x \div 4096) % 16 /\ WordDigit(x, 1) = (x \div 256) % 16
           /\ WordDigit(x, 2) = (x \div 16) % 16 /\ WordDigit(x, 3) = (x \div 1) % 16
  BY DEF WordDigit

\* The powers of two below 2^16.
LEMMA Powers16 ==
    \A b :
        /\ b = 0 => 2^b = 1
        /\ b = 1 => 2^b = 2
        /\ b = 2 => 2^b = 4
        /\ b = 3 => 2^b = 8
        /\ b = 4 => 2^b = 16
        /\ b = 5 => 2^b = 32
        /\ b = 6 => 2^b = 64
        /\ b = 7 => 2^b = 128
        /\ b = 8 => 2^b = 256
        /\ b = 9 => 2^b = 512
        /\ b = 10 => 2^b = 1024
        /\ b = 11 => 2^b = 2048
        /\ b = 12 => 2^b = 4096
        /\ b = 13 => 2^b = 8192
        /\ b = 14 => 2^b = 16384
        /\ b = 15 => 2^b = 32768
  <1>0. \A b : b = 0 => 2^b = 1 BY SMT
  <1>1. \A b : b = 1 => 2^b = 2 BY SMT
  <1>2. \A b : b = 2 => 2^b = 4 BY SMT
  <1>3. \A b : b = 3 => 2^b = 8 BY SMT
  <1>4. \A b : b = 4 => 2^b = 16 BY SMT
  <1>5. \A b : b = 5 => 2^b = 32 BY SMT
  <1>6. \A b : b = 6 => 2^b = 64 BY SMT
  <1>7. \A b : b = 7 => 2^b = 128 BY SMT
  <1>8. \A b : b = 8 => 2^b = 256 BY SMT
  <1>9. \A b : b = 9 => 2^b = 512 BY SMT
  <1>10. \A b : b = 10 => 2^b = 1024 BY SMT
  <1>11. \A b : b = 11 => 2^b = 2048 BY SMT
  <1>12. \A b : b = 12 => 2^b = 4096 BY SMT
  <1>13. \A b : b = 13 => 2^b = 8192 BY SMT
  <1>14. \A b : b = 14 => 2^b = 16384 BY SMT
  <1>15. \A b : b = 15 => 2^b = 32768 BY SMT
  <1> QED BY <1>0, <1>1, <1>2, <1>3, <1>4, <1>5, <1>6, <1>7, <1>8, <1>9, <1>10, <1>11, <1>12, <1>13, <1>14, <1>15, SMT

\* Toggling the bit of weight e of a word.
Toggled(x, e) == IF (x \div e) % 2 = 1 THEN x - e ELSE x + e

\* The word differs from x in its digit d alone.
OneDigit(x, y, d) ==
    Word(y) /\ \A j \in 0..3 : WordDigit(x, j) = WordDigit(y, j) <=> j # d

\* A toggled bit changes the digit that it belongs to, and no other.
LEMMA ToggledDigit ==
    ASSUME NEW x, Word(x), NEW b \in 0..15
    PROVE  OneDigit(x, Toggle(x, b), 3 - (b \div 4))
  <1>1. ASSUME NEW e \in {4096, 8192, 16384, 32768} PROVE OneDigit(x, Toggled(x, e), 0)
    <2>1. Word(Toggled(x, e))
      BY SMT DEF Word, Toggled
    <2>2. /\ (x \div 4096) % 16 # (Toggled(x, e) \div 4096) % 16
          /\ (x \div 256) % 16 = (Toggled(x, e) \div 256) % 16
          /\ (x \div 16) % 16 = (Toggled(x, e) \div 16) % 16
          /\ (x \div 1) % 16 = (Toggled(x, e) \div 1) % 16
      <3>1. CASE e = 4096
        BY <3>1, SMT DEF Word, Toggled
      <3>2. CASE e = 8192
        BY <3>2, SMT DEF Word, Toggled
      <3>3. CASE e = 16384
        BY <3>3, SMT DEF Word, Toggled
      <3>4. CASE e = 32768
        BY <3>4, SMT DEF Word, Toggled
      <3> QED BY <3>1, <3>2, <3>3, <3>4
    <2> QED BY <2>1, <2>2, FourDigits DEF OneDigit
  <1>2. ASSUME NEW e \in {256, 512, 1024, 2048} PROVE OneDigit(x, Toggled(x, e), 1)
    <2>1. Word(Toggled(x, e))
      BY SMT DEF Word, Toggled
    <2>2. /\ (x \div 4096) % 16 = (Toggled(x, e) \div 4096) % 16
          /\ (x \div 256) % 16 # (Toggled(x, e) \div 256) % 16
          /\ (x \div 16) % 16 = (Toggled(x, e) \div 16) % 16
          /\ (x \div 1) % 16 = (Toggled(x, e) \div 1) % 16
      <3>1. CASE e = 256
        BY <3>1, SMT DEF Word, Toggled
      <3>2. CASE e = 512
        BY <3>2, SMT DEF Word, Toggled
      <3>3. CASE e = 1024
        BY <3>3, SMT DEF Word, Toggled
      <3>4. CASE e = 2048
        BY <3>4, SMT DEF Word, Toggled
      <3> QED BY <3>1, <3>2, <3>3, <3>4
    <2> QED BY <2>1, <2>2, FourDigits DEF OneDigit
  <1>3. ASSUME NEW e \in {16, 32, 64, 128} PROVE OneDigit(x, Toggled(x, e), 2)
    <2>1. Word(Toggled(x, e))
      BY SMT DEF Word, Toggled
    <2>2. /\ (x \div 4096) % 16 = (Toggled(x, e) \div 4096) % 16
          /\ (x \div 256) % 16 = (Toggled(x, e) \div 256) % 16
          /\ (x \div 16) % 16 # (Toggled(x, e) \div 16) % 16
          /\ (x \div 1) % 16 = (Toggled(x, e) \div 1) % 16
      <3>1. CASE e = 16
        BY <3>1, SMT DEF Word, Toggled
      <3>2. CASE e = 32
        BY <3>2, SMT DEF Word, Toggled
      <3>3. CASE e = 64
        BY <3>3, SMT DEF Word, Toggled
      <3>4. CASE e = 128
        BY <3>4, SMT DEF Word, Toggled
      <3> QED BY <3>1, <3>2, <3>3, <3>4
    <2> QED BY <2>1, <2>2, FourDigits DEF OneDigit
  <1>4. ASSUME NEW e \in {1, 2, 4, 8} PROVE OneDigit(x, Toggled(x, e), 3)
    <2>1. Word(Toggled(x, e))
      BY SMT DEF Word, Toggled
    <2>2. /\ (x \div 4096) % 16 = (Toggled(x, e) \div 4096) % 16
          /\ (x \div 256) % 16 = (Toggled(x, e) \div 256) % 16
          /\ (x \div 16) % 16 = (Toggled(x, e) \div 16) % 16
          /\ (x \div 1) % 16 # (Toggled(x, e) \div 1) % 16
      <3>1. CASE e = 1
        BY <3>1, SMT DEF Word, Toggled
      <3>2. CASE e = 2
        BY <3>2, SMT DEF Word, Toggled
      <3>3. CASE e = 4
        BY <3>3, SMT DEF Word, Toggled
      <3>4. CASE e = 8
        BY <3>4, SMT DEF Word, Toggled
      <3> QED BY <3>1, <3>2, <3>3, <3>4
    <2> QED BY <2>1, <2>2, FourDigits DEF OneDigit
  <1>5. Toggle(x, b) = Toggled(x, 2^b)
    BY DEF Toggle, Toggled
  <1>6. CASE b \in 12..15
    <2>1. b \div 4 = 3
      BY <1>6, SMT
    <2>2. b = 12 \/ b = 13 \/ b = 14 \/ b = 15
      BY <1>6
    <2>3. 2^b \in {4096, 8192, 16384, 32768}
      BY <2>2, Powers16, SMT
    <2> QED BY <1>1, <1>5, <2>1, <2>3
  <1>7. CASE b \in 8..11
    <2>1. b \div 4 = 2
      BY <1>7, SMT
    <2>2. b = 8 \/ b = 9 \/ b = 10 \/ b = 11
      BY <1>7
    <2>3. 2^b \in {256, 512, 1024, 2048}
      BY <2>2, Powers16, SMT
    <2> QED BY <1>2, <1>5, <2>1, <2>3
  <1>8. CASE b \in 4..7
    <2>1. b \div 4 = 1
      BY <1>8, SMT
    <2>2. b = 4 \/ b = 5 \/ b = 6 \/ b = 7
      BY <1>8
    <2>3. 2^b \in {16, 32, 64, 128}
      BY <2>2, Powers16, SMT
    <2> QED BY <1>3, <1>5, <2>1, <2>3
  <1>9. CASE b \in 0..3
    <2>1. b \div 4 = 0
      BY <1>9, SMT
    <2>2. b = 0 \/ b = 1 \/ b = 2 \/ b = 3
      BY <1>9
    <2>3. 2^b \in {1, 2, 4, 8}
      BY <2>2, Powers16, SMT
    <2> QED BY <1>4, <1>5, <2>1, <2>3
  <1> QED BY <1>6, <1>7, <1>8, <1>9


\* The CRC is a function of the 27 digits behind it.
LEMMA SameCrc ==
    ASSUME NEW w \in [PromWords -> Nat], NEW v \in [PromWords -> Nat],
           \A i \in 1..27 : PromDigit(w, i) = PromDigit(v, i)
    PROVE  Crc4(w) = Crc4(v)
  <1>1. PICK q : q = CrcRem(w) /\ FirstRems(w, q, 31) /\ Crc4(w) = q[31]
    BY CrcRemSteps
  <1>2. PICK r : r = CrcRem(v) /\ FirstRems(v, r, 31) /\ Crc4(v) = r[31]
    BY CrcRemSteps
  <1>3. \A i \in 0..31 : PromDigit(w, i) = PromDigit(v, i)
    <2>1. \A i : i \notin 1..27 => PromDigit(w, i) = 0 /\ PromDigit(v, i) = 0
      BY DEF PromDigit
    <2> QED BY <2>1
  <1> DEFINE Off == {n \in 0..31 : q[n] # r[n]}
  <1>4. Off = {}
    <2> SUFFICES ASSUME Off # {} PROVE FALSE
      OBVIOUS
    <2>0. Off \in SUBSET Nat
      OBVIOUS
    <2> HIDE DEF Off
    <2>1. PICK n \in Off : \A m \in Off : n <= m
      BY <2>0, Least
    <2>2. n \in 0..31 /\ q[n] # r[n] /\ \A m \in 0..31 : m < n => q[m] = r[m]
      BY <2>1 DEF Off
    <2>3. n # 0
      BY <1>1, <1>2, <2>2 DEF FirstRems
    <2>4. n \in 1..31 /\ n - 1 \in 0..31 /\ n - 1 < n
      BY <2>2, <2>3
    <2>5. q[n - 1] = r[n - 1] /\ PromDigit(w, n - 1) = PromDigit(v, n - 1)
      BY <1>3, <2>2, <2>4
    <2>6. q[n] = Mix(q[n - 1], PromDigit(w, n - 1)) /\ r[n] = Mix(r[n - 1], PromDigit(v, n - 1))
      BY <1>1, <1>2, <2>4 DEF FirstRems
    <2> QED BY <2>2, <2>5, <2>6
  <1> QED BY <1>1, <1>2, <1>4

\* The CRC tells PROMs apart that differ in one digit: the remainders are the
\* same up to that digit, and differ after it.
LEMMA DigitMatters ==
    ASSUME NEW w \in [PromWords -> Nat], NEW v \in [PromWords -> Nat], NEW d \in 1..27,
           \A i \in 1..27 : PromDigit(w, i) = PromDigit(v, i) <=> i # d
    PROVE  Crc4(w) # Crc4(v)
  <1>1. PICK q : q = CrcRem(w) /\ FirstRems(w, q, 31) /\ Crc4(w) = q[31]
    BY CrcRemSteps
  <1>2. PICK r : r = CrcRem(v) /\ FirstRems(v, r, 31) /\ Crc4(v) = r[31]
    BY CrcRemSteps
  <1>3. \A i \in 0..31 : PromDigit(w, i) = PromDigit(v, i) <=> i # d
    <2> TAKE i \in 0..31
    <2>1. CASE i \in 1..27
      BY <2>1
    <2>2. CASE i \notin 1..27
      <3>1. i # d /\ i \notin 1..27 /\ (i = 0 \/ i > 27)
        BY <2>2
      <3>2. PromDigit(w, i) = 0 /\ PromDigit(v, i) = 0
        BY <3>1 DEF PromDigit
      <3> QED BY <3>1, <3>2
    <2> QED BY <2>1, <2>2
  <1>4. ASSUME NEW n \in 1..31
        PROVE  /\ n - 1 \in 0..31 /\ q[n - 1] \in DigitValue /\ r[n - 1] \in DigitValue
               /\ PromDigit(w, n - 1) \in DigitValue /\ PromDigit(v, n - 1) \in DigitValue
               /\ q[n] = Mix(q[n - 1], PromDigit(w, n - 1))
               /\ r[n] = Mix(r[n - 1], PromDigit(v, n - 1))
    <2>1. n - 1 \in 0..31
      OBVIOUS
    <2> QED BY <1>1, <1>2, <2>1, PromDigits DEF FirstRems
  <1> DEFINE Off == {n \in 0..d : q[n] # r[n]}
  <1>5. Off = {}
    <2> SUFFICES ASSUME Off # {} PROVE FALSE
      OBVIOUS
    <2>0. Off \in SUBSET Nat
      OBVIOUS
    <2> HIDE DEF Off
    <2>1. PICK n \in Off : \A m \in Off : n <= m
      BY <2>0, Least
    <2>2. n \in 0..d /\ q[n] # r[n] /\ \A m \in 0..d : m < n => q[m] = r[m]
      BY <2>1 DEF Off
    <2>3. n # 0
      BY <1>1, <1>2, <2>2 DEF FirstRems
    <2>4. n \in 1..31 /\ n - 1 \in 0..d /\ n - 1 < n /\ n - 1 # d /\ n - 1 \in 0..31
      BY <2>2, <2>3
    <2>5. q[n - 1] = r[n - 1] /\ PromDigit(w, n - 1) = PromDigit(v, n - 1)
      BY <1>3, <2>2, <2>4
    <2> QED BY <1>4, <2>2, <2>4, <2>5
  <1>6. q[d] = r[d]
    BY <1>5
  <1> DEFINE Same == {n \in (d + 1)..31 : q[n] = r[n]}
  <1>7. Same = {}
    <2> SUFFICES ASSUME Same # {} PROVE FALSE
      OBVIOUS
    <2>0. Same \in SUBSET Nat
      OBVIOUS
    <2> HIDE DEF Same
    <2>1. PICK n \in Same : \A m \in Same : n <= m
      BY <2>0, Least
    <2>2. n \in (d + 1)..31 /\ q[n] = r[n] /\ \A m \in (d + 1)..31 : m < n => q[m] # r[m]
      BY <2>1 DEF Same
    <2>3. n \in 1..31
      BY <2>2
    <2>4. Mix(q[n - 1], PromDigit(w, n - 1)) = Mix(r[n - 1], PromDigit(v, n - 1))
      BY <1>4, <2>2, <2>3
    <2>5. CASE n = d + 1
      <3>1. n - 1 = d
        BY <2>5
      <3>2. q[n - 1] = r[n - 1] /\ PromDigit(w, n - 1) # PromDigit(v, n - 1)
        BY <1>3, <1>4, <1>6, <2>3, <3>1
      <3>3. Kept(q[n - 1], PromDigit(w, n - 1), r[n - 1], PromDigit(v, n - 1))
        BY MixKeeps
      <3> QED BY <1>4, <2>3, <2>4, <3>2, <3>3 DEF Kept
    <2>6. CASE n # d + 1
      <3>1. n - 1 \in (d + 1)..31 /\ n - 1 < n /\ n - 1 # d /\ n - 1 \in 0..31
        BY <2>2, <2>6
      <3>2. q[n - 1] # r[n - 1] /\ PromDigit(w, n - 1) = PromDigit(v, n - 1)
        BY <1>3, <2>2, <3>1
      <3>3. Kept(q[n - 1], PromDigit(w, n - 1), r[n - 1], PromDigit(v, n - 1))
        BY MixKeeps
      <3> QED BY <1>4, <2>3, <2>4, <3>2, <3>3 DEF Kept
    <2> QED BY <2>5, <2>6
  <1>8. 31 \in (d + 1)..31
    OBVIOUS
  <1>9. q[31] # r[31]
    BY <1>7, <1>8
  <1> QED BY <1>1, <1>2, <1>9

\* The digits of the PROM are those of its words.
LEMMA DigitPlaces ==
    \A w, i : i \in 1..27 => PromDigit(w, i) = WordDigit(w[i \div 4], i % 4)
  BY DEF PromDigit, WordDigit

\* The first digit of a word is what the code takes for the CRC.
LEMMA FirstDigit == \A x : Word(x) => WordDigit(x, 0) = x \div 4096
  BY FourDigits, SMT DEF Word

\* A flipped bit changes one digit of one word.
LEMMA FlipWords ==
    ASSUME NEW w \in [PromWords -> Nat], \A j \in PromWords : Word(w[j]),
           NEW i \in PromWords, NEW b \in 0..15
    PROVE  /\ Flip(w, i, b) \in [PromWords -> Nat]
           /\ \A j \in PromWords : Word(Flip(w, i, b)[j])
           /\ OneDigit(w[i], Flip(w, i, b)[i], 3 - (b \div 4))
           /\ \A j \in PromWords : j # i => Flip(w, i, b)[j] = w[j]
  <1> DEFINE v == Flip(w, i, b)
             d == 3 - (b \div 4)
  <1>1. v = [w EXCEPT ![i] = Toggle(w[i], b)]
    BY DEF Flip
  <1>2. OneDigit(w[i], v[i], d) /\ \A j \in PromWords : j # i => v[j] = w[j]
    BY <1>1, ToggledDigit
  <1>3. v \in [PromWords -> Nat] /\ \A j \in PromWords : Word(v[j])
    BY <1>1, <1>2 DEF OneDigit, Word
  <1> QED BY <1>2, <1>3

\* A flipped bit leaves a PROM whose CRC is wrong.
THEOREM FlipNoticed ==
    ASSUME NEW w \in [PromWords -> Nat], \A j \in PromWords : Word(w[j]), RightCrc(w),
           NEW i \in PromWords, NEW b \in 0..15
    PROVE  /\ Flip(w, i, b) \in [PromWords -> Nat]
           /\ \A j \in PromWords : Word(Flip(w, i, b)[j])
           /\ ~ RightCrc(Flip(w, i, b))
  <1> DEFINE v == Flip(w, i, b)
             d == 3 - (b \div 4)
  <1>2. OneDigit(w[i], v[i], d) /\ \A j \in PromWords : j # i => v[j] = w[j]
    BY FlipWords
  <1>3. d \in 0..3
    BY SMT
  <1>4. v \in [PromWords -> Nat] /\ \A j \in PromWords : Word(v[j])
    BY FlipWords
  <1> HIDE DEF v, d
  <1>5. \A n \in 1..27 : n \div 4 \in PromWords /\ n % 4 \in 0..3 /\ n = 4 * (n \div 4) + (n % 4)
    BY SMT DEF PromWords
  <1>6. \A n \in 1..27 : PromDigit(w, n) = PromDigit(v, n) <=> n # 4 * i + d
    <2> TAKE n \in 1..27
    <2>1. PICK j, m : j = n \div 4 /\ m = n % 4
      OBVIOUS
    <2>2. j \in PromWords /\ m \in 0..3 /\ n = 4 * j + m
      BY <1>5, <2>1
    <2>3. PromDigit(w, n) = WordDigit(w[j], m) /\ PromDigit(v, n) = WordDigit(v[j], m)
      BY <2>1, DigitPlaces
    <2>4. CASE j = i
      <3>1. WordDigit(w[j], m) = WordDigit(v[j], m) <=> m # d
        BY <1>2, <2>2, <2>4 DEF OneDigit
      <3>2. m # d <=> n # 4 * i + d
        BY <1>3, <2>2, <2>4, SMT DEF PromWords
      <3> QED BY <2>3, <3>1, <3>2
    <2>5. CASE j # i
      <3>1. WordDigit(w[j], m) = WordDigit(v[j], m)
        BY <1>2, <2>2, <2>5
      <3>2. n # 4 * i + d
        BY <1>3, <2>2, <2>5, SMT DEF PromWords
      <3> QED BY <2>3, <3>1, <3>2
    <2> QED BY <2>4, <2>5
  <1>7. 0 \in PromWords
    BY DEF PromWords
  <1>8. /\ WordDigit(w[0], 0) = w[0] \div 4096
        /\ WordDigit(v[0], 0) = v[0] \div 4096
    BY <1>4, <1>7, FirstDigit
  <1>9. CASE i = 0 /\ d = 0
    <2>1. \A n \in 1..27 : PromDigit(w, n) = PromDigit(v, n)
      BY <1>6, <1>9
    <2>2. Crc4(w) = Crc4(v)
      BY <1>4, <2>1, SameCrc
    <2>3. WordDigit(w[0], 0) # WordDigit(v[0], 0)
      BY <1>2, <1>9 DEF OneDigit
    <2>4. ~ RightCrc(v)
      BY <1>8, <2>2, <2>3 DEF RightCrc
    <2> QED BY <1>4, <2>4 DEF v
  <1>10. CASE ~ (i = 0 /\ d = 0)
    <2>1. 4 * i + d \in 1..27
      BY <1>3, <1>10, SMT DEF PromWords
    <2>2. Crc4(w) # Crc4(v)
      BY <1>4, <1>6, <2>1, DigitMatters
    <2>3. WordDigit(w[0], 0) = WordDigit(v[0], 0)
      BY <1>2, <1>3, <1>7, <1>10 DEF OneDigit
    <2>4. ~ RightCrc(v)
      BY <1>8, <2>2, <2>3 DEF RightCrc
    <2> QED BY <1>4, <2>4 DEF v
  <1> QED BY <1>9, <1>10

\* The words of a sensor that is not there, all ones, have a wrong CRC.
AllOnes == [i \in PromWords |-> 2^16 - 1]

\* The CRC of all ones is not their CRC digit.
LEMMA OnesRefused ==
    /\ AllOnes \in [PromWords -> Nat] /\ \A j \in PromWords : Word(AllOnes[j])
    /\ ~ RightCrc(AllOnes)
  <1> DEFINE w == AllOnes
  <1>0. PICK x : x = 2^16 - 1 /\ Word(x)
    BY SMT DEF Word
  <1>1. w \in [PromWords -> Nat] /\ \A j \in PromWords : w[j] = x /\ Word(w[j])
    <2>1. w = [i \in PromWords |-> x]
      BY <1>0, Zenon DEF AllOnes
    <2>2. x \in Nat
      BY <1>0 DEF Word
    <2> HIDE DEF w
    <2> QED BY <1>0, <2>1, <2>2, Zenon
  <1>2. \A j \in 0..3 : WordDigit(x, j) = 15
    <2>1. /\ (x \div 4096) % 16 = 15 /\ (x \div 256) % 16 = 15
          /\ (x \div 16) % 16 = 15 /\ (x \div 1) % 16 = 15
      BY <1>0, SMT
    <2> QED BY <2>1, FourDigits
  <1> HIDE DEF w
  <1>3. \A i \in 1..27 : PromDigit(w, i) = 15
    <2> TAKE i \in 1..27
    <2>1. i \div 4 \in PromWords /\ i % 4 \in 0..3
      BY SMT DEF PromWords
    <2> QED BY <1>1, <1>2, <2>1, DigitPlaces
  <1>4. PromDigit(w, 0) = 0 /\ \A i \in 28..31 : PromDigit(w, i) = 0
    BY DEF PromDigit
  <1>5. PICK r : FirstRems(w, r, 31) /\ Crc4(w) = r[31]
    BY <1>1, CrcRemSteps
  <1>6. /\ Mix(0, 0) = 0
        /\ Mix(0, 15) = 15
        /\ Mix(15, 15) = 13
        /\ Mix(13, 15) = 11
        /\ Mix(11, 15) = 1
        /\ Mix(1, 15) = 12
        /\ Mix(12, 15) = 8
        /\ Mix(8, 15) = 4
        /\ Mix(4, 15) = 3
        /\ Mix(3, 15) = 10
        /\ Mix(10, 15) = 2
        /\ Mix(2, 15) = 9
        /\ Mix(9, 15) = 7
        /\ Mix(7, 15) = 6
        /\ Mix(6, 15) = 5
        /\ Mix(5, 15) = 0
        /\ Mix(7, 0) = 9
        /\ Mix(9, 0) = 8
        /\ Mix(8, 0) = 11
    BY SMT DEF Mix, DigitOf, Bit
  <1>7. /\ r[0] = 0 /\ r[1] = Mix(r[0], 0)
        /\ \A i \in 2..28 : r[i] = Mix(r[i - 1], 15)
        /\ \A i \in 29..31 : r[i] = Mix(r[i - 1], 0)
    <2>1. r[0] = 0 /\ \A i \in 1..31 : r[i] = Mix(r[i - 1], PromDigit(w, i - 1))
      BY <1>5 DEF FirstRems
    <2> QED BY <1>3, <1>4, <2>1
  <1>8. r[31] = 11
    <2>1. r[1] = 0 /\ r[2] = 15 /\ r[3] = 13 /\ r[4] = 11
      BY <1>6, <1>7
    <2>2. r[5] = 1 /\ r[6] = 12 /\ r[7] = 8 /\ r[8] = 4
      BY <1>6, <1>7, <2>1
    <2>3. r[9] = 3 /\ r[10] = 10 /\ r[11] = 2 /\ r[12] = 9
      BY <1>6, <1>7, <2>2
    <2>4. r[13] = 7 /\ r[14] = 6 /\ r[15] = 5 /\ r[16] = 0
      BY <1>6, <1>7, <2>3
    <2>5. r[17] = 15 /\ r[18] = 13 /\ r[19] = 11 /\ r[20] = 1
      BY <1>6, <1>7, <2>4
    <2>6. r[21] = 12 /\ r[22] = 8 /\ r[23] = 4 /\ r[24] = 3
      BY <1>6, <1>7, <2>5
    <2>7. r[25] = 10 /\ r[26] = 2 /\ r[27] = 9 /\ r[28] = 7
      BY <1>6, <1>7, <2>6
    <2>8. r[29] = 9 /\ r[30] = 8 /\ r[31] = 11
      BY <1>6, <1>7, <2>7
    <2> QED BY <2>8
  <1>9. w[0] \div 4096 = 15
    <2>1. w[0] = x
      BY <1>1 DEF PromWords
    <2> QED BY <1>0, <2>1, SMT
  <1>10. ~ RightCrc(w)
    BY <1>5, <1>8, <1>9 DEF RightCrc
  <1> QED BY <1>1, <1>10 DEF w

\* The words of a PROM.
PromValue(w) == w \in [PromWords -> Nat] /\ \A j \in PromWords : Word(w[j])

\* What _crc4 works on: the words without the CRC.
Masked(w) == [w EXCEPT ![0] = @ % 2^12]

\* _crc4 clears the first digit, which the CRC does not depend on.
LEMMA MaskedWords ==
    ASSUME NEW w, PromValue(w)
    PROVE  PromValue(Masked(w)) /\ Masked(w)[0] < 4096 /\ Crc4(Masked(w)) = Crc4(w)
  <1>1. PICK x : x = w[0] /\ Word(x)
    BY DEF PromValue, PromWords
  <1>2. PICK y : y = x % 2^12 /\ y = x % 4096
    BY SMT
  <1>3. Word(y) /\ y < 4096
    BY <1>1, <1>2, SMT DEF Word
  <1>4. /\ (x \div 256) % 16 = (y \div 256) % 16 /\ (x \div 16) % 16 = (y \div 16) % 16
        /\ (x \div 1) % 16 = (y \div 1) % 16
    BY <1>1, <1>2, SMT DEF Word
  <1>5. \A j \in 1..3 : WordDigit(x, j) = WordDigit(y, j)
    BY <1>4, FourDigits
  <1>6. PICK v : v = Masked(w)
    OBVIOUS
  <1>7. v = [w EXCEPT ![0] = y]
    <2>1. y = w[0] % 2^12
      BY <1>1, <1>2
    <2> QED BY <1>6, <2>1 DEF Masked
  <1>8. PromValue(v) /\ v[0] = y /\ (\A j \in PromWords : j # 0 => v[j] = w[j])
    <2>1. y \in Nat
      BY <1>3 DEF Word
    <2>2. 0 \in PromWords /\ w \in [PromWords -> Nat]
      BY DEF PromValue, PromWords
    <2>3. v \in [PromWords -> Nat] /\ v[0] = y /\ \A j \in PromWords : j # 0 => v[j] = w[j]
      BY <1>7, <2>1, <2>2
    <2> QED BY <1>3, <2>3 DEF PromValue
  <1>9. \A i \in 1..27 : PromDigit(w, i) = PromDigit(v, i)
    <2> TAKE i \in 1..27
    <2>1. PromDigit(w, i) = WordDigit(w[i \div 4], i % 4) /\ PromDigit(v, i) = WordDigit(v[i \div 4], i % 4)
      BY DigitPlaces
    <2>2. i \div 4 \in PromWords /\ (i \div 4 = 0 => i % 4 \in 1..3)
      BY SMT DEF PromWords
    <2>3. CASE i \div 4 = 0
      BY <1>1, <1>5, <1>8, <2>1, <2>2, <2>3
    <2>4. CASE i \div 4 # 0
      BY <1>8, <2>1, <2>2, <2>4
    <2> QED BY <2>3, <2>4
  <1>10. Crc4(w) = Crc4(v)
    BY <1>8, <1>9, SameCrc DEF PromValue
  <1> QED BY <1>3, <1>6, <1>8, <1>10

\* A byte of what _crc4 works on is made of two digits; behind the words
\* there is a zero.
LEMMA BytesOfDigits ==
    ASSUME NEW w, PromValue(w), w[0] < 4096, NEW n \in 0..15
    PROVE  ByteOf(w, n) = 16 * PromDigit(w, 2 * n) + PromDigit(w, 2 * n + 1)
  <1>1. CASE n \in 14..15
    <2>1. ByteOf(w, n) = 0
      BY <1>1 DEF ByteOf
    <2>2. PromDigit(w, 2 * n) = 0 /\ PromDigit(w, 2 * n + 1) = 0
      BY <1>1 DEF PromDigit
    <2> QED BY <2>1, <2>2
  <1>2. CASE n \in 0..13
    <2>1. PICK j \in 0..6 : j = n \div 2 /\ (n = 2 * j \/ n = 2 * j + 1)
      <3>1. n \div 2 \in 0..6 /\ (n = 2 * (n \div 2) \/ n = 2 * (n \div 2) + 1)
        BY <1>2, SMT
      <3> QED BY <3>1
    <2>2. PICK x : x = w[j] /\ Word(x)
      BY <2>1 DEF PromValue, PromWords
    <2>3. CASE n = 2 * j
      <3>1. n % 2 = 0 /\ (2 * n) \div 4 = j /\ (2 * n) % 4 = 0 /\ (2 * n + 1) \div 4 = j /\ (2 * n + 1) % 4 = 1
        BY <2>1, <2>3, SMT
      <3>2. ByteOf(w, n) = x \div 256
        <4>1. ByteOf(w, n) = w[n \div 2] \div 2^8
          BY <1>2, <3>1 DEF ByteOf
        <4>2. x \div 2^8 = x \div 256
          BY SMT
        <4> QED BY <2>1, <2>2, <4>1, <4>2
      <3>3. PromDigit(w, 2 * n + 1) = (x \div 256) % 16
        <4>1. PromDigit(w, 2 * n + 1) = WordDigit(x, 1)
          BY <1>2, <2>2, <3>1, DigitPlaces
        <4> QED BY <4>1, FourDigits
      <3>4. PromDigit(w, 2 * n) = (x \div 4096) % 16
        <4>1. CASE n = 0
          <5>1. PromDigit(w, 2 * n) = 0
            BY <4>1 DEF PromDigit
          <5>2. x < 4096
            BY <2>2, <2>3, <4>1
          <5> QED BY <2>2, <5>1, <5>2, SMT DEF Word
        <4>2. CASE n # 0
          <5>1. PromDigit(w, 2 * n) = WordDigit(x, 0)
            BY <1>2, <2>2, <3>1, <4>2, DigitPlaces
          <5> QED BY <5>1, FourDigits
        <4> QED BY <4>1, <4>2
      <3>5. x \div 256 = (16 * ((x \div 4096) % 16)) + ((x \div 256) % 16)
        BY <2>2, SMT DEF Word
      <3> QED BY <3>2, <3>3, <3>4, <3>5
    <2>4. CASE n = 2 * j + 1
      <3>1. n % 2 = 1 /\ (2 * n) \div 4 = j /\ (2 * n) % 4 = 2 /\ (2 * n + 1) \div 4 = j /\ (2 * n + 1) % 4 = 3
        BY <2>1, <2>4, SMT
      <3>2. ByteOf(w, n) = x % 256
        <4>1. ByteOf(w, n) = w[n \div 2] % 2^8
          BY <1>2, <3>1 DEF ByteOf
        <4>2. x % 2^8 = x % 256
          BY SMT
        <4> QED BY <2>1, <2>2, <4>1, <4>2
      <3>3. PromDigit(w, 2 * n) = (x \div 16) % 16 /\ PromDigit(w, 2 * n + 1) = (x \div 1) % 16
        <4>1. PromDigit(w, 2 * n) = WordDigit(x, 2) /\ PromDigit(w, 2 * n + 1) = WordDigit(x, 3)
          BY <1>2, <2>2, <2>4, <3>1, DigitPlaces
        <4> QED BY <4>1, FourDigits
      <3>5. x % 256 = (16 * ((x \div 16) % 16)) + ((x \div 1) % 16)
        BY <2>2, SMT DEF Word
      <3> QED BY <3>2, <3>3, <3>5
    <2> QED BY <2>1, <2>3, <2>4
  <1> QED BY <1>1, <1>2

\* What n bytes leave in n_rem: the remainder of their digits but the last,
\* and behind it that digit.
Rest(w, n) ==
    IF n = 0 THEN 0 ELSE 4096 * CrcRem(w)[2 * n - 1] + 256 * PromDigit(w, 2 * n - 1)

\* One byte more.
LEMMA RestSteps ==
    ASSUME NEW w, PromValue(w), w[0] < 4096, NEW n \in 0..15
    PROVE  Divided(Rest(w, n) + ByteOf(w, n)) = Rest(w, n + 1)
  <1>1. PICK r : r = CrcRem(w) /\ FirstRems(w, r, 31)
    BY CrcRemSteps DEF PromValue
  <1>2. \A i \in 0..31 : PromDigit(w, i) \in DigitValue
    BY PromDigits DEF PromValue
  <1>3. PICK b1, b0 \in DigitValue : b1 = PromDigit(w, 2 * n) /\ b0 = PromDigit(w, 2 * n + 1)
    <2>1. 2 * n \in 0..31 /\ 2 * n + 1 \in 0..31
      OBVIOUS
    <2> QED BY <1>2, <2>1
  <1>4. PICK h, l \in DigitValue :
           /\ Rest(w, n) = 4096 * h + 256 * l
           /\ r[2 * n] = Mix(h, l)
    <2>1. CASE n = 0
      <3>1. 0 \in DigitValue /\ Mix(0, 0) = 0
        BY SMT DEF DigitValue, Mix, DigitOf, Bit
      <3>2. Rest(w, n) = 4096 * 0 + 256 * 0
        BY <2>1 DEF Rest
      <3>3. r[2 * n] = Mix(0, 0)
        BY <1>1, <2>1, <3>1 DEF FirstRems
      <3> QED BY <3>1, <3>2, <3>3
    <2>2. CASE n # 0
      <3>1. 2 * n - 1 \in 0..31 /\ 2 * n \in 1..31
        BY <2>2
      <3>2. r[2 * n - 1] \in DigitValue /\ r[2 * n] = Mix(r[2 * n - 1], PromDigit(w, 2 * n - 1))
        BY <1>1, <3>1 DEF FirstRems
      <3>3. Rest(w, n) = 4096 * r[2 * n - 1] + 256 * PromDigit(w, 2 * n - 1)
        BY <1>1, <2>2 DEF Rest
      <3> QED BY <1>2, <3>1, <3>2, <3>3
    <2> QED BY <2>1, <2>2
  <1>5. ByteOf(w, n) = 16 * b1 + b0
    BY <1>3, BytesOfDigits
  <1>6. Divided(4096 * h + 256 * l + (16 * b1 + b0)) = 4096 * Mix(Mix(h, l), b1) + 256 * b0
    BY DividedDigits
  <1>7. r[2 * n + 1] = Mix(Mix(h, l), b1)
    <2>1. 2 * n + 1 \in 1..31 /\ (2 * n + 1) - 1 = 2 * n
      OBVIOUS
    <2>2. r[2 * n + 1] = Mix(r[2 * n], PromDigit(w, 2 * n))
      BY <1>1, <2>1 DEF FirstRems
    <2> QED BY <1>3, <1>4, <2>2
  <1>8. Rest(w, n + 1) = 4096 * r[2 * n + 1] + 256 * b0
    <2>1. n + 1 # 0 /\ 2 * (n + 1) - 1 = 2 * n + 1
      OBVIOUS
    <2> QED BY <1>1, <1>3, <2>1 DEF Rest
  <1>9. Rest(w, n) + ByteOf(w, n) = 4096 * h + 256 * l + (16 * b1 + b0)
    BY <1>4, <1>5
  <1> QED BY <1>6, <1>7, <1>8, <1>9

\* Sixteen bytes leave the CRC.
LEMMA RestEnds ==
    ASSUME NEW w, PromValue(w)
    PROVE  Rest(w, 16) \div 2^12 = Crc4(w)
  <1>1. PICK r : r = CrcRem(w) /\ FirstRems(w, r, 31) /\ Crc4(w) = r[31]
    BY CrcRemSteps DEF PromValue
  <1>2. Rest(w, 16) = 4096 * r[31] + 256 * 0
    <2>1. PromDigit(w, 31) = 0
      BY DEF PromDigit
    <2> QED BY <1>1, <2>1 DEF Rest
  <1>3. r[31] \in DigitValue
    BY <1>1 DEF FirstRems
  <1>4. \A x \in DigitValue : (4096 * x + 256 * 0) \div 2^12 = x
    BY SMT DEF DigitValue
  <1> QED BY <1>1, <1>2, <1>3, <1>4

\* What Setup may have read.
MayArrive(d) ==
    \/ ~ flipped /\ d = Delivered
    \/ ms_present /\ \E i \in PromWords, b \in 0..15 : d = Flip(Delivered, i, b)

\* The words the bus makes of the PROM are words; those of a sensor that is not
\* there have a wrong CRC.
GoodWords == PromValue(Delivered) /\ (~ ms_present => ~ RightCrc(Delivered))

\* A CRC that is right tells that a sensor is there; if that of the words
\* delivered is right, that they are the ones.
LEMMA CrcTells ==
    ASSUME GoodWords, NEW d, MayArrive(d)
    PROVE  /\ PromValue(d)
           /\ RightCrc(d) => ms_present /\ (d = Delivered \/ ~ RightCrc(Delivered))
  <1> HIDE DEF Delivered
  <1>1. CASE d = Delivered
    BY <1>1 DEF GoodWords
  <1>2. ASSUME ms_present, NEW i \in PromWords, NEW b \in 0..15, d = Flip(Delivered, i, b)
        PROVE  PromValue(d) /\ (RightCrc(d) => ~ RightCrc(Delivered))
    <2>1. PromValue(Delivered)
      BY DEF GoodWords
    <2>2. PromValue(d)
      BY <1>2, <2>1, FlipWords DEF PromValue
    <2>3. RightCrc(Delivered) => ~ RightCrc(d)
      BY <1>2, <2>1, FlipNoticed DEF PromValue
    <2> QED BY <2>2, <2>3
  <1> QED BY <1>1, <1>2 DEF MayArrive

\* The CRC bits that were cleared are those in want.
LEMMA Unmasked ==
    ASSUME NEW d, PromValue(d), NEW m, m = Masked(d), NEW v, v = d[0] \div 2^12
    PROVE  [m EXCEPT ![0] = v * 4096 + m[0]] = d
  <1>1. d \in [PromWords -> Nat] /\ 0 \in PromWords
    BY DEF PromValue, PromWords
  <1>2. m = [d EXCEPT ![0] = d[0] % 2^12]
    BY DEF Masked
  <1>3. \A x \in Nat : (x \div 2^12) * 4096 + (x % 2^12) = x
    BY SMT
  <1>4. v * 4096 + m[0] = d[0]
    BY <1>1, <1>2, <1>3
  <1>5. [m EXCEPT ![0] = d[0]] = d
    BY <1>1, <1>2
  <1> QED BY <1>4, <1>5

\* Where ms5837Setup stands: the words it took are those that arrived, and
\* bytes so far divided, the remainder is that of the datasheet's CRC.
CrcInv ==
    /\ GoodWords
    /\ ms_pc \in {"calib", "check", "crc", "ready", "absent"}
    /\ ms_pc = "calib" => ~ flipped
    /\ ms_pc = "check" => MayArrive(c) /\ crc = c[0] \div 2^12
    /\ ms_pc = "crc" =>
         /\ cnt \in 0..16
         /\ \E d : /\ MayArrive(d)
                   /\ c = Masked(d)
                   /\ want = d[0] \div 2^12
         /\ n_rem = Rest(c, cnt)
    /\ AcceptedByCrc

\* Before Setup nothing has arrived.
LEMMA CrcInit == Start_Init => CrcInv
  <1> SUFFICES ASSUME Start_Init PROVE CrcInv
    OBVIOUS
  <1>1. \A j \in PromWords : Word(IF ms_present THEN Swapped(prom[j]) ELSE 2^16 - 1)
    <2> TAKE j \in PromWords
    <2>1. CASE ms_present
      <3>1. prom \in [PromWords -> 0..(2^16 - 1)]
        BY <2>1, BoardsAssumption, Zenon DEF Start_Init
      <3>2. prom[j] \in 0..(2^16 - 1)
        BY <3>1, Zenon
      <3>3. \A v : v \in 0..(2^16 - 1) => Word((v % 256) * 256 + v \div 256)
        BY SMT DEF Word
      <3> QED BY <2>1, <3>2, <3>3, Zenon DEF Swapped
    <2>2. CASE ~ ms_present
      <3>1. Word(2^16 - 1)
        BY SMT DEF Word
      <3> QED BY <2>2, <3>1, Zenon
    <2> QED BY <2>1, <2>2
  <1>2. PromValue(Delivered)
    <2>1. \A w : w = [j \in PromWords |-> w[j]] /\ (\A j \in PromWords : Word(w[j])) => PromValue(w)
      BY DEF PromValue, Word
    <2>2. \A j \in PromWords : Word(Delivered[j])
      BY <1>1, Zenon DEF Delivered
    <2>3. Delivered = [j \in PromWords |-> Delivered[j]]
      BY Zenon DEF Delivered
    <2> QED BY <2>1, <2>2, <2>3, Zenon
  <1>3. ~ ms_present => ~ RightCrc(Delivered)
    <2>1. ~ ms_present => Delivered = AllOnes
      BY Zenon DEF Delivered, AllOnes
    <2> QED BY <2>1, OnesRefused
  <1>4. flipped = FALSE /\ ms_pc = "calib"
    BY DEF Start_Init, Ms_Init
  <1> HIDE DEF Start_Init
  <1> QED BY <1>2, <1>3, <1>4 DEF CrcInv, GoodWords, AcceptedByCrc

\* Every step of ms5837Setup, of the bus and of the other driver keeps what the
\* remainder stands for.
LEMMA CrcInvStep == CrcInv /\ [Start_Next]_sensorVars => CrcInv'
  <1> SUFFICES ASSUME CrcInv, [Start_Next]_sensorVars PROVE CrcInv'
    OBVIOUS
  <1>0. ms_present' = ms_present /\ Delivered' = Delivered /\ GoodWords'
    <2>1. ms_present' = ms_present /\ prom' = prom
      BY MsStep DEF Ms_Setup, Ms_Setup_Calib, Crc_Start, Crc_Byte, Ms_Setup_Check,
         ms5837_myDigitalRead, msVars, ms_chip
    <2>2. Delivered' = Delivered
      BY <2>1 DEF Delivered
    <2> QED BY <2>1, <2>2 DEF CrcInv, GoodWords
  <1>1. CASE Ms_Setup_Calib
    <2>1. ms_pc' = "check" /\ crc' = c'[0] \div 2^12
      BY <1>1 DEF Ms_Setup_Calib
    <2>2. MayArrive(c)'
      <3>1. ~ flipped
        BY <1>1 DEF Ms_Setup_Calib, CrcInv
      <3>2. CASE c' = Delivered /\ UNCHANGED flipped
        BY <1>0, <3>1, <3>2, Zenon DEF MayArrive
      <3>3. CASE /\ noisy /\ ms_present
                 /\ \E i \in PromWords, b \in 0..15 : c' = Flip(Delivered, i, b)
                 /\ flipped' = TRUE
        BY <1>0, <3>3, Zenon DEF MayArrive
      <3> QED BY <1>1, <3>2, <3>3 DEF Ms_Setup_Calib
    <2> QED BY <1>0, <2>1, <2>2 DEF CrcInv, AcceptedByCrc
  <1>2. CASE Crc_Start
    <2>1. /\ ms_pc = "check" /\ ms_pc' = "crc" /\ want' = crc /\ n_rem' = 0 /\ cnt' = 0
          /\ c' = Masked(c) /\ flipped' = flipped
      BY <1>2 DEF Crc_Start, Masked
    <2>2. MayArrive(c) /\ want' = c[0] \div 2^12
      BY <2>1 DEF CrcInv
    <2>3. \A d : MayArrive(d)' <=> MayArrive(d)
      BY <1>0, <2>1 DEF MayArrive
    <2>4. n_rem' = Rest(c, cnt)'
      BY <2>1 DEF Rest
    <2>5. \E d : MayArrive(d)' /\ c' = Masked(d) /\ want' = d[0] \div 2^12
      BY <2>1, <2>2, <2>3
    <2> QED BY <1>0, <2>1, <2>4, <2>5 DEF CrcInv, AcceptedByCrc
  <1>3. CASE Crc_Byte
    <2>1. /\ ms_pc = "crc" /\ ms_pc' = ms_pc /\ want' = want /\ c' = c /\ flipped' = flipped
          /\ cnt < 16 /\ cnt' = cnt + 1 /\ n_rem' = Divided(n_rem + ByteOf(c, cnt))
      BY <1>3 DEF Crc_Byte
    <2>2. PICK d : MayArrive(d) /\ c = Masked(d) /\ want = d[0] \div 2^12
      BY <2>1 DEF CrcInv
    <2>3. MayArrive(d)'
      BY <1>0, <2>1, <2>2 DEF MayArrive
    <2>4. cnt \in 0..15 /\ n_rem = Rest(c, cnt)
      BY <2>1 DEF CrcInv
    <2>5. PromValue(c) /\ c[0] < 4096
      <3>1. GoodWords
        BY DEF CrcInv
      <3>2. PromValue(d)
        BY <2>2, <3>1, CrcTells
      <3> QED BY <2>2, <3>2, MaskedWords
    <2>6. n_rem' = Rest(c, cnt + 1)
      BY <2>1, <2>4, <2>5, RestSteps
    <2>7. n_rem' = Rest(c, cnt)'
      BY <2>1, <2>6 DEF Rest
    <2>8. cnt' \in 0..16
      BY <2>1, <2>4
    <2> QED BY <1>0, <2>1, <2>2, <2>3, <2>7, <2>8 DEF CrcInv, AcceptedByCrc
  <1>4. CASE Ms_Setup_Check
    <2>1. /\ ms_pc = "crc" /\ cnt = 16 /\ c' = c /\ flipped' = flipped
          /\ ms_pc' = IF want = n_rem \div 2^12 THEN "ready" ELSE "absent"
      BY <1>4 DEF Ms_Setup_Check
    <2>2. PICK d : MayArrive(d) /\ c = Masked(d) /\ want = d[0] \div 2^12
      BY <2>1 DEF CrcInv
    <2>3. /\ PromValue(d)
          /\ RightCrc(d) => ms_present /\ (d = Delivered \/ ~ RightCrc(Delivered))
      <3>1. GoodWords
        BY DEF CrcInv
      <3> QED BY <2>2, <3>1, CrcTells
    <2>4. PromValue(c) /\ Crc4(c) = Crc4(d)
      BY <2>2, <2>3, MaskedWords
    <2>5. n_rem \div 2^12 = Crc4(d)
      <3>1. n_rem = Rest(c, 16)
        BY <2>1 DEF CrcInv
      <3> QED BY <2>4, <3>1, RestEnds
    <2>6. want = n_rem \div 2^12 <=> RightCrc(d)
      <3>1. d[0] \div 2^12 = d[0] \div 4096
        <4>1. \A x : x \div 2^12 = x \div 4096
          BY SMT
        <4> QED BY <4>1
      <3> QED BY <2>2, <2>5, <3>1 DEF RightCrc
    <2>7. Arrived' = d
      <3>1. Arrived = d
        BY <2>2, <2>3, Unmasked DEF Arrived
      <3>2. want' = want
        BY <1>4 DEF Ms_Setup_Check, crcVars
      <3> QED BY <2>1, <3>1, <3>2 DEF Arrived
    <2>8. CASE RightCrc(d)
      BY <1>0, <2>1, <2>3, <2>6, <2>7, <2>8 DEF CrcInv, AcceptedByCrc
    <2>9. CASE ~ RightCrc(d)
      BY <1>0, <2>1, <2>3, <2>6, <2>7, <2>9 DEF CrcInv, AcceptedByCrc
    <2> QED BY <2>8, <2>9
  <1>5. CASE \/ \E ch \in {PRESSURE_SENSOR, TEMPERATURE_SENSOR} : ms5837_myDigitalRead(ch)
             \/ UNCHANGED msVars
    <2>1. UNCHANGED <<ms_pc, flipped, c, crc, cnt, want, n_rem>>
      BY <1>5 DEF ms5837_myDigitalRead, msVars, crcVars
    <2>2. \A d : MayArrive(d)' <=> MayArrive(d)
      BY <1>0, <2>1 DEF MayArrive
    <2>3. Rest(c, cnt)' = Rest(c, cnt)
      BY <2>1 DEF Rest
    <2>4. AcceptedByCrc'
      <3>1. Arrived' = Arrived
        BY <2>1 DEF Arrived
      <3> QED BY <1>0, <2>1, <3>1 DEF CrcInv, AcceptedByCrc
    <2>5. ms_pc = "check" => MayArrive(c)'
      BY <2>1, <2>2 DEF CrcInv
    <2> QED BY <1>0, <2>1, <2>2, <2>3, <2>4, <2>5 DEF CrcInv
  <1> QED BY <1>1, <1>2, <1>3, <1>4, <1>5, MsStep DEF Ms_Setup

\* ms5837Setup accepts a sensor exactly if the words that arrived carry their
\* CRC: none that is not there, and, where the words the bus makes of an intact
\* PROM carry theirs, none of whose words a bit was flipped, whichever bit of
\* whichever word.
THEOREM AcceptedExactly == Start_Spec => []AcceptedByCrc
  <1>1. CrcInv => AcceptedByCrc
    BY DEF CrcInv
  <1> QED BY <1>1, CrcInit, CrcInvStep, PTL DEF Start_Spec

\* depthSensor_thread names the first driver whose check the chip that is
\* plugged in passes, that of the MS5837 on the words as they arrived, and never
\* a chip that is not there, if no descriptor is 0: the program has its
\* standard input open, and the code takes a descriptor that is not positive
\* for a Setup that failed.
THEOREM RightDetection == 0 \notin Fds => (Start_Spec => []DetectionRight)
  <1> SUFFICES ASSUME 0 \notin Fds PROVE Start_Spec => []DetectionRight
    OBVIOUS
  <1>1. DepthInv /\ SetupInv /\ AcceptedByCrc => DetectionRight
    <2> SUFFICES ASSUME DepthInv, SetupInv, AcceptedByCrc, pc["depth"] = "done"
                 PROVE  name = FirstPlugged
      BY DEF DetectionRight
    <2>1. spl_present /\ (SplReady \/ spl_pc = "absent") => calib.c0 = Field(0, 3)
      BY DEF SetupInv, SplReady, SplReading, CalibRight
    <2>2. SplReady => spl_present /\ calib.c0 # -1
      BY DEF SetupInv, SplReady, SplReading
    <2>3. spl_pc = "absent" => calib.c0 = -1
      BY DEF SetupInv
    <2>4. CASE name = "ms5837" /\ "i2c" \in buses /\ ms_pc = "ready"
      BY <2>4 DEF FirstPlugged, AcceptedByCrc
    <2>5. driver["depth"] = "spl1301" /\ "i2c" \in buses => ~ RightCrc(Arrived)
      BY DEF DepthInv, AcceptedByCrc
    <2>6. CASE name = "spl1301" /\ driver["depth"] = name /\ "i2c" \in buses /\ SplReady
      BY <2>1, <2>2, <2>5, <2>6 DEF FirstPlugged
    <2>7. CASE /\ name = "no plugged a depthSensor" /\ driver["depth"] = "spl1301"
               /\ "i2c" \notin buses \/ spl_pc = "absent"
      BY <2>1, <2>3, <2>5, <2>7 DEF FirstPlugged
    <2> QED BY <2>4, <2>6, <2>7 DEF DepthInv
  <1> QED BY <1>1, NodeInit, NodeTypesStep, DepthInvStep, SetupInit, SetupStep, AcceptedExactly, PTL
          DEF Start_Spec

(***************************************************************************)
(* The steps that start-up has left.                                       *)
(***************************************************************************)

\* Steps left in the Setup of the MS5837 at a point, with n bytes of the CRC
\* done, and in that of the SPL1301, up to the verdict.
MsLeftAt(p, n) == CASE p = "calib" -> 19 [] p = "check" -> 18 [] p = "crc" -> 17 - n [] OTHER -> 0
SplLeftAt(p) == CASE p = "calib" -> 5 [] p = "rateP" -> 4 [] p = "rateT" -> 3
                  [] p = "start" -> 2 [] p = "check" -> 1 [] OTHER -> 0

\* Steps left to a thread at a point of the Setup of the driver d, up to its
\* node, when the overlap check has come to pin i.
NodeLeftAt(p, d, i) ==
    CASE p = "open" -> NumPins(d) + 5
      [] p = "probe" -> NumPins(d) + 4
      [] p = "scan" -> ScanEnd(d) - i + 3
      [] p = "link" -> 2
      [] p = "register" -> 1
      [] OTHER -> 0

MsLeft == MsLeftAt(ms_pc, cnt)
SplLeft == SplLeftAt(spl_pc)
NodeLeft(t) == NodeLeftAt(pc[t], driver[t], pin[t])

\* The trial of the SPL1301 that may follow, and the exit of the process.
TrialLeft == IF driver["depth"] = "ms5837" THEN 8 ELSE 0
ExitLeft == IF alive THEN 1 ELSE 0
NodesLeft == NodeLeft("lowSpeed") + NodeLeft("depth") + TrialLeft + ExitLeft

Left == MsLeft + SplLeft + NodesLeft

\* Every step of the threads brings start-up nearer to its end, and no reading
\* takes it back.
StepsCounted == [][/\ Left' <= Left
                   /\ \A t \in Threads : ThreadStep(t) => Left' < Left]_sensorVars

\* The overlap check looks at the pins of the driver, and ends behind them.
ScanInv == \A t \in Threads :
              pc[t] = "scan" => pin[t] \in BaseOf(driver[t]) .. ScanEnd(driver[t])

\* The numbers a driver goes by.
LEMMA DriverPins ==
    ASSUME NEW d \in Drivers
    PROVE  /\ BaseOf(d) \in Nat /\ NumPins(d) \in 2..4 /\ ScanEnd(d) = BaseOf(d) + NumPins(d)
           /\ d # "ads1118" => NumPins(d) = 2 /\ BaseOf(d) = DepthBase
           /\ d = "ads1118" => NumPins(d) = 4 /\ BaseOf(d) = AdsBase
  BY BaseAssumption DEF BaseOf, NumPins, ScanEnd

\* What is left at each point.
LEMMA NodeLeftIs ==
    ASSUME NEW d \in Drivers, NEW i \in Int
    PROVE  /\ NodeLeftAt("open", d, i) = NumPins(d) + 5
           /\ NodeLeftAt("probe", d, i) = NumPins(d) + 4
           /\ NodeLeftAt("scan", d, i) = ScanEnd(d) - i + 3
           /\ NodeLeftAt("link", d, i) = 2 /\ NodeLeftAt("register", d, i) = 1
           /\ NodeLeftAt("done", d, i) = 0
  BY DEF NodeLeftAt

\* The MS5837's part: a step of its Setup takes one off.
LEMMA MsLeftStep ==
    ASSUME CrcInv, [Start_Next]_sensorVars
    PROVE  /\ MsLeft \in 0..19 /\ MsLeft' \in Int /\ MsLeft' <= MsLeft
           /\ Ms_Setup => MsLeft' < MsLeft
  <1>1. ms_pc \in {"calib", "check", "crc", "ready", "absent"} /\ (ms_pc = "crc" => cnt \in 0..16)
    BY DEF CrcInv
  <1>2. MsLeft \in 0..19
    BY <1>1 DEF MsLeft, MsLeftAt
  <1>3. CASE Ms_Setup_Calib
    BY <1>3 DEF Ms_Setup_Calib, MsLeft, MsLeftAt
  <1>4. CASE Crc_Start
    BY <1>4 DEF Crc_Start, MsLeft, MsLeftAt
  <1>5. CASE Crc_Byte
    <2>1. ms_pc = "crc" /\ ms_pc' = "crc" /\ cnt' = cnt + 1 /\ cnt \in 0..16
      BY <1>1, <1>5 DEF Crc_Byte
    <2> QED BY <2>1 DEF MsLeft, MsLeftAt
  <1>6. CASE Ms_Setup_Check
    <2>1. ms_pc = "crc" /\ cnt = 16 /\ ms_pc' \in {"ready", "absent"}
      BY <1>6 DEF Ms_Setup_Check
    <2> QED BY <2>1 DEF MsLeft, MsLeftAt
  <1>7. ASSUME UNCHANGED <<ms_pc, cnt>>, ~ Ms_Setup
        PROVE  MsLeft' \in Int /\ MsLeft' <= MsLeft
    BY <1>2, <1>7 DEF MsLeft
  <1>8. Ms_Setup \/ UNCHANGED <<ms_pc, cnt>>
    BY MsStep DEF ms5837_myDigitalRead, msVars, crcVars
  <1> QED BY <1>2, <1>3, <1>4, <1>5, <1>6, <1>7, <1>8 DEF Ms_Setup

\* The SPL1301's part likewise.
LEMMA SplLeftStep ==
    ASSUME SetupInv, [Start_Next]_sensorVars
    PROVE  /\ SplLeft \in 0..5 /\ SplLeft' \in Int /\ SplLeft' <= SplLeft
           /\ Spl_Setup => SplLeft' < SplLeft
  <1>1. spl_pc \in {"calib", "rateP", "rateT", "start", "check", "absent", "idle", "rawT", "rawP"}
    BY DEF SetupInv, SplPcs, SplReading
  <1>2. SplLeft \in 0..5
    BY <1>1 DEF SplLeft, SplLeftAt
  <1>3. ASSUME Spl_Setup PROVE SplLeft' \in Int /\ SplLeft' < SplLeft
    <2>1. \/ spl_pc = "calib" /\ spl_pc' = "rateP"
          \/ spl_pc = "rateP" /\ spl_pc' = "rateT"
          \/ spl_pc = "rateT" /\ spl_pc' = "start"
          \/ spl_pc = "start" /\ spl_pc' = "check"
          \/ spl_pc = "check" /\ spl_pc' \in {"absent", "idle"}
      <3>1. CASE Spl_Setup_Calib \/ Setup_Start \/ Spl_Setup_Check
        BY <3>1 DEF Spl_Setup_Calib, Setup_Start, Spl_Setup_Check
      <3>2. CASE Setup_Rate("P", "rateP", "rateT") \/ Setup_Rate("T", "rateT", "start")
        <4>1. \A ch, here, after : Setup_Rate(ch, here, after) => spl_pc = here /\ spl_pc' = after
          BY Zenon DEF Setup_Rate
        <4> QED BY <3>2, <4>1
      <3> QED BY <1>3, <3>1, <3>2 DEF Spl_Setup
    <2> QED BY <2>1 DEF SplLeft, SplLeftAt
  <1>4. ASSUME {spl_pc, spl_pc'} \subseteq {"idle", "rawT", "rawP"} \/ spl_pc' = spl_pc
        PROVE  SplLeft' \in Int /\ SplLeft' <= SplLeft
    BY <1>2, <1>4 DEF SplLeft, SplLeftAt
  <1>5. Spl_Setup \/ {spl_pc, spl_pc'} \subseteq {"idle", "rawT", "rawP"} \/ spl_pc' = spl_pc
    BY SplStep DEF spl1301_myDigitalRead, Spl_Read, Read_Byte, Raw_Temp, Raw_Pressure, Chip_Sample,
       splVars
  <1> QED BY <1>2, <1>3, <1>4, <1>5

\* A step of a thread on the nodes takes at least one off, and the check stays
\* within its pins.
LEMMA NodesLeftStep ==
    ASSUME NodeTypes, ScanInv, NEW t \in Threads, NodeStep(t)
    PROVE  ScanInv' /\ NodesLeft' \in Int /\ NodesLeft' < NodesLeft
  <1>a. "lowSpeed" \in Threads /\ "depth" \in Threads /\ (t = "lowSpeed" \/ t = "depth")
          /\ \A u \in Threads : u = "lowSpeed" \/ u = "depth"
    BY DEF Threads
  <1>b. /\ pc \in [Threads -> Pcs] /\ driver \in [Threads -> Drivers] /\ pin \in [Threads -> Int]
        /\ driver["lowSpeed"] = "ads1118" /\ driver["depth"] \in DepthDrivers
        /\ \A d \in DepthDrivers : d # "ads1118"
    BY DEF NodeTypes, DepthDrivers
  <1>c. \A u \in Threads : NodeLeft(u) \in Nat
    <2> SUFFICES ASSUME NEW u \in Threads PROVE NodeLeft(u) \in Nat
      OBVIOUS
    <2>1. driver[u] \in Drivers /\ pin[u] \in Int /\ pc[u] \in Pcs
      BY <1>b
    <2>2. pc[u] = "scan" => pin[u] <= ScanEnd(driver[u])
      BY <2>1, DriverPins DEF ScanInv
    <2> QED BY <2>1, <2>2, DriverPins, NodeLeftIs DEF NodeLeft, Pcs
  <1>d. TrialLeft \in {0, 8} /\ ExitLeft \in {0, 1}
    BY DEF TrialLeft, ExitLeft
  <1>e. alive
    BY DEF NodeStep, Open, Open_Exit, Ads_Open_Failed, Ads_Probe, Depth_Open_Failed, Depth_Probe,
           NewNode_Scan, NewNode_Overlap, NewNode_Next, NewNode_Link, Register, At
  \* The process exits.
  <1>1. CASE Open_Exit(t) \/ NewNode_Overlap(t)
    <2>1. UNCHANGED <<pc, driver, pin>> /\ ~ alive'
      BY <1>1 DEF Open_Exit, NewNode_Overlap, Exit
    <2>2. NodeLeft("lowSpeed")' = NodeLeft("lowSpeed") /\ NodeLeft("depth")' = NodeLeft("depth")
            /\ TrialLeft' = TrialLeft /\ ExitLeft = 1 /\ ExitLeft' = 0
      BY <1>e, <2>1 DEF NodeLeft, TrialLeft, ExitLeft
    <2>3. ScanInv'
      BY <2>1 DEF ScanInv
    <2> QED BY <1>a, <1>c, <1>d, <2>2, <2>3 DEF NodesLeft
  \* The thread goes on with its driver.
  <1>2. ASSUME UNCHANGED <<driver, alive>>,
               \A u \in Threads : u # t => pc'[u] = pc[u] /\ pin'[u] = pin[u],
               NodeLeft(t)' \in Int, NodeLeft(t)' < NodeLeft(t),
               pc'[t] = "scan" => pin'[t] \in BaseOf(driver[t]) .. ScanEnd(driver[t])
        PROVE  ScanInv' /\ NodesLeft' \in Int /\ NodesLeft' < NodesLeft
    <2>1. ScanInv'
      BY <1>2 DEF ScanInv
    <2>2. TrialLeft' = TrialLeft /\ ExitLeft' = ExitLeft
      BY <1>2 DEF TrialLeft, ExitLeft
    <2>3. \A u \in Threads : u # t => NodeLeft(u)' = NodeLeft(u)
      BY <1>2 DEF NodeLeft
    <2>4. CASE t = "lowSpeed"
      <3>1. NodeLeft("depth")' = NodeLeft("depth")
        BY <1>a, <2>3, <2>4
      <3> QED BY <1>2, <1>a, <1>c, <1>d, <2>1, <2>2, <2>4, <3>1 DEF NodesLeft
    <2>5. CASE t = "depth"
      <3>1. NodeLeft("lowSpeed")' = NodeLeft("lowSpeed")
        BY <1>a, <2>3, <2>5
      <3> QED BY <1>2, <1>a, <1>c, <1>d, <2>1, <2>2, <2>5, <3>1 DEF NodesLeft
    <2> QED BY <1>a, <2>4, <2>5
  \* The depth thread tries the other driver, or gives up.
  <1>3. ASSUME t = "depth", Next_Driver, UNCHANGED <<pin, alive>>,
               pc["depth"] \in {"open", "probe", "register"}
        PROVE  ScanInv' /\ NodesLeft' \in Int /\ NodesLeft' < NodesLeft
    <2>1. pc'["lowSpeed"] = pc["lowSpeed"] /\ driver'["lowSpeed"] = driver["lowSpeed"]
      BY <1>3, <1>a, <1>b DEF Next_Driver, Goto
    <2>2. NodeLeft("lowSpeed")' = NodeLeft("lowSpeed") /\ ExitLeft' = ExitLeft
      BY <1>3, <2>1 DEF NodeLeft, ExitLeft
    <2>3. NodeLeft("depth") >= 1
      BY <1>3, <1>a, <1>b, NodeLeftIs, DriverPins DEF NodeLeft
    <2>4. CASE driver["depth"] = "ms5837"
      <3>1. pc'["depth"] = "open" /\ driver'["depth"] = "spl1301"
        BY <1>3, <1>a, <1>b, <2>4 DEF Next_Driver, Goto
      <3>2. NodeLeft("depth")' = 7 /\ TrialLeft = 8 /\ TrialLeft' = 0
        BY <1>3, <1>a, <1>b, <2>4, <3>1, NodeLeftIs, DriverPins
           DEF NodeLeft, TrialLeft, Drivers, DepthDrivers
      <3>3. ScanInv'
        BY <1>3, <1>a, <2>1, <3>1 DEF ScanInv
      <3> QED BY <1>a, <1>c, <1>d, <2>2, <2>3, <3>2, <3>3 DEF NodesLeft
    <2>5. CASE driver["depth"] # "ms5837"
      <3>1. pc'["depth"] = "done" /\ driver' = driver
        BY <1>3, <1>a, <1>b, <2>5 DEF Next_Driver, Goto
      <3>2. NodeLeft("depth")' = 0 /\ TrialLeft = 0 /\ TrialLeft' = 0
        BY <1>3, <1>a, <1>b, <2>5, <3>1, NodeLeftIs DEF NodeLeft, TrialLeft
      <3>3. ScanInv'
        BY <1>3, <1>a, <2>1, <3>1 DEF ScanInv
      <3> QED BY <1>a, <1>c, <1>d, <2>2, <2>3, <3>2, <3>3 DEF NodesLeft
    <2> QED BY <2>4, <2>5

  <1>4. driver[t] \in Drivers /\ pin[t] \in Int
    BY <1>b
  <1>5. \A u \in Threads : \A x : pc' = [pc EXCEPT ![t] = x] => pc'[t] = x /\ (u # t => pc'[u] = pc[u])
    BY <1>b
  <1>6. ASSUME UNCHANGED <<driver, pin, alive>>, NEW p, NEW q,
               pc[t] = p, pc' = [pc EXCEPT ![t] = q],
               \/ p = "open" /\ q = "probe"
               \/ p = "link" /\ q = "register"
               \/ p = "register" /\ q = "done"
        PROVE  ScanInv' /\ NodesLeft' \in Int /\ NodesLeft' < NodesLeft
    <2>1. pc'[t] = q /\ \A u \in Threads : u # t => pc'[u] = pc[u]
      BY <1>5, <1>6
    <2>2. NodeLeft(t)' \in Int /\ NodeLeft(t)' < NodeLeft(t)
      BY <1>4, <1>6, <2>1, NodeLeftIs, DriverPins DEF NodeLeft
    <2> QED BY <1>2, <1>6, <2>1, <2>2
  <1>7. ASSUME UNCHANGED <<driver, alive>>, pc[t] = "probe", pc' = [pc EXCEPT ![t] = "scan"],
               pin' = [pin EXCEPT ![t] = BaseOf(driver[t])]
        PROVE  ScanInv' /\ NodesLeft' \in Int /\ NodesLeft' < NodesLeft
    <2>1. pc'[t] = "scan" /\ \A u \in Threads : u # t => pc'[u] = pc[u]
      BY <1>5, <1>7
    <2>2. pin'[t] = BaseOf(driver[t]) /\ \A u \in Threads : u # t => pin'[u] = pin[u]
      BY <1>b, <1>7
    <2>3. BaseOf(driver[t]) \in Int /\ BaseOf(driver[t]) <= ScanEnd(driver[t])
            /\ ScanEnd(driver[t]) = BaseOf(driver[t]) + NumPins(driver[t]) /\ NumPins(driver[t]) \in Int
      BY <1>4, DriverPins
    <2>4. NodeLeft(t)' = NumPins(driver[t]) + 3 /\ NodeLeft(t) = NumPins(driver[t]) + 4
      BY <1>4, <1>7, <2>1, <2>2, <2>3, NodeLeftIs DEF NodeLeft
    <2> QED BY <1>2, <1>7, <2>1, <2>2, <2>3, <2>4
  <1>8. CASE Open(t)
    <2>1. UNCHANGED <<driver, pin, alive>> /\ pc[t] = "open" /\ pc' = [pc EXCEPT ![t] = "probe"]
      BY <1>8 DEF Open, At, Goto
    <2> QED BY <1>6, <2>1
  <1>9. CASE t = "lowSpeed" /\ Ads_Open_Failed
    <2>1. UNCHANGED <<driver, pin, alive>> /\ pc[t] = "open" /\ pc' = [pc EXCEPT ![t] = "probe"]
      BY <1>9 DEF Ads_Open_Failed, At, Goto
    <2> QED BY <1>6, <2>1
  <1>10. CASE t = "lowSpeed" /\ Ads_Probe
    BY <1>7, <1>10, <1>b DEF Ads_Probe, At, Goto, BaseOf
  <1>11. CASE t = "depth" /\ Depth_Open_Failed
    BY <1>3, <1>11 DEF Depth_Open_Failed, At
  <1>12. CASE t = "depth" /\ Depth_Probe
    <2>1. BaseOf(driver["depth"]) = DepthBase
      BY <1>b DEF BaseOf
    <2>2. CASE Answers(driver["depth"])
      BY <1>3, <1>7, <1>12, <2>1, <2>2 DEF Depth_Probe, At, Goto
    <2>3. CASE Refused(driver["depth"])
      BY <1>3, <1>7, <1>12, <2>1, <2>3 DEF Depth_Probe, At, Goto
    <2> QED BY <1>12, <2>2, <2>3 DEF Depth_Probe
  <1>13. CASE NewNode_Scan(t)
    <2>1. UNCHANGED <<pc, driver, alive>> /\ pc[t] = "scan" /\ pin' = [pin EXCEPT ![t] = @ + 1]
            /\ pin[t] < ScanEnd(driver[t])
      BY <1>13 DEF NewNode_Scan, At
    <2>2. pin'[t] = pin[t] + 1 /\ \A u \in Threads : u # t => pin'[u] = pin[u]
      BY <1>b, <2>1
    <2>3. pin[t] \in BaseOf(driver[t]) .. ScanEnd(driver[t])
            /\ BaseOf(driver[t]) \in Int /\ ScanEnd(driver[t]) \in Int
      BY <1>4, <2>1, DriverPins DEF ScanInv
    <2>4. NodeLeft(t)' = ScanEnd(driver[t]) - (pin[t] + 1) + 3
            /\ NodeLeft(t) = ScanEnd(driver[t]) - pin[t] + 3
      BY <1>4, <2>1, <2>2, NodeLeftIs DEF NodeLeft
    <2> QED BY <1>2, <1>4, <2>1, <2>2, <2>3, <2>4
  <1>14. CASE NewNode_Next(t)
    <2>1. UNCHANGED <<driver, pin, alive>> /\ pc[t] = "scan" /\ pc' = [pc EXCEPT ![t] = "link"]
            /\ pin[t] = ScanEnd(driver[t])
      BY <1>14 DEF NewNode_Next, At, Goto
    <2>2. pc'[t] = "link" /\ \A u \in Threads : u # t => pc'[u] = pc[u]
      BY <1>5, <2>1
    <2>3. NodeLeft(t)' = 2 /\ NodeLeft(t) = 3
      BY <1>4, <2>1, <2>2, NodeLeftIs DEF NodeLeft
    <2> QED BY <1>2, <2>1, <2>2, <2>3
  <1>15. CASE NewNode_Link(t)
    BY <1>6, <1>15 DEF NewNode_Link, At, Goto
  <1>16. CASE Register(t)
    <2>1. UNCHANGED <<pin, alive>> /\ pc[t] = "register"
      BY <1>16 DEF Register, At
    <2>2. \/ UNCHANGED driver /\ pc' = [pc EXCEPT ![t] = "done"]
          \/ t = "depth" /\ Next_Driver
      BY <1>16 DEF Register, Goto
    <2> QED BY <1>3, <1>6, <2>1, <2>2
  <1> QED BY <1>1, <1>8, <1>9, <1>10, <1>11, <1>12, <1>13, <1>14, <1>15, <1>16 DEF NodeStep

\* The rest leaves what counts for the nodes alone.
LEMMA NodesLeftKept ==
    ASSUME NodeTypes, ScanInv, UNCHANGED nodeVars
    PROVE  ScanInv' /\ NodesLeft' = NodesLeft
  BY DEF nodeVars, ScanInv, NodesLeft, NodeLeft, TrialLeft, ExitLeft

\* What is left when.
LEMMA NodesLeftType == NodeTypes /\ ScanInv => NodesLeft \in 0..25
  <1> SUFFICES ASSUME NodeTypes, ScanInv PROVE NodesLeft \in 0..25
    OBVIOUS
  <1>a. "lowSpeed" \in Threads /\ "depth" \in Threads
    BY DEF Threads
  <1>1. ASSUME NEW t \in Threads PROVE NodeLeft(t) \in 0..(NumPins(driver[t]) + 5)
    <2>1. driver[t] \in Drivers /\ pin[t] \in Int /\ pc[t] \in Pcs
      BY DEF NodeTypes
    <2>2. pc[t] = "scan" => pin[t] \in BaseOf(driver[t]) .. ScanEnd(driver[t])
      BY DEF ScanInv
    <2> QED BY <2>1, <2>2, DriverPins, NodeLeftIs DEF NodeLeft, Pcs
  <1>2. NumPins(driver["lowSpeed"]) = 4 /\ NumPins(driver["depth"]) = 2
    BY DEF NodeTypes, NumPins, DepthDrivers
  <1>3. TrialLeft \in {0, 8} /\ ExitLeft \in {0, 1}
    BY DEF TrialLeft, ExitLeft
  <1>4. NodeLeft("lowSpeed") \in 0..9 /\ NodeLeft("depth") \in 0..7
    BY <1>1, <1>2, <1>a
  <1> QED BY <1>3, <1>4 DEF NodesLeft

\* Sums of three parts none of which grows.
LEMMA Sums ==
    \A x, y, z, u, v, w \in Int : u <= x /\ v <= y /\ w <= z =>
        /\ x + y + z \in Int /\ u + v + w \in Int
        /\ u + v + w <= x + y + z
        /\ u < x \/ v < y \/ w < z => u + v + w < x + y + z
  OBVIOUS

\* Start-up comes to an end: its threads never have more than 49 steps left,
\* each of their steps takes at least one off, and nothing else adds any
\* (depthSensor_thread, sensor_lowSpeed_callback_fun and the Setups they call).
THEOREM StartupBounded == Start_Spec => [](Left \in 0..49) /\ StepsCounted
  <1>1. Start_Init => ScanInv
    BY DEF Start_Init, ScanInv
  <1>2. NodeTypes /\ ScanInv /\ CrcInv /\ SetupInv /\ [Start_Next]_sensorVars
          => /\ ScanInv'
             /\ [/\ Left' <= Left
                 /\ \A t \in Threads : ThreadStep(t) => Left' < Left]_sensorVars
    <2> SUFFICES ASSUME NodeTypes, ScanInv, CrcInv, SetupInv, [Start_Next]_sensorVars
                 PROVE  /\ ScanInv' /\ Left' <= Left
                        /\ \A t \in Threads : ThreadStep(t) => Left' < Left \/ UNCHANGED sensorVars
      OBVIOUS
    <2>1. NodesLeft \in Int
      BY NodesLeftType
    <2>a. /\ Left = MsLeft + SplLeft + NodesLeft
          /\ Left' = MsLeft' + SplLeft' + NodesLeft'
      BY Zenon DEF Left
    <2>2. /\ MsLeft \in Int /\ MsLeft' \in Int /\ MsLeft' <= MsLeft
          /\ SplLeft \in Int /\ SplLeft' \in Int /\ SplLeft' <= SplLeft
      BY MsLeftStep, SplLeftStep
    <2>3. ASSUME NodesLeft' \in Int, NodesLeft' <= NodesLeft
          PROVE  /\ Left' <= Left
                 /\ NodesLeft' < NodesLeft \/ MsLeft' < MsLeft \/ SplLeft' < SplLeft
                      => Left' < Left
      BY <2>1, <2>2, <2>a, <2>3, Sums, Zenon
    <2>4. \A x, y \in Int : x < y => x <= y
      OBVIOUS
    <2>5. ASSUME NEW t \in Threads, NodeStep(t) PROVE ScanInv' /\ Left' <= Left /\ Left' < Left
      <3>1. ScanInv' /\ NodesLeft' \in Int /\ NodesLeft' < NodesLeft
        BY <2>5, NodesLeftStep
      <3> QED BY <2>1, <2>3, <2>4, <3>1, Zenon
    <2>6. ASSUME UNCHANGED nodeVars
          PROVE  ScanInv' /\ Left' <= Left /\ (Ms_Setup \/ Spl_Setup => Left' < Left)
      <3>1. ScanInv' /\ NodesLeft' = NodesLeft
        BY <2>6, NodesLeftKept
      <3>2. NodesLeft' \in Int /\ NodesLeft' <= NodesLeft
        BY <2>1, <3>1
      <3>3. Ms_Setup \/ Spl_Setup => MsLeft' < MsLeft \/ SplLeft' < SplLeft
        BY MsLeftStep, SplLeftStep
      <3> QED BY <2>3, <3>1, <3>2, <3>3, Zenon
    <2>7. ASSUME NEW t \in Threads, ThreadStep(t) PROVE Left' < Left
      BY <2>5, <2>6, <2>7 DEF ThreadStep, Depth_Setup
    <2>8. ScanInv' /\ Left' <= Left
      BY <2>5, <2>6, NodeSteps
    <2> QED BY <2>7, <2>8
  <1>3. NodeTypes /\ ScanInv /\ CrcInv /\ SetupInv /\ [Start_Next]_sensorVars => Left \in 0..49
    <2> SUFFICES ASSUME NodeTypes, ScanInv, CrcInv, SetupInv, [Start_Next]_sensorVars
                 PROVE  Left \in 0..49
      OBVIOUS
    <2>1. MsLeft \in 0..19 /\ SplLeft \in 0..5
      BY MsLeftStep, SplLeftStep
    <2> QED BY <2>1, NodesLeftType DEF Left
  <1> QED BY <1>1, <1>2, <1>3, NodeInit, NodeTypesStep, CrcInit, CrcInvStep, SetupInit, SetupStep,
             PTL DEF Start_Spec, StepsCounted

=============================================================================
