------------------------------- MODULE JY901 -------------------------------
(***************************************************************************)
(* drivers/jy901.c and jy901_thread of applications/sensor.c: the attitude *)
(* sensor sends 11-byte packets (0x55, type, 8 data bytes, sum) over a     *)
(* serial line; copeJY901_data takes them byte by byte.                    *)
(*                                                                         *)
(* External: the sensor, which sends one packet of Packets after another,  *)
(* and the line, which may lose or change a byte MaxFaults times.          *)
(***************************************************************************)
EXTENDS Integers, Sequences, SequencesExt

CONSTANTS
    PacketLength,           \* JY901_PACKET_LENGTH, 11
    Packets,                \* what the sensor sends
    MaxFaults,              \* bound on the faults of the line
    NoiseBytes,             \* what a changed byte may become
    Compass_Offset_Angle    \* degrees

Byte == 0..255
Header == 85                \* 0x55
Types == 80..89             \* 0x50 .. 0x59, the cases of the switch

\* The sum of the first bytes of r, in a uint8_t.
RxCheck(r) == FoldLeft(LAMBDA acc, b : (acc + b) % 256, 0, SubSeq(r, 1, PacketLength - 1))

ASSUME LengthAssumption == PacketLength \in Nat /\ PacketLength >= 9
ASSUME FaultAssumption == MaxFaults \in Nat /\ NoiseBytes \subseteq Byte
ASSUME OffsetAssumption == 
    Compass_Offset_Angle \in Int /\ -360 <= Compass_Offset_Angle /\ Compass_Offset_Angle <= 360
ASSUME PacketsAssumption ==
    /\ Packets # {}
    /\ \A p \in Packets : /\ p \in Seq(Byte) /\ Len(p) = PacketLength
                          /\ p[1] = Header
                          /\ RxCheck(p) = p[PacketLength]

VARIABLES
    fd,         \* "unopened", "open" or "failed"
    rx,         \* rxBuffer[0 .. rxCount-1]; rxCheck is 0 between calls
    stc,        \* the raw data last stored, per packet type
    Roll, Pitch, Yaw,   \* Sensor.JY901.Euler, in 1/8192 degree (a float holds it exactly)
    conv,       \* the next store of jy901_convert; "off" when it is over
    cur, pos,   \* the packet being sent and how much of it is
    faults      \* faults of the line so far

Euler == <<Roll, Pitch, Yaw>>
vars == <<fd, rx, stc, Euler, conv, cur, pos, faults>>

----------------------------------------------------------------------------
\* A 16-bit two's complement field.
Int16(lo, hi) == IF hi < 128 THEN lo + 256 * hi ELSE lo + 256 * hi - 65536

Degree == 8192

Payload(r) == SubSeq(r, 3, PacketLength - 1)

\* stcAngle.angle[i], raw; a unit is 45/8192 degree.
angle(data, i) == Int16(data[2*i + 1], data[2*i + 2])

NoData == [i \in 1..(PacketLength - 3) |-> 0]

\* Mutant: a byte too early is copied out of a packet.
copeJY901_data_Shifted(b) ==
    LET r == Append(rx, b)
        full == r[1] = Header /\ Len(r) = PacketLength
        good == full /\ RxCheck(r) = r[PacketLength]
    IN  /\ rx' = IF r[1] = Header /\ ~full THEN r ELSE <<>>
        /\ stc' = IF good /\ r[2] \in Types
                  THEN [stc EXCEPT ![r[2]] = SubSeq(r, 2, PacketLength - 2)] ELSE stc
        /\ UNCHANGED <<Euler, conv>>
\* Mutant: a packet is taken to begin where the last one ended, header or not.
copeJY901_data_Trusts(b) ==
    LET r == Append(rx, b)
        full == Len(r) = PacketLength
        good == full /\ RxCheck(r) = r[PacketLength]
    IN  /\ rx' = IF full THEN <<>> ELSE r
        /\ stc' = IF good /\ r[2] \in Types THEN [stc EXCEPT ![r[2]] = Payload(r)] ELSE stc
        /\ UNCHANGED <<Euler, conv>>

\* One received byte.  Without the header in front nothing is kept; a full
\* buffer is emptied whether its sum is right or not; after a right one
\* jy901_convert recomputes Sensor.JY901, whatever the type.
copeJY901_data(b) ==
    LET r == Append(rx, b)
        full == r[1] = Header /\ Len(r) = PacketLength
        good == full /\ RxCheck(r) = r[PacketLength]
    IN  /\ rx' = IF r[1] = Header /\ ~full THEN r ELSE <<>>
        /\ stc' = IF good /\ r[2] \in Types THEN [stc EXCEPT ![r[2]] = Payload(r)] ELSE stc
        /\ conv' = IF good THEN "roll" ELSE "off"
        /\ UNCHANGED Euler

\* The conversion of the attitude is a row of stores into Sensor, which other
\* threads read meanwhile: the parser takes no byte until it is over.
SetRoll ==
    /\ conv = "roll" /\ conv' = "pitch"
    /\ Roll' = angle(stc[83], 0) * 45
    /\ UNCHANGED <<Pitch, Yaw>>

SetPitch ==
    /\ conv = "pitch" /\ conv' = "yaw"
    /\ Pitch' = angle(stc[83], 1) * 45
    /\ UNCHANGED <<Roll, Yaw>>

SetYaw ==
    /\ conv = "yaw" /\ conv' = IF Compass_Offset_Angle = 0 THEN "off" ELSE "offset"
    /\ Yaw' = angle(stc[83], 2) * 45
    /\ UNCHANGED <<Roll, Pitch>>

SubtractOffset ==
    /\ conv = "offset" /\ conv' = "below"
    /\ Yaw' = Yaw - Compass_Offset_Angle * Degree
    /\ UNCHANGED <<Roll, Pitch>>

RaiseYaw ==
    /\ conv = "below" /\ conv' = "above"
    /\ Yaw' = IF Yaw < -180 * Degree THEN Yaw + 360 * Degree ELSE Yaw
    /\ UNCHANGED <<Roll, Pitch>>

\* Mutant: the yaw is brought back from below only.
LowerYaw_Not ==
    /\ conv = "above" /\ conv' = "off"
    /\ UNCHANGED Euler

LowerYaw ==
    /\ conv = "above" /\ conv' = "off"
    /\ Yaw' = IF Yaw > 180 * Degree THEN Yaw - 360 * Degree ELSE Yaw
    /\ UNCHANGED <<Roll, Pitch>>

jy901_convert ==
    /\ SetRoll \/ SetPitch \/ SetYaw \/ SubtractOffset \/ RaiseYaw \/ LowerYaw
    /\ UNCHANGED <<fd, rx, stc, cur, pos, faults>>

----------------------------------------------------------------------------
Init ==
    /\ fd = "unopened"
    /\ rx = <<>>
    /\ stc = [t \in Types |-> NoData]
    /\ Roll = 0 /\ Pitch = 0 /\ Yaw = 0 /\ conv = "off"
    /\ cur \in Packets /\ pos = 0
    /\ faults = 0

\* The sensor streams already: the first byte seen may be any of a packet.
\* Joining inside a packet counts as a fault, since its head is lost.
jy901Setup ==
    /\ fd = "unopened"
    /\ \/ fd' = "open" /\ UNCHANGED <<pos, faults>>
       \/ /\ fd' = "open" /\ faults < MaxFaults /\ faults' = faults + 1
          /\ pos' \in 1..(PacketLength - 1)
       \/ fd' = "failed" /\ UNCHANGED <<pos, faults>>
    /\ UNCHANGED <<rx, stc, Euler, conv, cur>>

\* The sensor goes on to the next byte.
Advance ==
    IF pos + 1 < PacketLength THEN pos' = pos + 1 /\ UNCHANGED cur
                              ELSE pos' = 0 /\ cur' \in Packets

Receive ==
    /\ fd = "open" /\ conv = "off"
    /\ copeJY901_data(cur[pos + 1])
    /\ Advance
    /\ UNCHANGED <<fd, faults>>

Lose ==
    /\ fd = "open" /\ faults < MaxFaults
    /\ faults' = faults + 1
    /\ Advance
    /\ UNCHANGED <<fd, rx, stc, Euler, conv>>

Change ==
    /\ fd = "open" /\ conv = "off" /\ faults < MaxFaults
    /\ faults' = faults + 1
    /\ \E b \in NoiseBytes : copeJY901_data(b)
    /\ Advance
    /\ UNCHANGED fd

\* The line did not open: serialDataAvail and serialGetchar return -1 for
\* ever, so 0xFF is fed to the parser without a pause.
Spin ==
    /\ fd = "failed" /\ conv = "off"
    /\ copeJY901_data(255)
    /\ UNCHANGED <<fd, cur, pos, faults>>

Next == jy901Setup \/ Receive \/ Lose \/ Change \/ Spin \/ jy901_convert

Spec == Init /\ [][Next]_vars

\* jy901_thread polls for ever and the sensor keeps sending.
FairSpec == Spec /\ WF_vars(jy901Setup) /\ WF_vars(Receive) /\ WF_vars(jy901_convert)

----------------------------------------------------------------------------
(* Properties *)

\* Type invariant; in particular rxCount stays below PacketLength, so
\* rxBuffer[20] is never overrun.
TypeOK ==
    /\ fd \in {"unopened", "open", "failed"}
    /\ rx \in Seq(Byte) /\ Len(rx) < PacketLength
    /\ stc \in [Types -> [1..(PacketLength - 3) -> Byte]]
    /\ Roll \in Int /\ Pitch \in Int /\ Yaw \in Int
    /\ conv \in {"off", "roll", "pitch", "yaw", "offset", "below", "above"}
    /\ cur \in Packets /\ pos \in 0..(PacketLength - 1)
    /\ faults \in 0..MaxFaults

\* The buffer holds exactly what has been sent of the current packet.
InPhase == rx = SubSeq(cur, 1, pos)

\* Until the first fault the parser is in phase with the sensor, whatever
\* the data bytes are (0x55 among them).
InPhaseUntilFault == fd = "open" /\ faults = 0 => InPhase

\* Until the first fault every packet of a known type is stored as sent by
\* the time its last byte is in.
DeliveredWhole ==
    [][Receive /\ faults = 0 /\ pos = PacketLength - 1 /\ cur[2] \in Types
            => stc'[cur[2]] = Payload(cur)]_vars

\* The corrected yaw is an angle between -180 and 180 degrees, for every
\* offset (jy901.c:104-113), faults or not, except between the subtraction of
\* the offset and the end of the two corrections.
YawInRange == conv \notin {"below", "above"} => -180 * Degree <= Yaw /\ Yaw <= 180 * Degree

\* jy901.c:44: with a wrong header the search for 0x55 starts again.  Once the
\* line is clean and the sensor sends packets with 0x55 as the header only,
\* the parser falls into step with it for good, whatever it had buffered.
\* (With 0x55 among the data of every packet it need not.)
HeaderOnly(p) == \A i \in 2..PacketLength : p[i] # Header
Resyncs == <>[]HeaderOnly(cur) => <>[](fd = "open" => InPhase)
============================================================================
