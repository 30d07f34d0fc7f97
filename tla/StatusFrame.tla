---------------------------- MODULE StatusFrame ----------------------------
(***************************************************************************)
(* convert_rov_status_data of applications/data.c: send_thread packs the   *)
(* attitude and the CPU temperature into the frame it sends, reading       *)
(* Sensor field by field, while JY901's parser stores the attitude step    *)
(* by step and sensor_lowSpeed_callback_fun stores the temperature.        *)
(*                                                                         *)
(* The fields of Sensor that no thread stores in this version (voltage,    *)
(* current, depth, water temperature) stay 0 and are left out, as are the  *)
(* constants of the frame.  Whose turn a descriptor is and whether frames  *)
(* tear each other is DataLink's.                                          *)
(***************************************************************************)
EXTENDS JY901

CONSTANTS
    Temperatures    \* what the thermal file says, in 1/1000 degree

ASSUME TemperatureAssumption == Temperatures # {} /\ Temperatures \subseteq Int

VARIABLES
    next,       \* the field that convert_rov_status_data reads next
    buff,       \* the fields of return_data filled so far
    Temperature, \* Sensor.CPU.Temperature as the frame being filled finds it
    torn,       \* history: the attitude was stored while this frame read it
    replaced    \* history: the temperature was, between its two reads

frameVars == <<next, buff, Temperature, torn, replaced>>
allVars == <<vars, frameVars>>

Empty == [roll |-> 0, pitch |-> 0, yaw |-> 0, whole |-> 0, decimal |-> 0]

----------------------------------------------------------------------------
\* Division that truncates toward zero, as C's conversions to integers do.
Truncate(n, d) == IF n >= 0 THEN n \div d ELSE -((-n) \div d)

\* (short)((angle + 180) * 100) in a uint16_t.  The product has more digits
\* than a float and may be rounded up to the next integer when it is less than
\* 4/2048 below it.
Words(a) ==
    LET n == (a + 180 * Degree) * 25    \* in 1/2048 of the unit
        up == IF n % 2048 >= 2044 THEN {Truncate(n, 2048), (n \div 2048) + 1}
                                  ELSE {Truncate(n, 2048)}
    IN  {w % 65536 : w \in up}

\* (int)data in an unsigned char.
Whole(data) == Truncate(data, 1000) % 256

\* The hundredths; a float is not exact where they are, so it may be one less.
\* Converting negative ones to uint8_t is undefined: 0, or what wraps.
get_decimal(data) ==
    LET fraction == data - 1000 * Truncate(data, 1000)
        d == Truncate(fraction, 10)
        ds == IF fraction % 10 = 0 /\ d # 0 THEN {d, d - 1} ELSE {d}
    IN  IF fraction >= 0 THEN ds ELSE {0} \cup {e % 256 : e \in ds \cup {d + 1}}

----------------------------------------------------------------------------
AllInit ==
    /\ Init
    /\ next = "roll" /\ buff = Empty
    /\ Temperature = 0 /\ torn = FALSE /\ replaced = FALSE

\* Bound: frames are filled while the line has had no fault, and the line has
\* none while one is being filled; what a fault does to the parser does not
\* reach them.
ReadRoll ==
    /\ next = "roll" /\ next' = "pitch" /\ faults = 0
    /\ \E w \in Words(Roll) : buff' = [buff EXCEPT !.roll = w]
    /\ torn' = (conv # "off")
    /\ UNCHANGED <<vars, Temperature, replaced>>

ReadPitch ==
    /\ next = "pitch" /\ next' = "yaw"
    /\ \E w \in Words(Pitch) : buff' = [buff EXCEPT !.pitch = w]
    /\ UNCHANGED <<vars, Temperature, torn, replaced>>

ReadYaw ==
    /\ next = "yaw" /\ next' = "whole"
    /\ \E w \in Words(Yaw) : buff' = [buff EXCEPT !.yaw = w]
    /\ UNCHANGED <<vars, Temperature, torn, replaced>>

\* The temperature is whatever the other thread has stored by now.
ReadWhole ==
    /\ next = "whole" /\ next' = "decimal"
    /\ Temperature' \in Temperatures \cup {0}
    /\ buff' = [buff EXCEPT !.whole = Whole(Temperature')]
    /\ UNCHANGED <<vars, torn, replaced>>

\* sensor_lowSpeed_callback_fun stores a reading between the two reads; one
\* stored before the first or after the second makes no difference.
StoreTemperature ==
    /\ next = "decimal"
    /\ Temperature' \in Temperatures
    /\ replaced' = TRUE
    /\ UNCHANGED <<vars, next, buff, torn>>

ReadDecimal ==
    /\ next = "decimal" /\ next' = "send"
    /\ \E d \in get_decimal(Temperature) : buff' = [buff EXCEPT !.decimal = d]
    /\ UNCHANGED <<vars, Temperature, torn, replaced>>

\* The next frame overwrites all fields before it is sent, so nothing of this
\* one is kept.
Send ==
    /\ next = "send" /\ next' = "roll"
    /\ buff' = Empty /\ Temperature' = 0 /\ torn' = FALSE /\ replaced' = FALSE
    /\ UNCHANGED vars

\* A step of the sensor, its line or its parser.
AttitudeStep ==
    /\ Next
    /\ faults' = faults \/ next = "roll"
    /\ torn' = (torn \/ (jy901_convert /\ next \in {"pitch", "yaw"}))
    /\ UNCHANGED <<next, buff, Temperature, replaced>>

AllNext == AttitudeStep \/ ReadRoll \/ ReadPitch \/ ReadYaw \/ ReadWhole
               \/ StoreTemperature \/ ReadDecimal \/ Send

AllSpec == AllInit /\ [][AllNext]_allVars

\* The fairness of JY901; clients may keep away, so frames have none.
AllFairSpec == AllSpec /\ WF_vars(jy901Setup) /\ WF_vars(Receive) /\ WF_vars(jy901_convert)

----------------------------------------------------------------------------
(* Properties *)

\* The angle a client reads in a word is less than 1/100 degree from a.
Tells(w, a) ==
    LET d == w * Degree - (a + 180 * Degree) * 100 IN -Degree < d /\ d < Degree

\* The yaw word is an angle unless it is read in the middle of its correction.
YawTold == conv \notin {"below", "above"} => 0 <= buff'.yaw /\ buff'.yaw <= 36000

\* Unless the parser stored meanwhile, all three words are of one attitude, the
\* one last received, with the yaw turned by the compass offset.  (Until the
\* first packet all of Sensor is 0.)
AttitudeTold ==
    ~torn /\ conv = "off" /\ Euler # <<0, 0, 0>>
        => LET raw(i) == angle(stc[83], i) * 45
           IN  /\ Tells(buff'.roll, raw(0))
               /\ Tells(buff'.pitch, raw(1))
               /\ \E turn \in -1..1 :
                      Tells(buff'.yaw, raw(2) + (360 * turn - Compass_Offset_Angle) * Degree)

\* A temperature that is not below zero and was not replaced between its two
\* reads is told to two decimals, at most one unit of the last too low.
TemperatureTold ==
    ~replaced /\ 0 <= Temperature /\ Temperature < 256000
        => (Temperature - 1000 * buff'.whole - 10 * buff'.decimal) \in 0..19

\* data.c:104, jy901.c:99-112: what a status frame tells its client was so.
FrameTruthful ==
    [][/\ ReadYaw => YawTold /\ AttitudeTold
       /\ ReadDecimal => TemperatureTold]_allVars
============================================================================
