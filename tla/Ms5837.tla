------------------------------- MODULE Ms5837 -------------------------------
(***************************************************************************)
(* drivers/ms5837.c: the depth sensor.  Setup reads the calibration words  *)
(* of its PROM and checks their CRC; a reading converts two ADC values     *)
(* with them, in C integers that wrap.  SensorNodes says when the depth    *)
(* thread takes these steps.                                               *)
(*                                                                         *)
(* External: the sensor, the bus (which may flip one bit of one word) and  *)
(* the water.  The arithmetic is that of the code with the width W of int  *)
(* and the scales as parameters: 32 bits and 2^23 do not fit TLC's         *)
(* integers, so an instance scales them down together.                     *)
(***************************************************************************)
EXTENDS Integers

CONSTANTS
    W,              \* width of int32_t and uint32_t (32)
    RefScale,       \* 2^8, the scale of C5
    TempScale       \* 8388608, the scale of C6

ASSUME ScaleAssumption ==
    W \in Nat \ {0} /\ RefScale \in Nat \ {0} /\ TempScale \in Nat \ {0}

PRESSURE_SENSOR == 0
TEMPERATURE_SENSOR == 1

VARIABLES
    ms_present,     \* the sensor is plugged in
    prom,           \* the words of its PROM, the CRC in the first one
    noisy,          \* the bus may flip a bit
    water,          \* [D1, D2 : sets of ADC values of pressure, temperature]
    flipped,        \* history: the bus flipped a bit
    c,              \* ms5837->c
    crc, factory_id,
    n_rem, cnt,     \* _crc4: the remainder and the bytes divided
    want,           \* the CRC to compare with
    D1_Pres, D2_Temp, dT, TEMP, P,
    result,         \* what the last analogRead returned
    ms_pc           \* Setup: "calib", "check", "crc"; "ready" or "absent"

ms_chip == <<ms_present, prom, noisy, water>>
crcVars == <<n_rem, cnt, want>>
ms_reading == <<D1_Pres, D2_Temp, dT, TEMP, P, result>>
msVars == <<ms_chip, flipped, c, crc, factory_id, crcVars, ms_reading, ms_pc>>

----------------------------------------------------------------------------
(* C arithmetic.                                                           *)

Unsigned(x) == x % 2^W
Signed(x) == LET u == x % 2^W IN IF u >= 2^(W - 1) THEN u - 2^W ELSE u
\* Division of signed integers truncates towards zero.
Div(a, b) == IF a >= 0 THEN a \div b ELSE -((-a) \div b)

----------------------------------------------------------------------------
(* _crc4 divides with a remainder of 16 bits; the bits the code's uint32_t *)
(* keeps above bit 15 are never looked at again.                           *)

\* x ^ (1 << b)
Toggle(x, b) == IF (x \div 2^b) % 2 = 1 THEN x - 2^b ELSE x + 2^b

\* One turn of the inner loop: a shift, and ^ 0x3000 if bit 15 was set.
Shifted[rem \in 0..(2^16 - 1)] ==
    LET twice == (2 * rem) % 2^16
    IN  IF rem >= 2^15 THEN Toggle(Toggle(twice, 13), 12) ELSE twice

FourTurns(rem) == Shifted[Shifted[Shifted[Shifted[rem]]]]

\* Eight turns divide one byte.
Divided(rem) == FourTurns(FourTurns(rem))

\* Mutant: the low byte of every word comes first.
ByteOf_Swapped(w, i) == IF i >= 14 THEN 0
                        ELSE IF i % 2 = 0 THEN w[i \div 2] % 2^8
                        ELSE w[i \div 2] \div 2^8

\* Byte i of the words; the word past the last one is 0.
ByteOf(w, i) == IF i >= 14 THEN 0
                ELSE IF i % 2 = 1 THEN w[i \div 2] % 2^8
                ELSE w[i \div 2] \div 2^8

PromWords == 0..6

----------------------------------------------------------------------------
(* The CRC that the maker of the sensor puts into the first four bits of   *)
(* the PROM: the remainder of the other 108 bits, followed by zeros, by    *)
(* the polynomial x^4 + x + 1, digit by digit of four bits.                *)

\* The digit i of the words; the CRC itself counts as 0.
PromDigit(w, i) ==
    IF i \in 1..27 THEN (w[i \div 4] \div <<4096, 256, 16, 1>>[(i % 4) + 1]) % 16 ELSE 0

Bit(v, j) == (v \div <<1, 2, 4, 8>>[j + 1]) % 2

DigitOf(b3, b2, b1, b0) == 8 * b3 + 4 * b2 + 2 * b1 + b0

\* The remainder of h * x^4 + m, digits as polynomials over the bits: x^4 is
\* x + 1.
Mix(h, m) ==
    DigitOf((Bit(h, 3) + Bit(h, 2) + Bit(m, 3)) % 2,
            (Bit(h, 2) + Bit(h, 1) + Bit(m, 2)) % 2,
            (Bit(h, 1) + Bit(h, 0) + Bit(h, 3) + Bit(m, 1)) % 2,
            (Bit(h, 0) + Bit(h, 3) + Bit(m, 0)) % 2)

Crc4(w) ==
    LET rem[i \in 0..31] == IF i = 0 THEN 0 ELSE Mix(rem[i - 1], PromDigit(w, i - 1))
    IN  rem[31]

RightCrc(w) == w[0] \div 4096 = Crc4(w)

----------------------------------------------------------------------------

Ms_Init ==
    /\ flipped = FALSE
    /\ c = [i \in PromWords |-> 0]
    /\ crc = 0 /\ factory_id = 0
    /\ n_rem = 0 /\ cnt = 0 /\ want = 0
    /\ D1_Pres = 0 /\ D2_Temp = 0 /\ dT = 0 /\ TEMP = 0 /\ P = 0
    /\ result = 0
    /\ ms_pc = "calib"

\* wiringPiI2CReadReg16 is an SMBus word read, which takes the first byte as
\* the low one; the sensor sends the high byte first.
Swapped(v) == (v % 256) * 256 + v \div 256

\* What wiringPiI2CReadReg16 makes of the PROM: a read that fails gives -1,
\* which is 0xFFFF in a uint16_t.
Delivered == [i \in PromWords |-> IF ms_present THEN Swapped(prom[i]) ELSE 2^16 - 1]

Flip(w, i, b) == [w EXCEPT ![i] = Toggle(@, b)]

\* ms5837_reset, and the reads of ms5837_get_calib_param, which takes the CRC
\* and the id apart.
Ms_Setup_Calib ==
    /\ ms_pc = "calib"
    /\ \/ c' = Delivered /\ UNCHANGED flipped
       \/ /\ noisy /\ ms_present
          /\ \E i \in PromWords, b \in 0..15 : c' = Flip(Delivered, i, b)
          /\ flipped' = TRUE
    /\ crc' = c'[0] \div 2^12
    /\ factory_id' = c'[0] % 2^8
    /\ ms_pc' = "check"
    /\ UNCHANGED <<ms_chip, crcVars, ms_reading>>

\* _crc4 works in place: it clears the CRC bits of c[0], and the word it
\* writes past the end of c[7] is crc and factory_id.  (The build loads
\* ms5837->crc before it makes the call.)
Crc_Start ==
    /\ ms_pc = "check"
    /\ want' = crc
    /\ c' = [c EXCEPT ![0] = @ % 2^12]
    /\ crc' = 0 /\ factory_id' = 0
    /\ n_rem' = 0 /\ cnt' = 0
    /\ ms_pc' = "crc"
    /\ UNCHANGED <<ms_chip, flipped, ms_reading>>

\* One byte is added to the 8 zero bits the shifts before it left (^), and
\* divided.
Crc_Byte ==
    /\ ms_pc = "crc"
    /\ cnt < 16
    /\ n_rem' = Divided(n_rem + ByteOf(c, cnt))
    /\ cnt' = cnt + 1
    /\ UNCHANGED <<ms_chip, flipped, c, crc, factory_id, want, ms_pc, ms_reading>>

\* Setup goes on, and makes its node, if the CRC is the one read.
Ms_Setup_Check ==
    /\ ms_pc = "crc"
    /\ cnt = 16
    /\ ms_pc' = IF want = n_rem \div 2^12 THEN "ready" ELSE "absent"
    /\ UNCHANGED <<ms_chip, flipped, c, crc, factory_id, crcVars, ms_reading>>

----------------------------------------------------------------------------
(* A reading.                                                              *)

\* ms5837_cal_raw_temperature: dT * (uint32_t)c[6] is an unsigned product.
RawDT(d2) == Signed(d2 - c[5] * RefScale)

\* Mutant: the reference temperature is not scaled.
RawTEMP_Unscaled(d2) ==
    2000 + Unsigned(Unsigned(d2 - c[5]) * c[6]) \div TempScale

RawTEMP(d2) ==
    2000 + Unsigned(Unsigned(RawDT(d2)) * c[6]) \div TempScale

\* ms5837_cal_pressure.  D1_Pres is read and not used; dT squared is kept in
\* W bits, so that the quotients by 2^(W+1) and 2^(W+5) are 0.
Compensation(t, d) ==
    LET dT_squ == Unsigned(d * d)
        minus_squ == Unsigned((2000 - t) * (2000 - t))
        plus_squ == Unsigned((t + 1500) * (t + 1500))
    IN  IF t < 2000
        THEN [Ti |-> Unsigned(3 * dT_squ) \div 2^(W + 1),
              OFFi |-> Unsigned(3 * minus_squ) \div 2
                        + (IF t < -1500 THEN Unsigned(7 * plus_squ) ELSE 0),
              SENSi |-> Unsigned(5 * minus_squ) \div 8
                        + (IF t < -1500 THEN Unsigned(4 * plus_squ) ELSE 0)]
        ELSE [Ti |-> Unsigned(2 * dT_squ) \div 2^(W + 5),
              OFFi |-> minus_squ \div 16,
              SENSi |-> 0]

Pressure(t, d) ==
    LET k == Compensation(t, d)
        OFF == c[2] * 65536 + Div(c[4] * d, 128) - k.OFFi
        SENS == c[1] * 32768 + Div(c[3] * d, 256) - k.SENSi
    IN  Div(Div(SENS, 2097152) - OFF, 4096)

\* analogRead on one of the node's pins: both values are measured, one is
\* returned.
ms5837_myDigitalRead(channel) ==
    /\ ms_pc = "ready"
    /\ \E d2 \in water.D2, d1 \in water.D1 :
        /\ D2_Temp' = d2
        /\ dT' = RawDT(d2)
        /\ TEMP' = RawTEMP(d2)
        /\ D1_Pres' = d1
        /\ P' = Pressure(TEMP', dT')
    /\ result' = CASE channel = PRESSURE_SENSOR -> Div(P', 10)
                   [] channel = TEMPERATURE_SENSOR ->
                        Div(TEMP' - Compensation(TEMP', dT').Ti, 100)
                   [] OTHER -> -1
    /\ UNCHANGED <<ms_chip, flipped, c, crc, factory_id, crcVars, ms_pc>>

Ms_Setup == Ms_Setup_Calib \/ Crc_Start \/ Crc_Byte \/ Ms_Setup_Check

----------------------------------------------------------------------------
(* Properties *)

\* The calibration words as they arrived: _crc4 has cleared the CRC bits of
\* the first one, and want holds them.
Arrived == [c EXCEPT ![0] = want * 4096 + @]

\* The byte-wise division in place accepts exactly the words that carry their
\* CRC (ms5837.c:79-93).  No sensor at all is never accepted, and where the
\* words the bus makes of an intact PROM carry their CRC, a flipped bit,
\* wherever it is, is noticed.  Those words are the PROM's with their bytes
\* swapped: most intact PROMs are therefore refused, and of one that is, a
\* flipped bit may make an accepted one.
AcceptedByCrc ==
    /\ ms_pc = "ready" => /\ ms_present /\ RightCrc(Arrived)
                          /\ Arrived = Delivered \/ ~RightCrc(Delivered)
    /\ ms_pc = "absent" => ~RightCrc(Arrived)

\* The temperature as the datasheet defines it, of the calibration words as
\* the driver holds them, without wrap-around.
TrueTEMP == 2000 + Div((D2_Temp - c[5] * RefScale) * c[6], TempScale)

\* At and above 20 degrees, as long as dT * C6 fits, TEMP is the true one.
WarmExact ==
    ms_pc = "ready" /\ TEMP # 0 /\ D2_Temp >= c[5] * RefScale
            /\ (D2_Temp - c[5] * RefScale) * c[6] < 2^W
            /\ D2_Temp < 2^(W - 1)
        => TEMP = TrueTEMP
=============================================================================
