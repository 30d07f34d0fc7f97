------------------------------ MODULE Spl1301 ------------------------------
(***************************************************************************)
(* drivers/spl1301.c: the other depth sensor.  Setup decodes the nine      *)
(* calibration coefficients, configures both channels and starts the       *)
(* background mode, in which the chip replaces its results by itself; a    *)
(* reading fetches them byte by byte.                                      *)
(*                                                                         *)
(* External: the chip and its samples.  Its configuration survives a       *)
(* restart of the program, for Setup does not reset it.  The polynomials   *)
(* of get_spl1301_pressure and get_spl1301_temperature are represented by  *)
(* the values a reading leaves for them: spl_raw, k and calib.             *)
(***************************************************************************)
EXTENDS Integers, Sequences, FiniteSets

Bytes == 0..255
Channels == {"P", "T"}      \* PRESSURE_SENSOR, TEMPERATURE_SENSOR

VARIABLES
    spl_present,    \* the chip is plugged in
    mem,            \* its calibration memory, from 0x10 on
    samples,        \* the results it may measure, <<high, middle, low>> bytes
    asked,          \* [Channels -> the rates Setup asks for] (32 and 8 in the code)
    reg,            \* [Channels -> PRS_CFG (0x06) and TMP_CFG (0x07)]
    shift,          \* CFG_REG (0x09): channels whose result shift is on
    mode,           \* MEAS_CFG (0x08)
    sample,         \* [Channels -> the result registers]
    calib, k,       \* spl1301->calib_param; i32kP and i32kT
    spl_raw,        \* i32rawPressure and i32rawTemperature
    spl_pc,         \* Setup: "calib", "rateP", "rateT", "start", "check" and
                    \* "absent"; then "idle", or a reading: "rawT", "rawP"
    bytes,          \* bytes of the result read so far
    chan,           \* channel asked for
    held            \* history: [Channels -> results held since the reading began]

spl_chip == <<spl_present, mem, samples, asked>>
spl_reading == <<spl_raw, bytes, chan>>
splVars == <<spl_chip, reg, shift, mode, sample, calib, k, spl_reading, spl_pc, held>>

----------------------------------------------------------------------------
(* spl1301_get_calib_param.  A read that fails returns -1, all ones.       *)

ReadReg(i) == IF spl_present THEN mem[i] ELSE -1

\* v shifted in below acc, a field of 2^w values; -1 sets every bit above.
Join(acc, v, n) == IF v = -1 THEN -1 ELSE acc * n + v
High4(v) == IF v = -1 THEN -1 ELSE v \div 16
Low4(v) == IF v = -1 THEN 15 ELSE v % 16

\* The value of a field of n values as a signed number.
SignExtend(v, n) == IF v >= n \div 2 THEN v - n ELSE v

Coef16(i) == SignExtend(Join(ReadReg(i), ReadReg(i + 1), 256), 2^16)

spl1301_get_calib_param ==
    [c0 |-> SignExtend(Join(ReadReg(0), High4(ReadReg(1)), 16), 2^12),
     c1 |-> SignExtend(Join(Low4(ReadReg(1)), ReadReg(2), 256), 2^12),
     c00 |-> SignExtend(Join(Join(ReadReg(3), ReadReg(4), 256),
                             High4(ReadReg(5)), 16), 2^20),
     c10 |-> SignExtend(Join(Join(Low4(ReadReg(5)), ReadReg(6), 256),
                             ReadReg(7), 256), 2^20),
     c01 |-> Coef16(8), c11 |-> Coef16(10), c20 |-> Coef16(12),
     c21 |-> Coef16(14), c30 |-> Coef16(16)]

----------------------------------------------------------------------------
(* spl1301_rateset                                                         *)

\* The codes of the rates 1, 2, 4 .. 128; any other rate is coded as 1.
RateCode(r) == IF \E e \in 0..7 : r = 2^e THEN CHOOSE e \in 0..7 : r = 2^e ELSE 0

Scale == <<524288, 1572864, 3670016, 7864320, 253952, 516096, 1040384, 2088960>>

\* Bit 2 (pressure) or 3 (temperature) of CFG_REG, read and written back.
Shifts(ch, over) == IF over > 8 THEN shift \cup {ch} ELSE shift \ {ch}

spl1301_rateset(ch, smpl, over) ==
    /\ k' = [k EXCEPT ![ch] = Scale[RateCode(over) + 1]]
    /\ reg' = [reg EXCEPT ![ch] = [rate |-> RateCode(smpl), over |-> RateCode(over)]]
    /\ shift' = Shifts(ch, over)

----------------------------------------------------------------------------
NoCalib == [c0 |-> 0, c1 |-> 0, c00 |-> 0, c10 |-> 0, c01 |-> 0, c11 |-> 0,
            c20 |-> 0, c21 |-> 0, c30 |-> 0]

\* The chip, and what an earlier run of the program left in it, is chosen by
\* the board.
Spl_Init ==
    /\ reg = [ch \in Channels |-> [rate |-> 0, over |-> 0]]
    /\ sample \in [Channels -> samples]
    /\ calib = NoCalib
    /\ k = [ch \in Channels |-> 0]
    /\ spl_raw = [ch \in Channels |-> 0]
    /\ spl_pc = "calib"
    /\ bytes = << >>
    /\ chan = "P"
    /\ held = [ch \in Channels |-> {}]

Spl_Setup_Calib ==
    /\ spl_pc = "calib"
    /\ calib' = spl1301_get_calib_param
    /\ spl_pc' = "rateP"
    /\ UNCHANGED <<spl_chip, reg, shift, mode, sample, k, spl_reading, held>>

\* Writes to a chip that is not there change nothing but k.
Setup_Rate(ch, here, next) ==
    /\ spl_pc = here
    /\ IF spl_present THEN spl1301_rateset(ch, asked[ch].smpl, asked[ch].over)
       ELSE /\ k' = [k EXCEPT ![ch] = Scale[RateCode(asked[ch].over) + 1]]
            /\ UNCHANGED <<reg, shift>>
    /\ spl_pc' = next
    /\ UNCHANGED <<spl_chip, mode, sample, calib, spl_reading, held>>

\* spl1301_start_continuous(CONTINUOUS_P_AND_T): 3 + 4.
Setup_Start ==
    /\ spl_pc = "start"
    /\ mode' = IF spl_present THEN 3 + 4 ELSE mode
    /\ spl_pc' = "check"
    /\ UNCHANGED <<spl_chip, reg, shift, sample, calib, k, spl_reading, held>>

Spl_Setup_Check ==
    /\ spl_pc = "check"
    /\ spl_pc' = IF calib.c0 = -1 THEN "absent" ELSE "idle"
    /\ UNCHANGED <<spl_chip, reg, shift, mode, sample, calib, k, spl_reading, held>>

----------------------------------------------------------------------------
(* A reading.                                                              *)

\* In background mode the chip replaces a result at any time; before Setup is
\* over nobody reads it.
Chip_Sample ==
    /\ spl_present /\ mode = 7
    /\ spl_pc \in {"idle", "rawT", "rawP"}
    /\ \E ch \in Channels, s \in samples :
        /\ s # sample[ch]
        /\ sample' = [sample EXCEPT ![ch] = s]
        /\ held' = [held EXCEPT ![ch] = IF spl_pc = "idle" THEN @ ELSE @ \cup {s}]
    /\ UNCHANGED <<spl_chip, reg, shift, mode, calib, k, spl_pc, spl_reading>>

\* analogRead: the temperature comes first, whatever the channel.
spl1301_myDigitalRead(ch) ==
    /\ spl_pc = "idle"
    /\ chan' = ch
    /\ spl_pc' = "rawT"
    /\ bytes' = << >>
    /\ held' = [x \in Channels |-> {sample[x]}]
    /\ UNCHANGED <<spl_chip, reg, shift, mode, sample, calib, k, spl_raw>>

\* One register of spl1301_get_raw_temp or spl1301_get_raw_pressure.
Read_Byte(ch, here) ==
    /\ spl_pc = here
    /\ Len(bytes) < 3
    /\ bytes' = Append(bytes, sample[ch][Len(bytes) + 1])
    /\ UNCHANGED <<spl_chip, reg, shift, mode, sample, calib, k, spl_raw, spl_pc, chan, held>>

\* Mutant: the low byte first.
Signed24_Swapped(b) == SignExtend((b[3] * 256 + b[2]) * 256 + b[1], 2^24)

Signed24(b) == SignExtend((b[1] * 256 + b[2]) * 256 + b[3], 2^24)

Raw_Temp ==
    /\ spl_pc = "rawT"
    /\ Len(bytes) = 3
    /\ spl_raw' = [spl_raw EXCEPT !["T"] = Signed24(bytes)]
    /\ bytes' = << >>
    /\ spl_pc' = IF chan = "P" THEN "rawP" ELSE "idle"
    /\ UNCHANGED <<spl_chip, reg, shift, mode, sample, calib, k, chan, held>>

Raw_Pressure ==
    /\ spl_pc = "rawP"
    /\ Len(bytes) = 3
    /\ spl_raw' = [spl_raw EXCEPT !["P"] = Signed24(bytes)]
    /\ bytes' = << >>
    /\ spl_pc' = "idle"
    /\ UNCHANGED <<spl_chip, reg, shift, mode, sample, calib, k, chan, held>>

Spl_Setup ==
    \/ Spl_Setup_Calib
    \/ Setup_Rate("P", "rateP", "rateT") \/ Setup_Rate("T", "rateT", "start")
    \/ Setup_Start \/ Spl_Setup_Check

\* The rest of a reading that has begun.
Spl_Read ==
    \/ Read_Byte("T", "rawT") \/ Read_Byte("P", "rawP")
    \/ Raw_Temp \/ Raw_Pressure

----------------------------------------------------------------------------
(* Properties *)

\* The calibration memory is one stream of 4-bit digits; a coefficient is a
\* signed field of it.
Digit(i) == IF i % 2 = 0 THEN mem[i \div 2] \div 16 ELSE mem[i \div 2] % 16
Field(first, n) ==
    LET value[i \in 0..n] == IF i = 0 THEN 0
                             ELSE value[i - 1] * 16 + Digit(first + i - 1)
    IN  IF Digit(first) >= 8 THEN value[n] - 16^n ELSE value[n]

\* The decoded coefficients are the nine consecutive signed fields of 3, 3,
\* 5, 5 and five times 4 digits (spl1301.c:130-168).
CalibRight ==
    /\ calib.c0 = Field(0, 3) /\ calib.c1 = Field(3, 3)
    /\ calib.c00 = Field(6, 5) /\ calib.c10 = Field(11, 5)
    /\ calib.c01 = Field(16, 4) /\ calib.c11 = Field(20, 4)
    /\ calib.c20 = Field(24, 4) /\ calib.c21 = Field(28, 4)
    /\ calib.c30 = Field(32, 4)

\* The scale the driver divides by and the result shift of the chip belong to
\* the oversampling the chip runs with, whatever it was set to before
\* (spl1301.c:28-125).
ConfigConsistent ==
    \A ch \in Channels : /\ k[ch] = Scale[reg[ch].over + 1]
                         /\ ch \in shift <=> reg[ch].over > 3

ValueOf(s) == (IF s[1] > 127 THEN s[1] - 256 ELSE s[1]) * 65536
                + s[2] * 256 + s[3]

\* If the chip did not replace the result during the reading, the value used
\* is that result, sign included, and it is of this reading.
QuietRawRight ==
    spl_pc = "idle" => \A ch \in Channels :
        (Cardinality(held[ch]) = 1 /\ (ch = "T" \/ chan = "P")) =>
            spl_raw[ch] = ValueOf(CHOOSE s \in held[ch] : TRUE)
=============================================================================
