--------------------------- MODULE MCSensorNodes ---------------------------
(* Boards for SensorNodes: every family varies one thing and keeps the     *)
(* rest.  Full-width PROMs for the CRC; 10-bit integers with scales 4 and  *)
(* 64 for the MS5837's arithmetic.                                         *)
EXTENDS SensorNodes

Prom(s) == [i \in PromWords |-> s[i + 1]]

\* Memories that put the sign bits and the digits beside them at every value.
Pattern(x, y, z) == [i \in 0..17 |-> CASE i % 3 = 0 -> x [] i % 3 = 1 -> y
                                       [] OTHER -> z]
Edges == {0, 127, 128, 255}

Rates(p, t) == [ch \in Channels |-> [smpl |-> 32, over |-> IF ch = "P" THEN p ELSE t]]
Dry == [D1 |-> {}, D2 |-> {}]

Bare == [buses |-> {"spi", "i2c"}, returnCodes |-> FALSE,
         ms |-> FALSE, prom |-> Prom(<<0, 0, 0, 0, 0, 0, 0>>), noisy |-> FALSE,
         water |-> Dry,
         spl |-> FALSE, mem |-> Pattern(18, 52, 171), samples |-> {<<0, 0, 1>>},
         asked |-> Rates(8, 8), shift |-> {}, mode |-> 0]

\* Every combination of buses, error modes and plugged sensors.
Plugged == {[Bare EXCEPT !.buses = b, !.returnCodes = r, !.ms = m, !.spl = s] :
                b \in SUBSET {"spi", "i2c"}, r, m, s \in BOOLEAN}

\* A bus that flips a bit; bits 15 to 12 of the first word are the CRC.  The
\* first PROM carries its CRC with the bytes of each word swapped too, the
\* second does not.
Noisy == {[Bare EXCEPT !.ms = TRUE, !.noisy = TRUE, !.prom = p] :
            p \in {Prom(<<8215, 46372, 36329, 29687, 65535, 0, 28446>>),
                   Prom(<<16675, 46372, 36329, 29687, 65535, 0, 28446>>)}}

\* Readings on both sides of the reference temperature, with products that
\* fit the integers and products that wrap.  The PROMs pass the check with
\* their bytes swapped, and their words then are 9, 3, 40, 60, 3 or 5, 7 or 20.
Deep == {[Bare EXCEPT !.ms = TRUE, !.prom = Prom(p),
            !.water = [D1 |-> {900}, D2 |-> {1, 7, 12, 13, 19, 20, 21, 30, 45, 70, 71, 90}]] :
            p \in {<<256, 2304, 768, 10240, 15360, 768, 1792>>,
                   <<256, 2304, 768, 10240, 15360, 768, 5120>>,
                   <<0, 2304, 768, 10240, 15360, 1280, 1792>>,
                   <<0, 2304, 768, 10240, 15360, 1280, 5120>>}}

Calibrations == {[Bare EXCEPT !.spl = TRUE, !.mem = Pattern(x, y, z)] :
                    x, y, z \in Edges}

\* Every rate beside one with and one without the shift, on a running chip
\* whose shifts an earlier run left in every state.
AllRates == {1, 2, 4, 8, 16, 32, 64, 128, 3}
Configurations == {[Bare EXCEPT !.spl = TRUE, !.asked = r, !.shift = s, !.mode = 7] :
                    r \in {Rates(x, y) : x \in AllRates, y \in {8, 16}}
                        \cup {Rates(x, y) : x \in {8, 16}, y \in AllRates},
                    s \in SUBSET Channels}

Sampling == {[Bare EXCEPT !.spl = TRUE, !.samples = {<<0, 255, 255>>, <<255, 128, 7>>}]}

MCBoards == Plugged \cup Noisy \cup Deep \cup Calibrations \cup Configurations \cup Sampling
=============================================================================
