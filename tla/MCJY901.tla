------------------------------ MODULE MCJY901 ------------------------------
(* Small instances of JY901, with the status frame that reads it, for TLC. *)
EXTENDS StatusFrame

\* A packet of type t with data d.
Packet(t, d) ==
    LET r == <<Header, t>> \o d
    IN  Append(r, FoldLeft(LAMBDA acc, b : (acc + b) % 256, 0, r))

\* An angle of 179.99 degrees and an acceleration with 0x55 as the header
\* only, an angle with 0x55 as data, and the packet whose type is 0x55.
MixedPackets ==
    {Packet(83, <<0, 0, 0, 128, 255, 127, 3, 4>>), Packet(81, <<9, 8, 7, 6, 5, 4, 3, 2>>),
     Packet(83, <<1, 85, 0, 0, 85, 85, 1, 2>>), Packet(85, <<0, 0, 85, 0, 0, 0, 0, 0>>)}

\* A temperature whose hundredths a float misses, and one below zero.
SomeTemperatures == {45700, -1250}

\* The extreme compass offset.
MinOffset == -360
============================================================================
