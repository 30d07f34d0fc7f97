--------------------------- MODULE CommandedServo ---------------------------
(***************************************************************************)
(* What a commanded actuator of the ROV promises: a one-byte mailbox the   *)
(* operator writes and a position that moves by one Speed per command      *)
(* taken from the mailbox, at most once per command stored, and never      *)
(* beyond its ends.  A command may be dropped unseen.                      *)
(***************************************************************************)
EXTENDS Integers

CONSTANTS
    MaxValue, MinValue, MedValue, Speed,
    Increase, Decrease, Centre      \* sets of command bytes

VARIABLES pos, box,
          sent       \* flips whenever a command is stored

\* The position after obeying byte b.
Move(p, b) ==
    CASE b \in Increase -> IF p + Speed > MaxValue THEN MaxValue ELSE p + Speed
      [] b \in Decrease -> IF p - Speed < MinValue THEN MinValue ELSE p - Speed
      [] b \in Centre -> MedValue
      [] OTHER -> p

Init == pos = MedValue /\ box = 0 /\ sent = 0

\* The operator's command arrives, replacing one not yet taken.
Store == box' \in 0..255 /\ sent' = 1 - sent /\ UNCHANGED pos

\* The command is taken and obeyed.
Obey == pos' = Move(pos, box) /\ box' = 0 /\ UNCHANGED sent

\* The command is cleared without having been seen.
Drop == box' = 0 /\ UNCHANGED <<pos, sent>>

Next == Store \/ Obey \/ Drop

Spec == Init /\ [][Next]_<<pos, box, sent>>
============================================================================
