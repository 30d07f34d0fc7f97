----------------------------- MODULE MCPca9685 -----------------------------
(* Instances of Pca9685: counters of 2 x 4 values for 4096.                *)
EXTENDS Pca9685

CONSTANTS t1, t2

\* One thread writes channel 0 and all channels at once, the other channel 1.
OwnsMixed == [t \in Threads |-> IF t = t1 THEN {0, PIN_ALL} ELSE {1}]
MCPrescale(f) == 100 \div f
=============================================================================
