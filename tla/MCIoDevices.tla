---------------------------- MODULE MCIoDevices ----------------------------
(* The four calls at the head of softPWM_thread, ioDevices.c:115-118, with   *)
(* short times: one duration is below a tick, one period is a single tick,   *)
(* and one duration does not divide by its period.                           *)
EXTENDS IoDevices

Call(t, p, d, f) == [time |-> t, per |-> p, duty |-> d, flag |-> f]

ShortSettings ==
    [d \in PwmDevs |-> CASE d = "ledr" -> Call(60, 40, 50, 0)
                      [] d = "ledg" -> Call(9, 10, 50, 0)
                      [] d = "ledb" -> Call(50, 40, 50, 1)
                      [] d = "beep" -> Call(50, 30, 10, 0)]
============================================================================
