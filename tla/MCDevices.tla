----------------------------- MODULE MCDevices -----------------------------
(* Small instances of Devices for TLC. *)
EXTENDS Devices

\* Every byte the code distinguishes; for the light also one it does not know.
AllBytes ==
    [d \in Devs |-> CASE d = "Arm" -> {0, 1, 2}
                      [] d = "Light" -> {0, 1, 2, 7}
                      [] d = "Yuntai" -> {0, 1, 2, 3}]
============================================================================
