------------------------------ MODULE MCBoard ------------------------------
(***************************************************************************)
(* Three scenes: texts of many widths drawn while main sets the display    *)
(* up, the two readers of the temperature, and the threads that open other *)
(* files.                                                                  *)
(***************************************************************************)
EXTENDS Board

Texts(a, u, m, d, s) ==
    [n \in Numbers |-> CASE n = "ip" -> a [] n = "usage" -> u [] n = "mem" -> m
                         [] n = "disk" -> d [] n = "speed" -> s]
OneText == Texts({11}, {4}, {3}, {3}, {4})

BoardScenes ==
    {[threads |-> {"cpu"}, ticks |-> <<1, 1>>, display |-> TRUE,
      widths |-> Texts({11}, {3, 5}, {4}, {4}, {4, 6})],
     [threads |-> {"cpu", "low"}, ticks |-> <<1, 0>>, display |-> FALSE, widths |-> OneText],
     [threads |-> {"low", "net", "mem"}, ticks |-> <<1, 1>>, display |-> FALSE, widths |-> OneText]}
============================================================================
