------------------------------- MODULE Board -------------------------------
(***************************************************************************)
(* The board's status: the threads of SystemStatus, of which               *)
(* cpu_status_thread also draws the display of OledText, while main still  *)
(* sets that display up.                                                   *)
(***************************************************************************)
EXTENDS SystemStatus, OledText

CONSTANTS Scenes    \* which threads are scheduled, and what there is to show

ASSUME ScenesAssumption ==
    \A s \in Scenes : /\ s.threads \subseteq AllThreads
                      /\ s.widths \in [Numbers -> SUBSET Nat]
                      /\ s.display \in BOOLEAN
                      /\ s.ticks \in Nat \X Nat /\ s.ticks[1] + s.ticks[2] < M

vars == <<status_vars, oled_vars>>

Init ==
    /\ \E s \in Scenes :
          /\ Threads = s.threads /\ MaxTicks = s.ticks
          /\ Widths = s.widths /\ display = s.display
    /\ Status_Init /\ Oled_Init

\* cpu_status_thread draws the next text or sends it; with the fifth the round
\* is over.
oled_show_status ==
    /\ "cpu" \in Threads /\ At("cpu", "oled")
    /\ \/ (\E l \in Lines : Draw(l)) /\ UNCHANGED pc
       \/ Refresh /\ IF turn = 5 THEN Go("cpu") ELSE UNCHANGED pc
    /\ UNCHANGED <<Threads, MaxTicks, fp, mine, files, statVars, sever_sock, ip, alive, shared>>

Next ==
    \/ ((\E t \in Threads : thread(t)) \/ surroundings) /\ UNCHANGED <<Threads, MaxTicks, oled_vars>>
    \/ oled_show_status
    \/ alive /\ main_thread /\ UNCHANGED status_vars

Spec == Init /\ [][Next]_vars
============================================================================
