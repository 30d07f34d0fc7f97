---------------------------- MODULE MCPropeller ----------------------------
(* Small instances of Propeller for TLC. *)
EXTENDS Propeller

\* Horizontal drive: ahead, centre and astern, no depth command.
HorizontalSticks ==
    [f \in StickFields |->
        CASE f = "Move" -> {118, 126, 134}
          [] f = "Translation" -> {128}
          [] f = "Vertical" -> {127}
          [] f = "Power" -> {80}]

\* Depth drive: dive, hold and rise, horizontal sticks centred.
VerticalSticks ==
    [f \in StickFields |->
        CASE f = "Move" -> {126}
          [] f = "Translation" -> {128}
          [] f = "Vertical" -> {0, 127, 254}
          [] f = "Power" -> {80}]

ShortDives == {[sticks |-> HorizontalSticks, depths |-> {0}],
               [sticks |-> VerticalSticks, depths |-> {0, 5}]}
============================================================================
