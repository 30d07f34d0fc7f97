----------------------------- MODULE MCDataLink -----------------------------
(* Small instances of DataLink for TLC. *)
EXTENDS DataLink, TLC

CONSTANTS c1, c2
TwoConns == {c1, c2}
============================================================================
