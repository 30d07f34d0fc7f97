------------------------------ MODULE MCElog ------------------------------
(***************************************************************************)
(* Two threads, lines of 2 and 3 bytes, the longer one cut, of both kinds, *)
(* and a ring buffer of 4 bytes, which two lines fill over its end.        *)
(***************************************************************************)
EXTENDS Elog
============================================================================
