--------------------------- MODULE MCFrameStream ---------------------------
(***************************************************************************)
(* One worker, whose plugin takes commands, and one HTTP client.           *)
(***************************************************************************)
EXTENDS FrameStream
============================================================================
