--------------------------- MODULE MCReplayDriver ---------------------------
(* A small instance of the replay driver for TLC. *)
EXTENDS ReplayDriver
=============================================================================
