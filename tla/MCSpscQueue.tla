---------------------------- MODULE MCSpscQueue ----------------------------
(* A small instance of the SPSC queue for TLC. *)
EXTENDS SpscQueue
============================================================================
