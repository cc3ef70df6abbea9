----------------------------- MODULE MCAckPath -----------------------------
(* Small instances of the way of the acknowledgements for TLC. *)
EXTENDS AckPath
============================================================================
