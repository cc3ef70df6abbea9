--------------------------- MODULE MCInboundRing ---------------------------
(* Small instances of the inbound ring for TLC. *)
EXTENDS InboundRing
============================================================================
