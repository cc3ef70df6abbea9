---------------------------- MODULE MCDemoDriver ----------------------------
(* main.cpp for TLC, with a ring of two slots. *)
EXTENDS DemoDriver
=============================================================================
