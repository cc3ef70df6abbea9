-------------------------- MODULE MCMatchingSystem --------------------------
(* Small instances of the matching system for TLC. *)
EXTENDS MatchingSystem

\* The threads are interchangeable.
Symmetry == Permutations(Threads)
=============================================================================
