---------------------------- MODULE MCOrderbook ----------------------------
(* Small instances of the order book for TLC. *)
EXTENDS Orderbook, TLC

\* -1 and 0 are volumes that never rest.
EdgeVolumes == {-1, 0, 1, 2, 3}

\* The ids of unrelated orders are interchangeable.
IdSymmetry == Permutations(Ids)
============================================================================
