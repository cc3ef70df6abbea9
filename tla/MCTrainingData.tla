--------------------------- MODULE MCTrainingData ---------------------------
(* All files of a few rows for TLC. *)
EXTENDS TrainingData
=============================================================================
