-------------------------- MODULE MCCheckpointFile ---------------------------
(* Model-checking instance of CheckpointFile. *)
EXTENDS CheckpointFile
=============================================================================
