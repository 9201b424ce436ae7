---------------------------- MODULE MCCheckpoint ----------------------------
(* Small instances of CheckpointStore. *)
EXTENDS CheckpointProperties

CONSTANTS a1, a2, r1

UpTo3 == 1..3
=============================================================================
