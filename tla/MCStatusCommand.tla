-------------------------- MODULE MCStatusCommand --------------------------
(* Small instances of StatusCommand. *)
EXTENDS StatusCommand, TLC

CONSTANTS w1, w2, v1

UpTo2 == 0..2

WriterSymmetry == Permutations({ w1, w2 })
=============================================================================
