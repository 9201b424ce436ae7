-------------------------- MODULE MCHeartbeatFile --------------------------
(* Small instances of HeartbeatFile. *)
EXTENDS HeartbeatFile

CONSTANTS w1, w2, v1, v2
=============================================================================
