-------------------------- MODULE MCWatchdogClaims --------------------------
(***************************************************************************)
(* The instances of MCWatchdog, for the claims.                            *)
(***************************************************************************)
EXTENDS WatchdogClaims, MCWatchdog
=============================================================================
