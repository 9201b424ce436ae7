--------------------------- MODULE StallDetection ---------------------------
(***************************************************************************)
(* watchdog/stall_detection.py: StallDetector.evaluate() as a predicate.   *)
(*                                                                         *)
(* The detector looks only at the activities recorded strictly after the   *)
(* boundary (the last real progress, or the start).  The boundary never    *)
(* moves back, so an activity at or before it never counts again: `since'  *)
(* below is that suffix, oldest first, and needs no time stamps.  `slow'   *)
(* stands for is_trivial with a duration of at least                       *)
(* trivial_command_timeout_seconds.                                        *)
(***************************************************************************)
EXTENDS WatchdogPolicy, Sequences, FiniteSets

CONSTANT Fingerprints

ActivityRecord == [ fingerprint : Fingerprints,
                    succeeded   : BOOLEAN,
                    slow        : BOOLEAN ]

\* Faulty variant: time alone.
NoProgressForLong(now, boundary, since) == now - boundary >= NoProgressSeconds

\* No progress for long enough AND across enough attempts.
NoProgressSignal(now, boundary, since) ==
    /\ now - boundary >= NoProgressSeconds
    /\ Len(since) >= NoProgressCycles

\* The maximal run of failures at the end of since.
TrailingFailures(since) ==
    { i \in DOMAIN since : \A j \in i..Len(since) : ~since[j].succeeded }

\* Enough trailing failures, all with one fingerprint.
IdenticalFailuresSignal(since) ==
    LET trailing == TrailingFailures(since)
    IN  /\ Cardinality(trailing) >= MaxIdenticalFailures
        /\ Cardinality({ since[i].fingerprint : i \in trailing }) = 1

CircularThreshold ==
    IF MaxIdenticalFailures + 1 > 3 THEN MaxIdenticalFailures + 1 ELSE 3

\* One fingerprint repeated, whether or not it succeeded.
CircularSignal(since) ==
    \E f \in Fingerprints :
        Cardinality({ i \in DOMAIN since : since[i].fingerprint = f })
            >= CircularThreshold

SlowTrivialSignal(since) ==
    Cardinality({ i \in DOMAIN since : since[i].slow }) >= 2

is_stalled(now, boundary, since) ==
    /\ Enabled
    /\ \/ NoProgressSignal(now, boundary, since)
       \/ IdenticalFailuresSignal(since)
       \/ CircularSignal(since)
       \/ SlowTrivialSignal(since)
=============================================================================
