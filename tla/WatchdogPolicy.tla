--------------------------- MODULE WatchdogPolicy ---------------------------
(***************************************************************************)
(* config.py, WatchdogPolicy: the bounds on stall detection, recovery and  *)
(* escalation.  A Policy object is immutable once built, so every bound is *)
(* a constant here.                                                        *)
(***************************************************************************)
EXTENDS Naturals

CONSTANTS
    Enabled,              \* watchdog.enabled
    NoProgressSeconds,    \* watchdog.no_progress_seconds
    NoProgressCycles,     \* watchdog.no_progress_cycles
    MaxIdenticalFailures, \* watchdog.max_identical_failures
    MaxRecoveryAttempts,  \* watchdog.max_recovery_attempts
    MaxNoProgressCycles,  \* watchdog.max_no_progress_cycles
    MaxTotalAttempts,     \* watchdog.max_total_attempts
    MaxModelEscalations   \* watchdog.max_model_escalations

Positive == Nat \ {0}

\* What __post_init__ enforces: every bound is positive, except that no
\* escalation at all may be allowed; and the two no-progress bounds agree.
ValidWatchdogPolicy ==
    /\ Enabled \in BOOLEAN
    /\ NoProgressSeconds \in Positive
    /\ NoProgressCycles \in Positive
    /\ MaxIdenticalFailures \in Positive
    /\ MaxRecoveryAttempts \in Positive
    /\ MaxNoProgressCycles \in Positive
    /\ MaxTotalAttempts \in Positive
    /\ MaxModelEscalations \in Nat
    /\ MaxNoProgressCycles >= NoProgressCycles

ASSUME WatchdogPolicyAssumption == ValidWatchdogPolicy
=============================================================================
