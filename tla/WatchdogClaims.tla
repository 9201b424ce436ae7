--------------------------- MODULE WatchdogClaims ---------------------------
(***************************************************************************)
(* Statements that the repository makes about the watchdog and that the    *)
(* code does not keep: the runs are expected to find them violated.        *)
(***************************************************************************)
EXTENDS ExecutionWatchdogProperties

\* README: an execution can never silently go quiet.  A started execution that
\* is neither COMPLETED nor BLOCKED has a call that moves it on.
NeverGoesQuiet ==
    started /\ state \notin { "completed", "blocked" } => ENABLED (Next /\ state' # state)

\* _require_active and blocked.py: begin_recovery() may resume a BLOCKED
\* execution, once a human has addressed the root cause.
BlockedCanResume ==
    state = "blocked" => ENABLED (Next /\ state' = "recovering")
=============================================================================
