------------------------------ MODULE Recovery ------------------------------
(***************************************************************************)
(* watchdog/recovery.py: the strategy ladder of RecoveryEngine and the     *)
(* counters of LoopGuard.  A LoopGuard value is a record; its methods are  *)
(* operators from a guard to a guard.                                      *)
(***************************************************************************)
EXTENDS WatchdogPolicy, Sequences

\* STRATEGY_LADDER; its last rung is "request_human_intervention".
CONSTANT StrategyLadder

Strategies == { StrategyLadder[i] : i \in DOMAIN StrategyLadder }

ASSUME StrategyLadderAssumption ==
    /\ StrategyLadder \in Seq(STRING)
    /\ Len(StrategyLadder) >= 1
    /\ \A i, j \in DOMAIN StrategyLadder :
           StrategyLadder[i] = StrategyLadder[j] => i = j
    /\ "exhausted" \notin Strategies

LastResort == StrategyLadder[Len(StrategyLadder)]

\* Faulty variant: the last resort is a rung like any other.
NeverLastResort(strategy) == FALSE

IsLastResort(strategy) == strategy = LastResort

\* RecoveryExhaustedError, as the result of next_strategy.
Exhausted == "exhausted"

Untried(tried) ==
    { i \in DOMAIN StrategyLadder :
          \A k \in DOMAIN tried : tried[k] # StrategyLadder[i] }

\* RecoveryEngine.next_strategy: the first rung not tried in this episode,
\* within the attempt bound and never after the last resort.
next_strategy(tried, attempt_number) ==
    IF \/ attempt_number > MaxRecoveryAttempts
       \/ tried # <<>> /\ IsLastResort(tried[Len(tried)])
       \/ Untried(tried) = {}
    THEN Exhausted
    ELSE StrategyLadder[CHOOSE i \in Untried(tried) :
                            \A j \in Untried(tried) : i <= j]
-----------------------------------------------------------------------------
LoopGuard == [ identical_failure_streak : Nat,
               recovery_attempts        : Nat,
               no_progress_cycles       : Nat,
               total_attempts           : Nat,
               model_escalations        : Nat ]

NewLoopGuard == [ identical_failure_streak |-> 0,
                  recovery_attempts        |-> 0,
                  no_progress_cycles       |-> 0,
                  total_attempts           |-> 0,
                  model_escalations        |-> 0 ]

record_attempt(g) == [g EXCEPT !.total_attempts = @ + 1]

record_identical_failure(g, is_repeat) ==
    [g EXCEPT !.identical_failure_streak = IF is_repeat THEN @ + 1 ELSE 0]

record_no_progress_cycle(g) == [g EXCEPT !.no_progress_cycles = @ + 1]

\* Faulty variant: progress forgets the no-progress counter.
ProgressNotCounted(g) == g

guard_record_progress(g) == [g EXCEPT !.no_progress_cycles = 0]

guard_record_escalation(g) == [g EXCEPT !.model_escalations = @ + 1]

can_start_recovery_attempt(g) == g.recovery_attempts < MaxRecoveryAttempts

record_recovery_attempt_started(g) == [g EXCEPT !.recovery_attempts = @ + 1]

\* Faulty variants: a new episode keeps its attempt counter, or resets the
\* execution-wide counters too.
EpisodeNotReset(g) == g
AllCountersReset(g) == NewLoopGuard

start_new_recovery_episode(g) == [g EXCEPT !.recovery_attempts = 0]

\* The execution-wide bounds; each trips strictly past its maximum.
exceeded(g) ==
    \/ g.identical_failure_streak > MaxIdenticalFailures
    \/ g.no_progress_cycles > MaxNoProgressCycles
    \/ g.total_attempts > MaxTotalAttempts
    \/ g.model_escalations > 0 /\ g.model_escalations > MaxModelEscalations
=============================================================================
