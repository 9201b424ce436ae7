-------------------- MODULE ExecutionWatchdogProperties --------------------
(***************************************************************************)
(* What an execution supervised by ExecutionWatchdog may rely on.          *)
(***************************************************************************)
EXTENDS ExecutionWatchdog, Functions

\* Every attribute of the coordinator has the type its constructor and its
\* methods give it.
TypeOK ==
    /\ setup \in Setups
    /\ state \in ExecutionState
    /\ now \in Nat /\ started \in BOOLEAN /\ boundary \in Nat
    /\ recent \in Seq(ActivityRecord)
    /\ last \in ActivityRecord \cup {NoActivity}
    /\ guard \in LoopGuard
    /\ episode \in Nat
    /\ attempts \in Seq(RecoveryAttempt)
    /\ tried \in Seq(Strategies)
    /\ history \in Seq(RecoveryEpisode)
    /\ report \in BlockedReport \cup {NoReport}
    /\ used \in Usage
    /\ tier \in ModelTier /\ reasoning \in ReasoningEffort
    /\ escalations_used \in Nat
    /\ error \in Errors
    /\ evidence \in Descriptions \cup {NoText}
    /\ pending \in PendingWork \cup {NoText}
    /\ dirty \in BOOLEAN
-----------------------------------------------------------------------------
(* Recovery episodes *)

InEpisode == state \in { "stalled", "recovering" }

\* Every episode evaluate() opens is closed exactly once, in order and before
\* the next one opens, although _close_recovery_episode never clears
\* _episode_opened_at: the audit trail has neither gaps nor duplicates.
EpisodesCloseOnce ==
    /\ \A i \in DOMAIN history : history[i].number = i
    /\ Len(history) = IF InEpisode THEN episode - 1 ELSE episode

\* The attempts of an episode, its tried strategies and the guard's counter
\* agree, stay within max_recovery_attempts, and walk the ladder from its
\* first rung without repeating or skipping one.
LadderWalk ==
    /\ Len(attempts) = Len(tried)
    /\ guard.recovery_attempts = Len(tried)
    /\ Len(tried) <= MaxRecoveryAttempts
    /\ Len(tried) <= Len(StrategyLadder)
    /\ \A i \in DOMAIN tried : /\ tried[i] = StrategyLadder[i]
                               /\ attempts[i].strategy = StrategyLadder[i]

\* An attempt is PENDING exactly while the execution is RECOVERING, and then it
\* is the last one: no path abandons a pending attempt or resolves one twice.
PendingOnlyWhileRecovering ==
    \A i \in DOMAIN attempts :
        attempts[i].result = "pending" <=> state = "recovering" /\ i = Len(attempts)

\* A closed episode has no open attempt, and only its last attempt can have
\* succeeded, which is what its outcome says.
ClosedEpisodesAreResolved ==
    \A e \in DOMAIN history : \A i \in DOMAIN history[e].attempts :
        history[e].attempts[i].result
            = IF history[e].outcome = "success" /\ i = Len(history[e].attempts)
              THEN "success" ELSE "failure"

\* BLOCKED and a report come together, and the report is about the episode that
\* just closed: its attempts, its strategies, the last checkpoint.
BlockedIffReported ==
    /\ (state = "blocked") <=> (report # NoReport)
    /\ state = "blocked" =>
         /\ Len(history) = episode
         /\ episode > 0
         /\ history[episode].outcome = "blocked"
         /\ history[episode].attempts = attempts
         /\ report.attempts = Len(attempts)
         /\ report.strategies = tried
         /\ report.checkpoint = pending
         /\ report.blocker = error

\* Through the coordinator the ladder never runs out before a bound does:
\* next_strategy's RecoveryExhaustedError, which begin_recovery() turns into
\* "no recovery strategy available", cannot occur.
LadderNeverRunsOut == report.blocker # "no recovery strategy available"

\* begin_recovery() admits an attempt only within the global bounds and nothing
\* counts while RECOVERING, so an attempt is never cut off by a bound that trips
\* while it runs: a failed attempt blocks only when it was the last resort.
RecoveringWithinBounds ==
    /\ state = "recovering" => ~exceeded(guard)
    /\ report.blocker = "recovery attempts exhausted"
         => report.strategies[Len(report.strategies)] = LastResort
-----------------------------------------------------------------------------
(* Loop protection *)

\* The no-progress counter is 1 from a stall until recovery succeeds and 0
\* otherwise: max_no_progress_cycles >= 1 never trips.
OneNoProgressCycle ==
    guard.no_progress_cycles
        = IF InEpisode \/ state = "blocked" THEN 1 ELSE 0

\* Both escalation counters agree and decide_escalation() keeps them within
\* max_model_escalations, so the guard's own escalation bound never trips.
EscalationsBounded ==
    /\ guard.model_escalations = escalations_used
    /\ escalations_used <= MaxModelEscalations

\* The recovery attempts of every episode so far.
RecoveriesStarted ==
    SumFunction([ i \in DOMAIN history |-> Len(history[i].attempts) ])
        + IF InEpisode THEN Len(attempts) ELSE 0

\* Everything start(), record_escalation() and begin_recovery() charge is
\* accounted for: one context budget for each escalation and for each recovery
\* attempt of every episode, and nothing else.
BudgetAccounted ==
    \E c \in IF started THEN StartCharges ELSE { NothingUsed } :
        used.tokens = c.tokens
            + setup.context_budget_tokens * (escalations_used + RecoveriesStarted)

\* No sequence of starts, escalations and recoveries passes a budget ceiling.
BudgetWithinCeilings == WithinCeilings(used)

\* Nothing but an affordable charge ever changes the budget: the watchdog
\* implements the pool, and a recovery episode refunds nothing.
BudgetIsCharged == ChargeOnlySpec

\* The execution-wide records only grow: recovery success resets neither the
\* global counters nor the audit trail, and tier and reasoning never drop.
GlobalRecordsOnlyGrow ==
    [][ /\ guard'.total_attempts >= guard.total_attempts
        /\ guard'.model_escalations >= guard.model_escalations
        /\ episode' >= episode
        /\ Len(history') >= Len(history)
        /\ \A i \in DOMAIN history : history'[i] = history[i]
        /\ tier' >= tier /\ reasoning' >= reasoning
        /\ now' >= now ]_vars
-----------------------------------------------------------------------------
(* Lifecycle *)

domainVars == <<state, started, boundary, workVars, guard, episodeVars, used,
                modelVars, error>>

\* An event that comes late changes nothing but the clock and the heartbeat
\* file: COMPLETED is the end, and out of BLOCKED there is no way but into
\* RECOVERING (_require_active's docstring).
LateEventsChangeNothing ==
    [][ (domainVars' # domainVars) =>
            /\ state # "completed"
            /\ (state = "blocked") => (state' = "recovering") ]_vars

\* A stall is never opened by time alone, nor by activity that a progress event
\* or a successful recovery has already put behind the boundary.
TimeAloneNeverStalls ==
    [][ episode' # episode => recent' # <<>> /\ now' > boundary ]_vars

\* While the heartbeat is not dirty its file shows the current state, after any
\* sequence of failed and repeated writes.
HeartbeatFresh ==
    Persistent /\ started /\ ~dirty => heartbeat = CurrentProjection

\* What a supervisor of the watchdog must do for an episode to end: call
\* begin_recovery() while STALLED and report a result while RECOVERING.
Supervised ==
    /\ WF_vars(\E t \in Times, io \in Io(1) : BeginRecovery(t, io))
    /\ WF_vars(\E t \in Times, io \in Io(1) : ResolveRecovery(t, io))

SupervisedSpec == Spec /\ Supervised

\* Recovery is bounded: a supervised episode ends, whatever fails, in a resumed
\* or a BLOCKED execution.
EpisodesEnd == InEpisode ~> ~InEpisode
=============================================================================
