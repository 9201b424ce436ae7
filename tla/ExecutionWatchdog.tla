------------------------- MODULE ExecutionWatchdog -------------------------
(***************************************************************************)
(* watchdog/coordinator.py: ExecutionWatchdog, the single writer that      *)
(* drives one execution through start, work, stalls, recovery episodes and *)
(* completion, charges every charge to one budget and mirrors its state in *)
(* a heartbeat file.                                                       *)
(*                                                                         *)
(* One public method is one action, the methods it calls included: a       *)
(* record_activity() that detects a stall also opens the episode and       *)
(* begins the first recovery attempt.  A call the code refuses changes     *)
(* nothing, and is no step.  Each heartbeat write may fail; the exception  *)
(* then cuts the method short at that write, so the parameter `io' says    *)
(* how many of the writes of a call succeed.                               *)
(***************************************************************************)
EXTENDS ExecutionStates, StallDetection, Recovery, Escalation

CONSTANTS
    Times,           \* the timestamps callers pass, in seconds
    ActivityBound,   \* bound: activities recorded in a behaviour
    Descriptions,    \* progress descriptions and recovery evidence
    PendingWork,     \* pending work recorded by a checkpoint
    Signals,         \* escalation signals callers report
    InitialCharges,  \* initial charges start() may be given, [tokens, cost]
    Setups,          \* the ways the watchdog is constructed
    Persistent,      \* a state_dir was given, so there is a heartbeat writer
    WritesMayFail    \* heartbeat writes may fail

\* The arguments of __init__, and what from_plan() adds to them: a planned
\* watchdog charges its plan's estimate when it starts.
Setup == [ tier                  : ModelTier,
           reasoning             : ReasoningEffort,
           context_budget_tokens : Positive,
           planned               : BOOLEAN,
           initial               : Usage ]

ASSUME WatchdogAssumption ==
    /\ Times \subseteq Nat
    /\ ActivityBound \in Nat
    /\ Signals \subseteq EscalationSignals
    /\ InitialCharges \subseteq Usage
    /\ Setups \subseteq Setup
    /\ Persistent \in BOOLEAN /\ WritesMayFail \in BOOLEAN

VARIABLES
    setup,       \* context_budget_tokens, _planned_initial_tokens and _cost
    state,       \* _sm.state
    now,         \* _last_observed_at (0 before the first observation)
    started,     \* _started_at is not None
    boundary,    \* last_progress_at, else _started_at
    recent,      \* the activities strictly after the boundary
    last,        \* _activities[-1]
    guard,       \* _loop_guard
    episode,     \* _episode_number
    attempts,    \* _recovery_attempts of the current episode
    tried,       \* _tried_strategies of the current episode
    history,     \* _recovery_history: every closed episode
    report,      \* _blocked_report
    tier,        \* tier, reasoning and escalations_used
    reasoning,
    escalations_used,
    error,       \* _last_error
    evidence,    \* _last_progress_evidence
    pending,     \* pending work of the last checkpoint
    heartbeat,   \* the heartbeat file
    dirty        \* _heartbeat_dirty

clockVars == <<now, started, boundary>>
workVars == <<recent, last, evidence, pending>>
episodeVars == <<episode, attempts, tried, history, report>>
modelVars == <<setup, tier, reasoning, escalations_used>>
mirrorVars == <<heartbeat, dirty>>
vars == <<state, clockVars, workVars, guard, episodeVars, used, modelVars,
          error, mirrorVars>>

\* None of Python, as a value of each kind.
NoText == "none"
NoActivity == [ fingerprint |-> NoText, succeeded |-> TRUE, slow |-> FALSE ]
NoReport == [ blocker |-> NoText, attempts |-> 0, strategies |-> <<>>,
              checkpoint |-> NoText ]

Blockers == { "loop protection bound reached during recovery",
              "no recovery strategy available",
              "recovery budget exhausted",
              "recovery attempts exhausted" }

Errors == { NoText, "activity error", "stall reasons" } \cup Blockers

RecoveryResult == { "pending", "success", "failure" }
RecoveryAttempt == [ strategy : Strategies, result : RecoveryResult ]
RecoveryEpisode == [ number : Nat, attempts : Seq(RecoveryAttempt),
                     outcome : { "success", "blocked" } ]
BlockedReport == [ blocker : Blockers, attempts : Nat,
                   strategies : Seq(Strategies),
                   checkpoint : PendingWork \cup {NoText} ]
-----------------------------------------------------------------------------
\* build_heartbeat's projection of the state, from the values it reads.
Projection(st, progress_at, ev, attempt_count, strategies, err, pend) ==
    [ state                 |-> st,
      last_real_progress_at |-> progress_at,
      last_progress_evidence |-> ev,
      attempt_count         |-> attempt_count,
      current_strategy      |-> IF strategies = <<>> THEN NoText
                                ELSE strategies[Len(strategies)],
      last_error            |-> err,
      pending_work          |-> pend ]

CurrentProjection ==
    Projection(state, boundary, evidence, guard.total_attempts, tried, error, pending)

NoHeartbeat == [ state |-> NoText ]

\* How many writes succeed before one fails, in a call that tries at most n;
\* without a writer a write is a no-op and cannot fail.
Io(n) == IF Persistent /\ WritesMayFail THEN 0..n ELSE {n}

\* Faulty variant: a failed write does not mark the file as stale.
WriteHeartbeatUnmarked(io) ==
    /\ heartbeat' = IF Persistent /\ io > 0 THEN CurrentProjection' ELSE heartbeat
    /\ dirty' = FALSE

\* _write_heartbeat, as the first and only write of a call.
WriteHeartbeat(io) ==
    /\ heartbeat' = IF Persistent /\ io > 0 THEN CurrentProjection' ELSE heartbeat
    /\ dirty' = (Persistent /\ io = 0)

\* _validate_time, then _commit_time.
ObserveTime(t) == t \in Times /\ t >= now /\ now' = t
-----------------------------------------------------------------------------
Init ==
    /\ state = "planning"
    /\ now = 0 /\ started = FALSE /\ boundary = 0
    /\ recent = <<>> /\ last = NoActivity
    /\ guard = NewLoopGuard
    /\ episode = 0 /\ attempts = <<>> /\ tried = <<>> /\ history = <<>>
    /\ report = NoReport
    /\ PoolInit
    /\ setup \in Setups
    /\ tier = setup.tier /\ reasoning = setup.reasoning /\ escalations_used = 0
    /\ error = NoText /\ evidence = NoText /\ pending = NoText
    /\ heartbeat = NoHeartbeat /\ dirty = FALSE

\* The charges start() takes: only the plan's estimate, if there is a plan.
StartCharges == IF setup.planned THEN { setup.initial } ELSE InitialCharges

\* start(): admitted once, and only if the initial charge fits the budget.
Start(t, charge, io) ==
    /\ state = "planning" /\ ~started
    /\ ObserveTime(t)
    /\ can_afford(used, charge.tokens, charge.cost)
    /\ used' = Charged(used, charge.tokens, charge.cost)
    /\ started' = TRUE /\ boundary' = t
    /\ state' = "running"
    /\ UNCHANGED <<workVars, guard, episodeVars, modelVars, error>>
    /\ WriteHeartbeat(io)

\* advance(): ordinary moves between the active states.
Advance(t, target, io) ==
    /\ state \in ActiveStates
    /\ target \notin DedicatedStates
    /\ can_transition(state, target)
    /\ ObserveTime(t)
    /\ state' = target
    /\ UNCHANGED <<started, boundary, workVars, guard, episodeVars, used,
                   modelVars, error>>
    /\ WriteHeartbeat(io)

\* record_progress(): moves the boundary, so no earlier activity counts again.
RecordProgress(t, description, io) ==
    /\ state \in ActiveStates
    /\ ObserveTime(t)
    /\ boundary' = t /\ recent' = <<>>
    /\ guard' = guard_record_progress(guard)
    /\ evidence' = description
    /\ UNCHANGED <<state, started, last, pending, episodeVars, used, modelVars, error>>
    /\ WriteHeartbeat(io)

\* checkpoint(): durable append first, then the in-memory mirror.
Checkpoint(t, work, io) ==
    /\ state \in ActiveStates
    /\ ObserveTime(t)
    /\ pending' = work
    /\ UNCHANGED <<state, started, boundary, recent, last, evidence, guard,
                   episodeVars, used, modelVars, error>>
    /\ WriteHeartbeat(io)

\* complete(): legal only where the table allows it, with evidence.
Complete(t, io) ==
    /\ can_transition(state, "completed")
    /\ ObserveTime(t)
    /\ state' = "completed"
    /\ UNCHANGED <<started, boundary, workVars, guard, episodeVars, used,
                   modelVars, error>>
    /\ WriteHeartbeat(io)

\* sync_heartbeat(): retries the write of the current state.
SyncHeartbeat ==
    /\ dirty
    /\ heartbeat' = CurrentProjection /\ dirty' = FALSE
    /\ UNCHANGED <<state, clockVars, workVars, guard, episodeVars, used,
                   modelVars, error>>

\* record_escalation(): decided against the shared budget; writes no
\* heartbeat, which shows neither tier nor reasoning.
RecordEscalation(t, signals) ==
    LET decision == decide_escalation(tier, reasoning, escalations_used, signals,
                                      setup.context_budget_tokens, used)
        target == EscalationTarget(tier, reasoning, decision)
    IN  /\ state \in ActiveStates
        /\ ObserveTime(t)
        /\ IF should_escalate(decision)
           THEN /\ used' = Charged(used, setup.context_budget_tokens,
                                   estimate_cost(target.tier,
                                                 setup.context_budget_tokens))
                /\ tier' = target.tier /\ reasoning' = target.reasoning
                /\ escalations_used' = escalations_used + 1
                /\ guard' = guard_record_escalation(guard)
           ELSE UNCHANGED <<used, tier, reasoning, escalations_used, guard>>
        /\ UNCHANGED <<setup, state, started, boundary, workVars, episodeVars, error,
                       mirrorVars>>
-----------------------------------------------------------------------------
\* Faulty variants: BLOCKED leaves the episode open, or the episode is closed
\* with the attempts as they were before the result.
CloseOnlySuccess(ep, att, outcome) ==
    history' = IF outcome = "blocked" THEN history
               ELSE Append(history, [ number |-> ep, attempts |-> att, outcome |-> outcome ])
CloseUnresolved(ep, att, outcome) ==
    history' = Append(history, [ number |-> ep, attempts |-> attempts, outcome |-> outcome ])

\* _close_recovery_episode: a no-op before the first episode.
CloseEpisode(ep, att, outcome) ==
    history' = IF ep = 0 THEN history
               ELSE Append(history, [ number |-> ep, attempts |-> att, outcome |-> outcome ])

\* Faulty variant: the report counts the attempts of the whole execution.
ReportAllAttempts(blocker, att, trd) ==
    [ blocker |-> blocker, attempts |-> guard.total_attempts, strategies |-> trd,
      checkpoint |-> pending ]

\* build_blocked_report's report, as far as the properties read it.
NewReport(blocker, att, trd) ==
    [ blocker |-> blocker, attempts |-> Len(att), strategies |-> trd,
      checkpoint |-> pending ]

\* _transition_to_blocked, the only way to BLOCKED: the report and the closed
\* episode are about the same attempts.
TransitionToBlocked(blocker, g, ep, att, trd) ==
    /\ report' = NewReport(blocker, att, trd)
    /\ CloseEpisode(ep, att, "blocked")
    /\ state' = "blocked"
    /\ error' = blocker
    /\ guard' = g /\ attempts' = att /\ tried' = trd
    /\ UNCHANGED used

RecoveryCost == estimate_cost(tier, setup.context_budget_tokens)

\* Faulty variant: the execution-wide bounds are not consulted.
BlockerWithoutGuard(g, att, trd) ==
    IF next_strategy(trd, Len(att) + 1) = Exhausted
    THEN "no recovery strategy available"
    ELSE NoText

\* Why begin_recovery() blocks instead of starting an attempt, or NoText.
RecoveryBlocker(g, att, trd) ==
    IF exceeded(g) \/ ~can_start_recovery_attempt(g)
    THEN "loop protection bound reached during recovery"
    ELSE IF next_strategy(trd, Len(att) + 1) = Exhausted
    THEN "no recovery strategy available"
    ELSE IF ~can_afford(used, setup.context_budget_tokens, RecoveryCost)
    THEN "recovery budget exhausted"
    ELSE NoText

StartAttempt(g, att, trd) ==
    LET strategy == next_strategy(trd, Len(att) + 1)
    IN  /\ used' = Charged(used, setup.context_budget_tokens, RecoveryCost)
        /\ guard' = record_recovery_attempt_started(g)
        /\ tried' = Append(trd, strategy)
        /\ attempts' = Append(att, [ strategy |-> strategy, result |-> "pending" ])
        /\ state' = "recovering"
        /\ UNCHANGED <<history, report>>

\* Faulty variant: out of attempts, the execution is left in STALLED.
AttemptOrWait(g, ep, att, trd, err) ==
    IF RecoveryBlocker(g, att, trd) = NoText
    THEN StartAttempt(g, att, trd) /\ error' = err
    ELSE /\ state' = "stalled" /\ error' = err
         /\ guard' = g /\ attempts' = att /\ tried' = trd
         /\ UNCHANGED <<history, report, used>>

\* begin_recovery() from STALLED, with the guard and the episode as the
\* calling method has left them.
AttemptRecovery(g, ep, att, trd, err) ==
    LET blocker == RecoveryBlocker(g, att, trd)
    IN  IF blocker = NoText
        THEN StartAttempt(g, att, trd) /\ error' = err
        ELSE TransitionToBlocked(blocker, g, ep, att, trd)

BeginRecovery(t, io) ==
    /\ state = "stalled"
    /\ ObserveTime(t)
    /\ AttemptRecovery(guard, episode, attempts, tried, error)
    /\ UNCHANGED <<started, boundary, workVars, episode, modelVars>>
    /\ WriteHeartbeat(io)

\* Faulty variant: the result goes to the first attempt of the episode.
ResolvedFirst(att, result) == [att EXCEPT ![1].result = result]

\* The last attempt of the episode, resolved.
Resolved(att, result) == [att EXCEPT ![Len(att)].result = result]

\* record_recovery_result(SUCCESS): the episode closes, and the recovery counts
\* as progress.
RecordRecoverySuccess(t, resume_state, description, io) ==
    LET resolved == Resolved(attempts, "success")
    IN  /\ state = "recovering" /\ attempts # <<>>
        /\ resume_state \in ResumeStates
        /\ can_transition(state, resume_state)
        /\ ObserveTime(t)
        /\ attempts' = resolved
        /\ CloseEpisode(episode, resolved, "success")
        /\ state' = resume_state
        /\ boundary' = t /\ recent' = <<>>
        /\ evidence' = description
        /\ guard' = guard_record_progress(guard)
        /\ UNCHANGED <<started, last, pending, episode, tried, report, used,
                       modelVars, error>>
        /\ WriteHeartbeat(io)

\* record_recovery_result(FAILURE): back to STALLED for another attempt, or
\* BLOCKED after the last resort or past a bound.
RecordRecoveryFailure(t, io) ==
    LET resolved == Resolved(attempts, "failure")
    IN  /\ state = "recovering" /\ attempts # <<>>
        /\ ObserveTime(t)
        /\ IF exceeded(guard) \/ IsLastResort(attempts[Len(attempts)].strategy)
           THEN TransitionToBlocked("recovery attempts exhausted", guard, episode,
                                    resolved, tried)
           ELSE /\ state' = "stalled"
                /\ attempts' = resolved
                /\ UNCHANGED <<guard, tried, history, report, error, used>>
        /\ UNCHANGED <<started, boundary, workVars, episode, modelVars>>
        /\ WriteHeartbeat(io)
-----------------------------------------------------------------------------
\* evaluate()'s stall branch, from the guard g.  Its own write comes between
\* the transition to STALLED and begin_recovery(): when that write fails the
\* exception leaves the new episode in STALLED, with no attempt.  The write of
\* begin_recovery() may fail in turn, leaving the file at STALLED.  A caller
\* that ends with one more write passes writes = 3.
Stall(g, io, writes) ==
    LET stalled == start_new_recovery_episode(record_no_progress_cycle(g))
        midway == Projection("stalled", boundary, evidence, g.total_attempts, <<>>,
                             "stall reasons", pending)
    IN  /\ can_transition(state, "stalled")
        /\ episode' = episode + 1
        /\ IF io = 0
           THEN /\ state' = "stalled" /\ error' = "stall reasons"
                /\ guard' = stalled /\ attempts' = <<>> /\ tried' = <<>>
                /\ UNCHANGED <<history, report, used>>
           ELSE AttemptRecovery(stalled, episode + 1, <<>>, <<>>, "stall reasons")
        /\ heartbeat' = IF ~Persistent \/ io = 0 THEN heartbeat
                        ELSE IF io = 1 THEN midway ELSE CurrentProjection'
        /\ dirty' = (Persistent /\ io < writes)

\* evaluate(): outside the active states it only observes the time.
Evaluate(t, io) ==
    /\ ObserveTime(t)
    /\ IF state \in ActiveStates /\ started /\ is_stalled(t, boundary, recent)
       THEN /\ UNCHANGED <<started, boundary, workVars, modelVars>>
            /\ Stall(guard, io, 2)
       ELSE UNCHANGED <<state, started, boundary, workVars, guard, episodeVars, used,
                        modelVars, error, mirrorVars>>

IsRepeat(a) ==
    /\ last # NoActivity
    /\ ~a.succeeded /\ ~last.succeeded
    /\ a.fingerprint = last.fingerprint

\* record_activity(): counts the attempt, evaluates, then writes once more.
RecordActivity(t, a, failed_with_error, io) ==
    LET counted == record_identical_failure(record_attempt(guard), IsRepeat(a))
        since == IF t > boundary THEN Append(recent, a) ELSE recent
        err == IF failed_with_error THEN "activity error" ELSE error
    IN  /\ state \in ActiveStates
        /\ guard.total_attempts < ActivityBound
        /\ ObserveTime(t)
        /\ recent' = since /\ last' = a
        /\ UNCHANGED <<started, boundary, evidence, pending, modelVars>>
        /\ IF is_stalled(t, boundary, since)
           THEN Stall(counted, io, 3)
           ELSE /\ guard' = counted /\ error' = err
                /\ UNCHANGED <<state, episodeVars, used>>
                /\ WriteHeartbeat(io)
-----------------------------------------------------------------------------
ResolveRecovery(t, io) ==
    \/ \E r \in ResumeStates, d \in Descriptions : RecordRecoverySuccess(t, r, d, io)
    \/ RecordRecoveryFailure(t, io)

Next ==
    \/ SyncHeartbeat
    \/ \E t \in Times :
        \/ \E s \in Signals : RecordEscalation(t, s)
        \/ \E io \in Io(2) : Evaluate(t, io)
        \/ \E a \in ActivityRecord, err \in BOOLEAN, io \in Io(3) :
               RecordActivity(t, a, err, io)
        \/ \E io \in Io(1) :
            \/ \E c \in StartCharges : Start(t, c, io)
            \/ \E s \in ExecutionState : Advance(t, s, io)
            \/ \E d \in Descriptions : RecordProgress(t, d, io)
            \/ \E w \in PendingWork : Checkpoint(t, w, io)
            \/ Complete(t, io)
            \/ BeginRecovery(t, io)
            \/ ResolveRecovery(t, io)

Spec == Init /\ [][Next]_vars
=============================================================================
