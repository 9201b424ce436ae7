---------------------- MODULE ExecutionWatchdogProofs ----------------------
(***************************************************************************)
(* Theorems about ExecutionWatchdog, for every policy, ladder, budget,     *)
(* set of inputs and number of calls.  WalkInv, the first invariant, holds *)
(* a recovery episode to the strategy ladder; EpisodeInv and StartInv add  *)
(* what the other properties need.                                         *)
(*                                                                         *)
(* Each part sorts the steps of Next by what they do to the variables that *)
(* part is about, and argues once per kind of step.                        *)
(***************************************************************************)
EXTENDS ExecutionWatchdogProperties, SumTheorems, SequenceTheorems, TLAPS

\* Cost estimates are natural numbers.
LEMMA CostIsNat ==
    ASSUME NEW t \in ModelTier, NEW tokens \in Nat
    PROVE  estimate_cost(t, tokens) \in Nat
<1>1. t \in { 0, 1, 2, 3 }
    BY DEF ModelTier, FAST, FRONTIER
<1>2. CostPer1kTokens(t) \in { 1, 4, 18, 70 }
    BY <1>1 DEF CostPer1kTokens, FAST, STANDARD, ADVANCED, FRONTIER
<1>3. /\ 1 * tokens \in Nat /\ 4 * tokens \in Nat
      /\ 18 * tokens \in Nat /\ 70 * tokens \in Nat
    OBVIOUS
<1> QED BY <1>2, <1>3 DEF estimate_cost

\* What a construction of the watchdog fixes has the types its charges need.
LEMMA SetupTyped ==
    ASSUME TypeOK
    PROVE  /\ setup.tier \in ModelTier /\ setup.reasoning \in ReasoningEffort
           /\ setup.context_budget_tokens \in Nat
           /\ StartCharges \subseteq Usage
BY WatchdogAssumption DEF TypeOK, Setup, Positive, StartCharges

\* Which counters each LoopGuard method changes.
LEMMA GuardRecords ==
    ASSUME NEW g \in LoopGuard, NEW repeat \in BOOLEAN
    PROVE  /\ record_recovery_attempt_started(g) \in LoopGuard
           /\ record_recovery_attempt_started(g).recovery_attempts = g.recovery_attempts + 1
           /\ start_new_recovery_episode(g) \in LoopGuard
           /\ start_new_recovery_episode(g).recovery_attempts = 0
           /\ record_no_progress_cycle(g) \in LoopGuard
           /\ guard_record_progress(g) \in LoopGuard
           /\ guard_record_progress(g).recovery_attempts = g.recovery_attempts
           /\ guard_record_escalation(g) \in LoopGuard
           /\ guard_record_escalation(g).recovery_attempts = g.recovery_attempts
           /\ record_attempt(g) \in LoopGuard
           /\ record_attempt(g).recovery_attempts = g.recovery_attempts
           /\ record_identical_failure(g, repeat) \in LoopGuard
           /\ record_identical_failure(g, repeat).recovery_attempts = g.recovery_attempts
<1>1. /\ record_recovery_attempt_started(g) \in LoopGuard
      /\ record_recovery_attempt_started(g).recovery_attempts = g.recovery_attempts + 1
    BY DEF LoopGuard, record_recovery_attempt_started
<1>2. /\ start_new_recovery_episode(g) \in LoopGuard
      /\ start_new_recovery_episode(g).recovery_attempts = 0
    BY DEF LoopGuard, start_new_recovery_episode
<1>3. record_no_progress_cycle(g) \in LoopGuard
    BY DEF LoopGuard, record_no_progress_cycle
<1>4. /\ guard_record_progress(g) \in LoopGuard
      /\ guard_record_progress(g).recovery_attempts = g.recovery_attempts
    BY DEF LoopGuard, guard_record_progress
<1>5. /\ guard_record_escalation(g) \in LoopGuard
      /\ guard_record_escalation(g).recovery_attempts = g.recovery_attempts
    BY DEF LoopGuard, guard_record_escalation
<1>6. /\ record_attempt(g) \in LoopGuard
      /\ record_attempt(g).recovery_attempts = g.recovery_attempts
    BY DEF LoopGuard, record_attempt
<1>7. /\ record_identical_failure(g, repeat) \in LoopGuard
      /\ record_identical_failure(g, repeat).recovery_attempts = g.recovery_attempts
    BY DEF LoopGuard, record_identical_failure
<1> QED BY <1>1, <1>2, <1>3, <1>4, <1>5, <1>6, <1>7

\* The attempts and the tried strategies of one episode, with a guard that
\* counts them: what every recovery step is handed and hands on.
IsWalk(g, att, trd) ==
    /\ g \in LoopGuard
    /\ att \in Seq(RecoveryAttempt) /\ trd \in Seq(Strategies)
    /\ Len(att) = Len(trd)
    /\ g.recovery_attempts = Len(trd)
    /\ Len(trd) <= MaxRecoveryAttempts
    /\ Len(trd) <= Len(StrategyLadder)
    /\ \A i \in DOMAIN trd : /\ trd[i] = StrategyLadder[i]
                             /\ att[i].strategy = StrategyLadder[i]

\* After a prefix of the ladder, the next strategy is the next rung.
LEMMA NextRung ==
    ASSUME NEW trd \in Seq(Strategies),
           Len(trd) <= Len(StrategyLadder),
           \A i \in DOMAIN trd : trd[i] = StrategyLadder[i],
           next_strategy(trd, Len(trd) + 1) # Exhausted
    PROVE  /\ Len(trd) + 1 \in DOMAIN StrategyLadder
           /\ next_strategy(trd, Len(trd) + 1) = StrategyLadder[Len(trd) + 1]
           /\ Len(trd) + 1 <= MaxRecoveryAttempts
<1> DEFINE n == Len(trd)
           first == CHOOSE i \in Untried(trd) : \A j \in Untried(trd) : i <= j
<1>1. /\ n \in Nat /\ DOMAIN trd = 1..n
      /\ Len(StrategyLadder) \in Nat
      /\ DOMAIN StrategyLadder = 1..Len(StrategyLadder)
      /\ MaxRecoveryAttempts \in Nat
    BY StrategyLadderAssumption, WatchdogPolicyAssumption
    DEF ValidWatchdogPolicy, Positive
<1>2. /\ ~(n + 1 > MaxRecoveryAttempts)
      /\ Untried(trd) # {}
      /\ next_strategy(trd, n + 1) = StrategyLadder[first]
    BY DEF next_strategy
<1>3. Untried(trd) = { i \in DOMAIN StrategyLadder : i > n }
  <2>1. \A i \in 1..Len(StrategyLadder) : i \in Untried(trd) <=> \A k \in 1..n : k # i
      BY <1>1, StrategyLadderAssumption DEF Untried
  <2>2. \A i \in 1..Len(StrategyLadder) : (\A k \in 1..n : k # i) <=> i > n
      BY <1>1
  <2> QED BY <2>1, <2>2, <1>1 DEF Untried
<1>4. n + 1 \in Untried(trd)
    BY <1>1, <1>2, <1>3
<1>5. first = n + 1
    BY <1>1, <1>3, <1>4
<1> HIDE DEF first
<1> QED BY <1>1, <1>2, <1>3, <1>4, <1>5
-----------------------------------------------------------------------------
\* begin_recovery(), called with a walk, leaves a walk and well-typed records.
LEMMA AttemptRecoveryTyped ==
    ASSUME TypeOK,
           NEW g, NEW att, NEW trd, IsWalk(g, att, trd),
           NEW ep \in Nat, NEW err \in Errors,
           AttemptRecovery(g, ep, att, trd, err)
    PROVE  /\ state' \in { "recovering", "blocked" }
           /\ IsWalk(guard', attempts', tried')
           /\ history' \in Seq(RecoveryEpisode)
           /\ report' \in BlockedReport \cup {NoReport}
           /\ used' \in Usage
           /\ error' \in Errors
<1>1. CASE RecoveryBlocker(g, att, trd) = NoText
  <2> DEFINE s == next_strategy(trd, Len(att) + 1)
  <2>1. /\ StartAttempt(g, att, trd) /\ error' = err
        /\ s # Exhausted
      BY <1>1 DEF AttemptRecovery, RecoveryBlocker, NoText
  <2>2. /\ Len(trd) + 1 \in DOMAIN StrategyLadder
        /\ s = StrategyLadder[Len(trd) + 1]
        /\ Len(trd) + 1 <= MaxRecoveryAttempts
      BY <2>1, NextRung DEF IsWalk
  <2>3. s \in Strategies
      BY <2>2 DEF Strategies
  <2>4. [ strategy |-> s, result |-> "pending" ] \in RecoveryAttempt
      BY <2>3 DEF RecoveryAttempt, RecoveryResult
  <2>5. used' \in Usage
    <3>1. RecoveryCost \in Nat
        BY SetupTyped, CostIsNat DEF TypeOK, RecoveryCost
    <3> QED BY <2>1, <3>1, SetupTyped DEF TypeOK, StartAttempt, Charged, Usage
  <2>6. IsWalk(guard', attempts', tried')
    <3>1. /\ guard' = record_recovery_attempt_started(g)
          /\ attempts' = Append(att, [ strategy |-> s, result |-> "pending" ])
          /\ tried' = Append(trd, s)
        BY <2>1 DEF StartAttempt
    <3>2. /\ g \in LoopGuard
          /\ att \in Seq(RecoveryAttempt) /\ trd \in Seq(Strategies)
          /\ Len(att) = Len(trd) /\ g.recovery_attempts = Len(trd)
          /\ \A i \in DOMAIN trd : /\ trd[i] = StrategyLadder[i]
                                   /\ att[i].strategy = StrategyLadder[i]
        BY DEF IsWalk
    <3>3. guard' \in LoopGuard /\ guard'.recovery_attempts = Len(trd) + 1
        BY <3>1, <3>2, GuardRecords
    <3>4. /\ attempts' \in Seq(RecoveryAttempt) /\ tried' \in Seq(Strategies)
          /\ Len(attempts') = Len(trd) + 1 /\ Len(tried') = Len(trd) + 1
        BY <3>1, <3>2, <2>3, <2>4
    <3>5. \A i \in DOMAIN tried' : /\ tried'[i] = StrategyLadder[i]
                                   /\ attempts'[i].strategy = StrategyLadder[i]
        BY <3>1, <3>2, <2>2, <2>3, <2>4
    <3>6. Len(trd) + 1 <= Len(StrategyLadder)
        BY <2>2, StrategyLadderAssumption
    <3> QED BY <3>3, <3>4, <3>5, <3>6, <2>2 DEF IsWalk
  <2> QED BY <2>1, <2>5, <2>6 DEF StartAttempt, TypeOK
<1>2. CASE RecoveryBlocker(g, att, trd) # NoText
  <2> DEFINE b == RecoveryBlocker(g, att, trd)
  <2>1. TransitionToBlocked(b, g, ep, att, trd)
      BY <1>2 DEF AttemptRecovery
  <2>2. b \in Blockers
      BY <1>2 DEF RecoveryBlocker, Blockers
  <2>3. history' \in Seq(RecoveryEpisode)
    <3>1. [ number |-> ep, attempts |-> att, outcome |-> "blocked" ] \in RecoveryEpisode
        BY DEF RecoveryEpisode, IsWalk
    <3> QED BY <2>1, <3>1 DEF TransitionToBlocked, CloseEpisode, TypeOK
  <2>4. report' \in BlockedReport
    <3>1. Len(att) \in Nat
        BY DEF IsWalk
    <3> QED BY <2>1, <2>2, <3>1 DEF TransitionToBlocked, NewReport, BlockedReport, IsWalk,
                                  TypeOK
  <2> QED BY <2>1, <2>2, <2>3, <2>4 DEF TransitionToBlocked, TypeOK, Errors
<1> QED BY <1>1, <1>2
-----------------------------------------------------------------------------
\* The types alone are not inductive: that the next strategy is a rung of the
\* ladder rests on what the episode has tried before it.
WalkInv == TypeOK /\ IsWalk(guard, attempts, tried)

\* IsWalk is LadderWalk with the types it needs.
LEMMA WalkInvImplies ==
    WalkInv => TypeOK /\ LadderWalk
BY DEF WalkInv, IsWalk, LadderWalk

LEMMA WalkInvInit ==
    Init => WalkInv
<1> SUFFICES ASSUME Init PROVE WalkInv
    OBVIOUS
<1>1. NewLoopGuard \in LoopGuard /\ NewLoopGuard.recovery_attempts = 0
    BY DEF NewLoopGuard, LoopGuard
<1>2. IsWalk(guard, attempts, tried)
    BY <1>1, StrategyLadderAssumption, WatchdogPolicyAssumption
    DEF Init, IsWalk, ValidWatchdogPolicy, Positive
<1>3. used \in Usage
    BY DEF Init, PoolInit, NothingUsed, Usage
<1>4. /\ recent \in Seq(ActivityRecord) /\ attempts \in Seq(RecoveryAttempt)
      /\ tried \in Seq(Strategies) /\ history \in Seq(RecoveryEpisode)
    BY DEF Init
<1>5. TypeOK
    BY <1>1, <1>3, <1>4, WatchdogAssumption
    DEF Setup, Init, TypeOK, ExecutionState, Errors
<1> QED BY <1>2, <1>5 DEF WalkInv

\* Steps that leave the episode, the guard's walk and the records alone.
LEMMA OrdinaryStepsKeepWalk ==
    ASSUME WalkInv, NEW t \in Times, NEW io
    PROVE  /\ \A c \in StartCharges : Start(t, c, io) => WalkInv'
           /\ \A s \in ExecutionState : Advance(t, s, io) => WalkInv'
           /\ \A d \in Descriptions : RecordProgress(t, d, io) => WalkInv'
           /\ \A w \in PendingWork : Checkpoint(t, w, io) => WalkInv'
           /\ Complete(t, io) => WalkInv'
<1> USE DEF WalkInv, TypeOK, ObserveTime, WriteHeartbeat, episodeVars, modelVars,
        workVars, clockVars
<1>t. t \in Nat
    BY WatchdogAssumption
<1>1. ASSUME NEW c \in StartCharges, Start(t, c, io)
      PROVE  WalkInv'
  <2>1. used' \in Usage
      BY <1>1, SetupTyped DEF Start, Charged, Usage
  <2> QED BY <1>1, <1>t, <2>1 DEF Start, ExecutionState, IsWalk
<1>2. ASSUME NEW s \in ExecutionState, Advance(t, s, io)
      PROVE  WalkInv'
    BY <1>2, <1>t DEF Advance, IsWalk
<1>3. ASSUME NEW d \in Descriptions, RecordProgress(t, d, io)
      PROVE  WalkInv'
    BY <1>3, <1>t, GuardRecords DEF RecordProgress, IsWalk
<1>4. ASSUME NEW w \in PendingWork, Checkpoint(t, w, io)
      PROVE  WalkInv'
    BY <1>4, <1>t DEF Checkpoint, IsWalk
<1>5. ASSUME Complete(t, io)
      PROVE  WalkInv'
    BY <1>5, <1>t DEF Complete, IsWalk, ExecutionState
<1> QED BY <1>1, <1>2, <1>3, <1>4, <1>5

\* An escalation stays on both ladders.
LEMMA EscalationTargetTyped ==
    ASSUME NEW t \in ModelTier, NEW r \in ReasoningEffort, NEW reason
    PROVE  /\ EscalationTarget(t, r, reason).tier \in ModelTier
           /\ EscalationTarget(t, r, reason).reasoning \in ReasoningEffort
BY DEF EscalationTarget, critical_jump, next_step, Up, ModelTier, ReasoningEffort,
       FAST, FRONTIER, NONE, HIGH, MAX

LEMMA EscalationKeepsWalk ==
    ASSUME WalkInv, NEW t \in Times, NEW s \in Signals, RecordEscalation(t, s)
    PROVE  WalkInv'
<1> USE DEF WalkInv, TypeOK, ObserveTime, episodeVars, modelVars, workVars, mirrorVars
<1>t. t \in Nat
    BY WatchdogAssumption
<1>u. /\ now' = t
      /\ UNCHANGED <<setup, state, started, boundary, recent, last, evidence, pending, episode,
                      attempts, tried, history, report, error, dirty>>
    BY DEF RecordEscalation
<1>1. PICK reason : \/ UNCHANGED <<used, tier, reasoning, escalations_used, guard>>
                    \/ LET target == EscalationTarget(tier, reasoning, reason)
                       IN  /\ used' = Charged(used, setup.context_budget_tokens,
                                              estimate_cost(target.tier, setup.context_budget_tokens))
                           /\ tier' = target.tier /\ reasoning' = target.reasoning
                           /\ escalations_used' = escalations_used + 1
                           /\ guard' = guard_record_escalation(guard)
    BY DEF RecordEscalation
<1>2. CASE UNCHANGED <<used, tier, reasoning, escalations_used, guard>>
    BY <1>2, <1>t, <1>u DEF IsWalk
<1>3. CASE ~UNCHANGED <<used, tier, reasoning, escalations_used, guard>>
  <2> DEFINE target == EscalationTarget(tier, reasoning, reason)
  <2>1. /\ used' = Charged(used, setup.context_budget_tokens, estimate_cost(target.tier, setup.context_budget_tokens))
        /\ tier' = target.tier /\ reasoning' = target.reasoning
        /\ escalations_used' = escalations_used + 1
        /\ guard' = guard_record_escalation(guard)
      BY <1>1, <1>3
  <2>2. target.tier \in ModelTier /\ target.reasoning \in ReasoningEffort
      BY EscalationTargetTyped
  <2>3. estimate_cost(target.tier, setup.context_budget_tokens) \in Nat
      BY <2>2, CostIsNat, SetupTyped
  <2> HIDE DEF target
  <2>4. used' \in Usage
      BY <2>1, <2>3, SetupTyped DEF Charged, Usage
  <2>5. /\ guard' \in LoopGuard
        /\ guard'.recovery_attempts = guard.recovery_attempts
      BY <2>1, GuardRecords
  <2> QED BY <2>1, <2>2, <2>4, <2>5, <1>t, <1>u DEF IsWalk
<1> QED BY <1>2, <1>3

\* A result changes neither the strategies nor the number of attempts.
LEMMA ResolvedTyped ==
    ASSUME NEW att \in Seq(RecoveryAttempt), att # <<>>,
           NEW result \in RecoveryResult
    PROVE  /\ Resolved(att, result) \in Seq(RecoveryAttempt)
           /\ Len(Resolved(att, result)) = Len(att)
           /\ DOMAIN Resolved(att, result) = DOMAIN att
           /\ \A i \in DOMAIN att :
                  Resolved(att, result)[i].strategy = att[i].strategy
           /\ \A i \in DOMAIN att :
                  Resolved(att, result)[i].result
                      = IF i = Len(att) THEN result ELSE att[i].result
<1> DEFINE n == Len(att)
           a == [att[n] EXCEPT !.result = result]
<1>1. n \in 1..Len(att) /\ DOMAIN att = 1..Len(att) /\ att[n] \in RecoveryAttempt
    OBVIOUS
<1>2. /\ a \in RecoveryAttempt
      /\ a.strategy = att[n].strategy /\ a.result = result
    BY <1>1 DEF RecoveryAttempt
<1>3. Resolved(att, result) = [att EXCEPT ![n] = a]
    BY DEF Resolved
<1> HIDE DEF a
<1>4. /\ [att EXCEPT ![n] = a] \in Seq(RecoveryAttempt)
      /\ Len([att EXCEPT ![n] = a]) = Len(att)
      /\ \A j \in 1..Len(att) : [att EXCEPT ![n] = a][j] = IF j = n THEN a ELSE att[j]
    BY <1>1, <1>2, ExceptSeq
<1> QED BY <1>1, <1>2, <1>3, <1>4

LEMMA BeginRecoveryKeepsWalk ==
    ASSUME WalkInv, NEW t \in Times, NEW io, BeginRecovery(t, io)
    PROVE  WalkInv'
<1>1. AttemptRecovery(guard, episode, attempts, tried, error)
    BY DEF BeginRecovery
<1>2. /\ state' \in { "recovering", "blocked" }
      /\ IsWalk(guard', attempts', tried')
      /\ history' \in Seq(RecoveryEpisode)
      /\ report' \in BlockedReport \cup {NoReport}
      /\ used' \in Usage
      /\ error' \in Errors
    BY <1>1, AttemptRecoveryTyped DEF WalkInv, TypeOK
<1>3. t \in Nat
    BY WatchdogAssumption
<1> QED BY <1>2, <1>3 DEF WalkInv, TypeOK, BeginRecovery, ObserveTime, WriteHeartbeat,
                     modelVars, workVars, ExecutionState, IsWalk

\* Resolving the last attempt keeps the walk, and keeps the records typed.
LEMMA ResolutionKeepsWalk ==
    ASSUME WalkInv, attempts # <<>>, NEW result \in RecoveryResult,
           NEW g \in LoopGuard, g.recovery_attempts = guard.recovery_attempts
    PROVE  IsWalk(g, Resolved(attempts, result), tried)
<1>1. IsWalk(guard, attempts, tried)
    BY DEF WalkInv
<1>2. /\ Resolved(attempts, result) \in Seq(RecoveryAttempt)
      /\ Len(Resolved(attempts, result)) = Len(attempts)
      /\ \A i \in DOMAIN attempts :
             Resolved(attempts, result)[i].strategy = attempts[i].strategy
    BY <1>1, ResolvedTyped DEF IsWalk
<1>3. DOMAIN attempts = DOMAIN tried
    BY <1>1 DEF IsWalk
<1> QED BY <1>1, <1>2, <1>3 DEF IsWalk

LEMMA RecoverySuccessKeepsWalk ==
    ASSUME WalkInv, NEW t \in Times, NEW r \in ResumeStates, NEW d \in Descriptions,
           NEW io, RecordRecoverySuccess(t, r, d, io)
    PROVE  WalkInv'
<1> DEFINE att == Resolved(attempts, "success")
<1>1. /\ attempts # <<>> /\ attempts' = att
      /\ CloseEpisode(episode, att, "success")
      /\ guard' = guard_record_progress(guard)
      /\ state' = r /\ now' = t /\ boundary' = t /\ recent' = <<>> /\ evidence' = d
      /\ UNCHANGED <<started, last, pending, episode, tried, report, used, modelVars, error>>
      /\ dirty' \in BOOLEAN
    BY DEF RecordRecoverySuccess, ObserveTime, WriteHeartbeat
<1>2. IsWalk(guard', att, tried)
  <2>1. /\ guard' \in LoopGuard
        /\ guard'.recovery_attempts = guard.recovery_attempts
      BY <1>1, GuardRecords DEF WalkInv, TypeOK
  <2> QED BY <1>1, <2>1, ResolutionKeepsWalk DEF RecoveryResult
<1>3. history' \in Seq(RecoveryEpisode)
  <2>1. [ number |-> episode, attempts |-> att, outcome |-> "success" ] \in RecoveryEpisode
      BY <1>2 DEF RecoveryEpisode, IsWalk, WalkInv, TypeOK
  <2> QED BY <1>1, <2>1 DEF CloseEpisode, WalkInv, TypeOK
<1>4. t \in Nat /\ r \in ExecutionState
    BY WatchdogAssumption DEF ResumeStates, ActiveStates, ExecutionState
<1> HIDE DEF att
<1> QED BY <1>1, <1>2, <1>3, <1>4 DEF WalkInv, TypeOK, modelVars, IsWalk

LEMMA RecoveryFailureKeepsWalk ==
    ASSUME WalkInv, NEW t \in Times, NEW io, RecordRecoveryFailure(t, io)
    PROVE  WalkInv'
<1> DEFINE att == Resolved(attempts, "failure")
<1>1. /\ attempts # <<>>
      /\ \/ TransitionToBlocked("recovery attempts exhausted", guard, episode, att, tried)
         \/ /\ state' = "stalled" /\ attempts' = att
            /\ UNCHANGED <<guard, tried, history, report, error, used>>
      /\ now' = t
      /\ UNCHANGED <<started, boundary, workVars, episode, modelVars>>
      /\ dirty' \in BOOLEAN
    BY DEF RecordRecoveryFailure, ObserveTime, WriteHeartbeat
<1>2. IsWalk(guard, att, tried)
    BY <1>1, ResolutionKeepsWalk DEF RecoveryResult, WalkInv, TypeOK
<1>3. t \in Nat
    BY WatchdogAssumption
<1>4. CASE TransitionToBlocked("recovery attempts exhausted", guard, episode, att, tried)
  <2>1. [ number |-> episode, attempts |-> att, outcome |-> "blocked" ] \in RecoveryEpisode
      BY <1>2 DEF RecoveryEpisode, IsWalk, WalkInv, TypeOK
  <2>2. history' \in Seq(RecoveryEpisode)
    <3> DEFINE e == [ number |-> episode, attempts |-> att, outcome |-> "blocked" ]
    <3>1. history' = history \/ history' = Append(history, e)
        BY <1>4 DEF TransitionToBlocked, CloseEpisode
    <3>2. e \in RecoveryEpisode
        BY <2>1
    <3>3. history \in Seq(RecoveryEpisode)
        BY DEF WalkInv, TypeOK
    <3> HIDE DEF e
    <3> QED BY <3>1, <3>2, <3>3
  <2>3. Len(att) \in Nat
      BY <1>2 DEF IsWalk
  <2>4. report' \in BlockedReport
      BY <1>4, <2>3 DEF TransitionToBlocked, NewReport, BlockedReport, Blockers, WalkInv,
         TypeOK
  <2> HIDE DEF att
  <2>5. /\ state' = "blocked" /\ error' = "recovery attempts exhausted"
        /\ guard' = guard /\ attempts' = att /\ tried' = tried /\ used' = used
      BY <1>4 DEF TransitionToBlocked
  <2> QED BY <1>1, <1>2, <1>3, <2>2, <2>4, <2>5
      DEF WalkInv, TypeOK, workVars, modelVars, ExecutionState, Errors, Blockers, IsWalk
<1>5. CASE /\ state' = "stalled" /\ attempts' = att
           /\ UNCHANGED <<guard, tried, history, report, error, used>>
  <2> HIDE DEF att
  <2> QED BY <1>1, <1>2, <1>3, <1>5 DEF WalkInv, TypeOK, workVars, modelVars, ExecutionState,
                                      IsWalk
<1> QED BY <1>1, <1>4, <1>5

\* A stall opens its episode with an empty walk.
LEMMA StallTyped ==
    ASSUME WalkInv, NEW g \in LoopGuard, NEW io, NEW writes, Stall(g, io, writes)
    PROVE  /\ state' \in ExecutionState /\ episode' = episode + 1
           /\ IsWalk(guard', attempts', tried')
           /\ history' \in Seq(RecoveryEpisode)
           /\ report' \in BlockedReport \cup {NoReport}
           /\ used' \in Usage /\ error' \in Errors /\ dirty' \in BOOLEAN
<1> DEFINE h == start_new_recovery_episode(record_no_progress_cycle(g))
<1>1. h \in LoopGuard /\ h.recovery_attempts = 0
    BY GuardRecords
<1>2. IsWalk(h, <<>>, <<>>)
    BY <1>1, StrategyLadderAssumption, WatchdogPolicyAssumption
    DEF IsWalk, ValidWatchdogPolicy, Positive
<1>3. dirty' \in BOOLEAN /\ episode' = episode + 1
    BY DEF Stall
<1>4. "stall reasons" \in Errors /\ episode + 1 \in Nat
  <2>1. "stall reasons" \in Errors
      BY DEF Errors
  <2>2. episode + 1 \in Nat
      BY DEF WalkInv, TypeOK
  <2> QED BY <2>1, <2>2
<1>5. CASE io = 0
  <2>1. /\ state' = "stalled" /\ error' = "stall reasons"
        /\ guard' = h /\ attempts' = <<>> /\ tried' = <<>>
        /\ UNCHANGED <<history, report, used>>
      BY <1>5 DEF Stall
  <2> HIDE DEF h
  <2> QED BY <1>2, <1>3, <1>4, <2>1 DEF WalkInv, TypeOK, ExecutionState, IsWalk
<1>6. CASE io # 0
  <2>1. AttemptRecovery(h, episode + 1, <<>>, <<>>, "stall reasons")
      BY <1>6 DEF Stall
  <2> HIDE DEF h
  <2> QED BY <1>2, <1>3, <1>4, <2>1, AttemptRecoveryTyped DEF WalkInv, ExecutionState
<1> QED BY <1>5, <1>6

LEMMA EvaluateKeepsWalk ==
    ASSUME WalkInv, NEW t \in Times, NEW io, Evaluate(t, io)
    PROVE  WalkInv'
<1>1. t \in Nat
    BY WatchdogAssumption
<1>2. CASE Stall(guard, io, 2) /\ UNCHANGED <<started, boundary, workVars, modelVars>>
  <2>1. now' = t
      BY DEF Evaluate, ObserveTime
  <2> QED BY <1>1, <1>2, <2>1, StallTyped DEF WalkInv, TypeOK, workVars, modelVars, IsWalk
<1>3. CASE UNCHANGED <<state, started, boundary, workVars, guard, episodeVars, used,
                       modelVars, error, mirrorVars>>
    BY <1>1, <1>3 DEF Evaluate, ObserveTime, WalkInv, TypeOK, workVars, modelVars,
       episodeVars, mirrorVars, IsWalk
<1> QED BY <1>2, <1>3 DEF Evaluate

LEMMA ActivityKeepsWalk ==
    ASSUME WalkInv, NEW t \in Times, NEW a \in ActivityRecord, NEW err \in BOOLEAN,
           NEW io, RecordActivity(t, a, err, io)
    PROVE  WalkInv'
<1> DEFINE counted == record_identical_failure(record_attempt(guard), IsRepeat(a))
<1>1. /\ counted \in LoopGuard
      /\ counted.recovery_attempts = guard.recovery_attempts
    BY GuardRecords DEF WalkInv, TypeOK, IsRepeat
<1>2. /\ now' = t /\ last' = a
      /\ recent' \in { recent, Append(recent, a) }
      /\ UNCHANGED <<started, boundary, evidence, pending, modelVars>>
    BY DEF RecordActivity, ObserveTime
<1>3. t \in Nat /\ recent' \in Seq(ActivityRecord)
  <2>1. t \in Nat
      BY WatchdogAssumption
  <2>2. recent \in Seq(ActivityRecord) /\ Append(recent, a) \in Seq(ActivityRecord)
      BY DEF WalkInv, TypeOK
  <2> QED BY <1>2, <2>1, <2>2
<1>4. CASE Stall(counted, io, 3)
  <2> HIDE DEF counted
  <2> QED BY <1>1, <1>2, <1>3, <1>4, StallTyped DEF WalkInv, TypeOK, modelVars, IsWalk
<1>5. CASE ~Stall(counted, io, 3)
  <2>1. /\ guard' = counted /\ error' \in { error, "activity error" }
        /\ UNCHANGED <<state, episodeVars, used>>
        /\ dirty' \in BOOLEAN
      BY <1>5 DEF RecordActivity, WriteHeartbeat
  <2> HIDE DEF counted
  <2> QED BY <1>1, <1>2, <1>3, <2>1 DEF WalkInv, TypeOK, modelVars, episodeVars, Errors, IsWalk
<1> QED BY <1>4, <1>5

LEMMA WalkInvNext ==
    WalkInv /\ [Next]_vars => WalkInv'
<1> SUFFICES ASSUME WalkInv, [Next]_vars PROVE WalkInv'
    OBVIOUS
<1>1. CASE UNCHANGED vars
    BY <1>1 DEF vars, WalkInv, TypeOK, IsWalk, clockVars, workVars, episodeVars, modelVars,
       mirrorVars
<1>2. CASE SyncHeartbeat
    BY <1>2 DEF SyncHeartbeat, WalkInv, TypeOK, IsWalk, clockVars, workVars, episodeVars,
       modelVars
<1>3. ASSUME NEW t \in Times, NEW s \in Signals, RecordEscalation(t, s)
      PROVE  WalkInv'
    BY <1>3, EscalationKeepsWalk
<1>4. ASSUME NEW t \in Times, NEW io \in Io(2), Evaluate(t, io)
      PROVE  WalkInv'
    BY <1>4, EvaluateKeepsWalk
<1>5. ASSUME NEW t \in Times, NEW a \in ActivityRecord, NEW err \in BOOLEAN,
             NEW io \in Io(3), RecordActivity(t, a, err, io)
      PROVE  WalkInv'
    BY <1>5, ActivityKeepsWalk
<1>6. ASSUME NEW t \in Times, NEW io \in Io(1),
             \/ \E c \in StartCharges : Start(t, c, io)
             \/ \E s \in ExecutionState : Advance(t, s, io)
             \/ \E d \in Descriptions : RecordProgress(t, d, io)
             \/ \E w \in PendingWork : Checkpoint(t, w, io)
             \/ Complete(t, io)
      PROVE  WalkInv'
    BY <1>6, OrdinaryStepsKeepWalk
<1>7. ASSUME NEW t \in Times, NEW io \in Io(1), BeginRecovery(t, io)
      PROVE  WalkInv'
    BY <1>7, BeginRecoveryKeepsWalk
<1>8. ASSUME NEW t \in Times, NEW io \in Io(1), ResolveRecovery(t, io)
      PROVE  WalkInv'
    BY <1>8, RecoverySuccessKeepsWalk, RecoveryFailureKeepsWalk DEF ResolveRecovery
<1> QED BY <1>1, <1>2, <1>3, <1>4, <1>5, <1>6, <1>7, <1>8 DEF Next

\* The invariant holds in every reachable state.
LEMMA WalkInvHolds ==
    Spec => []WalkInv
BY WalkInvInit, WalkInvNext, PTL DEF Spec

\* Every attribute of the coordinator keeps its type, whatever is called, in
\* whatever order, with whichever heartbeat writes failing.
THEOREM TypeCorrect == Spec => []TypeOK
BY WalkInvHolds, WalkInvImplies, PTL

\* Each episode walks the strategy ladder from its first rung, one rung per
\* attempt, and stays within max_recovery_attempts: for every ladder, policy
\* and sequence of calls.
THEOREM LadderIsWalked == Spec => []LadderWalk
BY WalkInvHolds, WalkInvImplies, PTL

-----------------------------------------------------------------------------
(* Recovery episodes *)

\* No episode is open and none has blocked the execution.
Ordinary == ~InEpisode /\ state # "blocked"

AllFailed(att) == \A i \in DOMAIN att : att[i].result = "failure"

\* What begin_recovery() finds: an open episode whose attempts have all failed,
\* with a rung of the ladder left.
Ready(g, ep, att, trd) ==
    /\ IsWalk(g, att, trd)
    /\ AllFailed(att)
    /\ Len(trd) < Len(StrategyLadder)
    /\ g.no_progress_cycles = 1
    /\ ep = Len(history) + 1

\* PendingOnlyWhileRecovering, and that the other attempts have failed.
AttemptsResolved ==
    \A i \in DOMAIN attempts :
        IF state = "recovering" /\ i = Len(attempts)
        THEN attempts[i].result = "pending"
        ELSE IF InEpisode THEN attempts[i].result = "failure"
        ELSE attempts[i].result # "pending"

\* None of the properties of an episode is inductive alone: that its report is
\* about the episode just closed rests on the numbers of the episodes, that
\* closed episodes are resolved on the results of the open one, and that the
\* ladder never runs out on a rung being left whenever the state is STALLED.
EpisodeInv ==
    /\ EpisodesCloseOnce
    /\ AttemptsResolved
    /\ ClosedEpisodesAreResolved
    /\ BlockedIffReported
    /\ LadderNeverRunsOut
    /\ RecoveringWithinBounds
    /\ OneNoProgressCycle
    /\ state = "stalled" => Len(tried) < Len(StrategyLadder)

\* What the LoopGuard methods do to the no-progress counter and to exceeded.
LEMMA GuardCounters ==
    ASSUME NEW g \in LoopGuard, NEW repeat \in BOOLEAN
    PROVE  /\ record_recovery_attempt_started(g).no_progress_cycles = g.no_progress_cycles
           /\ exceeded(record_recovery_attempt_started(g)) = exceeded(g)
           /\ start_new_recovery_episode(record_no_progress_cycle(g)).no_progress_cycles
                = g.no_progress_cycles + 1
           /\ guard_record_progress(g).no_progress_cycles = 0
           /\ guard_record_escalation(g).no_progress_cycles = g.no_progress_cycles
           /\ record_identical_failure(record_attempt(g), repeat).no_progress_cycles
                = g.no_progress_cycles
<1>1. /\ record_recovery_attempt_started(g).no_progress_cycles = g.no_progress_cycles
      /\ exceeded(record_recovery_attempt_started(g)) = exceeded(g)
    BY DEF record_recovery_attempt_started, exceeded, LoopGuard
<1>2. start_new_recovery_episode(record_no_progress_cycle(g)).no_progress_cycles
        = g.no_progress_cycles + 1
    BY DEF start_new_recovery_episode, record_no_progress_cycle, LoopGuard
<1>3. /\ guard_record_progress(g).no_progress_cycles = 0
      /\ guard_record_escalation(g).no_progress_cycles = g.no_progress_cycles
    BY DEF guard_record_progress, guard_record_escalation, LoopGuard
<1>4. record_identical_failure(record_attempt(g), repeat).no_progress_cycles
        = g.no_progress_cycles
    BY DEF record_identical_failure, record_attempt, LoopGuard
<1> QED BY <1>1, <1>2, <1>3, <1>4

LEMMA EpisodeInvInit ==
    Init => EpisodeInv
BY DEF Init, EpisodeInv, EpisodesCloseOnce, AttemptsResolved, ClosedEpisodesAreResolved,
       BlockedIffReported, LadderNeverRunsOut, RecoveringWithinBounds, OneNoProgressCycle,
       InEpisode, NoReport, NoText, NewLoopGuard

\* Steps that leave the episode alone.
Undisturbed ==
    /\ UNCHANGED episodeVars
    /\ \/ /\ Ordinary /\ Ordinary'
          /\ guard'.no_progress_cycles \in { 0, guard.no_progress_cycles }
       \/ UNCHANGED <<state, guard, pending, error>>

LEMMA UndisturbedKeepsEpisode ==
    ASSUME EpisodeInv, Undisturbed
    PROVE  EpisodeInv'
<1> USE DEF EpisodeInv, EpisodesCloseOnce, AttemptsResolved, ClosedEpisodesAreResolved,
        BlockedIffReported, LadderNeverRunsOut, RecoveringWithinBounds, OneNoProgressCycle,
        Undisturbed, episodeVars
<1>1. CASE UNCHANGED <<state, guard, pending, error>>
    BY <1>1 DEF InEpisode
<1>2. CASE Ordinary /\ Ordinary' /\ guard'.no_progress_cycles \in { 0, guard.no_progress_cycles }
  <2>1. guard'.no_progress_cycles = 0
      BY <1>2 DEF Ordinary
  <2> QED BY <1>2, <2>1 DEF Ordinary, InEpisode
<1> QED BY <1>1, <1>2

\* Closing an episode adds it to the audit trail under the next number.
LEMMA CloseKeepsTrail ==
    ASSUME WalkInv, NEW ep, ep = Len(history) + 1, NEW att,
           NEW outcome, CloseEpisode(ep, att, outcome),
           \A i \in DOMAIN history : history[i].number = i
    PROVE  /\ Len(history') = ep
           /\ DOMAIN history' = 1..ep /\ DOMAIN history = 1..(ep - 1)
           /\ \A i \in DOMAIN history : history'[i] = history[i]
           /\ history'[ep] = [ number |-> ep, attempts |-> att, outcome |-> outcome ]
           /\ \A i \in DOMAIN history' : history'[i].number = i
<1> DEFINE e == [ number |-> ep, attempts |-> att, outcome |-> outcome ]
<1>1. /\ history \in Seq(RecoveryEpisode)
      /\ Len(history) \in Nat /\ DOMAIN history = 1..Len(history)
    BY DEF WalkInv, TypeOK
<1>2. history' = Append(history, e)
    BY <1>1 DEF CloseEpisode
<1>3. e.number = ep
    OBVIOUS
<1> HIDE DEF e
<1>4. /\ Len(history') = Len(history) + 1
      /\ \A i \in 1..Len(history) : history'[i] = history[i]
      /\ history'[Len(history) + 1] = e
      /\ DOMAIN history' = 1..(Len(history) + 1)
    BY <1>1, <1>2
<1> QED BY <1>1, <1>3, <1>4 DEF e

\* With a rung left, and within the attempt bound, there is a next strategy.
LEMMA RungLeft ==
    ASSUME NEW trd \in Seq(Strategies),
           Len(trd) < Len(StrategyLadder), Len(trd) < MaxRecoveryAttempts,
           \A i \in DOMAIN trd : trd[i] = StrategyLadder[i]
    PROVE  next_strategy(trd, Len(trd) + 1) # Exhausted
<1> DEFINE n == Len(trd)
<1>1. /\ n \in Nat /\ DOMAIN trd = 1..n
      /\ Len(StrategyLadder) \in Nat
      /\ DOMAIN StrategyLadder = 1..Len(StrategyLadder)
      /\ MaxRecoveryAttempts \in Nat
    BY StrategyLadderAssumption, WatchdogPolicyAssumption
    DEF ValidWatchdogPolicy, Positive
<1>2. ~(n + 1 > MaxRecoveryAttempts)
    BY <1>1
<1>3. ~(trd # <<>> /\ IsLastResort(trd[n]))
    BY <1>1, StrategyLadderAssumption DEF IsLastResort, LastResort
<1>4. n + 1 \in Untried(trd)
    BY <1>1, StrategyLadderAssumption DEF Untried
<1>5. PICK k \in Untried(trd) : \A j \in Untried(trd) : k <= j
  <2>1. Untried(trd) \subseteq Nat
      BY <1>1 DEF Untried
  <2> QED BY <1>4, <2>1, LeastElement
<1>6. (CHOOSE i \in Untried(trd) : \A j \in Untried(trd) : i <= j) \in DOMAIN StrategyLadder
    BY <1>5 DEF Untried
<1>7. \A i \in DOMAIN StrategyLadder : StrategyLadder[i] # Exhausted
    BY StrategyLadderAssumption DEF Strategies, Exhausted
<1> QED BY <1>2, <1>3, <1>4, <1>6, <1>7 DEF next_strategy

\* begin_recovery(), on an open episode: an attempt within every bound, or a
\* report on the episode it closes.
LEMMA AttemptKeepsEpisode ==
    ASSUME WalkInv, EpisodeInv, state # "blocked",
           NEW g, NEW ep, NEW att, NEW trd, NEW err, Ready(g, ep, att, trd),
           AttemptRecovery(g, ep, att, trd, err),
           episode' = ep, pending' = pending
    PROVE  EpisodeInv'
<1>r. report = NoReport
    BY DEF EpisodeInv, BlockedIffReported
<1>w. /\ g \in LoopGuard
      /\ att \in Seq(RecoveryAttempt) /\ trd \in Seq(Strategies)
      /\ Len(att) = Len(trd) /\ Len(att) \in Nat /\ DOMAIN att = 1..Len(att)
      /\ g.recovery_attempts = Len(trd)
      /\ \A i \in DOMAIN trd : trd[i] = StrategyLadder[i]
    BY DEF Ready, IsWalk
<1>h. /\ Len(history) \in Nat /\ DOMAIN history = 1..Len(history)
      /\ ep = Len(history) + 1
    BY DEF Ready, WalkInv, TypeOK
<1>1. CASE RecoveryBlocker(g, att, trd) = NoText
  <2> DEFINE a == [ strategy |-> next_strategy(trd, Len(att) + 1), result |-> "pending" ]
  <2>1. /\ attempts' = Append(att, a) /\ state' = "recovering"
        /\ guard' = record_recovery_attempt_started(g)
        /\ UNCHANGED <<history, report>>
      BY <1>1 DEF AttemptRecovery, StartAttempt
  <2>2. a.result = "pending"
      OBVIOUS
  <2> HIDE DEF a
  <2>3. AttemptsResolved'
    <3>1. /\ Len(attempts') = Len(att) + 1 /\ DOMAIN attempts' = 1..(Len(att) + 1)
          /\ \A i \in 1..Len(att) : attempts'[i] = att[i]
          /\ attempts'[Len(att) + 1] = a
        BY <1>w, <2>1
    <3>2. \A i \in DOMAIN attempts' :
              attempts'[i].result = IF i = Len(attempts') THEN "pending" ELSE "failure"
        BY <1>w, <2>2, <3>1 DEF Ready, AllFailed
    <3> QED BY <2>1, <3>2 DEF AttemptsResolved, InEpisode
  <2>4. EpisodesCloseOnce' /\ ClosedEpisodesAreResolved' /\ OneNoProgressCycle'
    <3>1. guard'.no_progress_cycles = 1
        BY <1>w, <2>1, GuardCounters DEF Ready
    <3> QED BY <1>h, <2>1, <3>1
            DEF EpisodeInv, EpisodesCloseOnce, ClosedEpisodesAreResolved, OneNoProgressCycle,
                InEpisode
  <2>5. BlockedIffReported' /\ LadderNeverRunsOut'
      BY <1>r, <2>1 DEF BlockedIffReported, LadderNeverRunsOut, NoReport, NoText
  <2>6. RecoveringWithinBounds'
    <3>1. ~exceeded(g)
        BY <1>1 DEF RecoveryBlocker, NoText
    <3>2. ~exceeded(guard')
        BY <1>w, <2>1, <3>1, GuardCounters
    <3> QED BY <1>r, <2>1, <3>2 DEF RecoveringWithinBounds, NoReport, NoText
  <2> QED BY <2>1, <2>3, <2>4, <2>5, <2>6 DEF EpisodeInv
<1>2. CASE RecoveryBlocker(g, att, trd) # NoText
  <2> DEFINE b == RecoveryBlocker(g, att, trd)
  <2>1. b \in { "loop protection bound reached during recovery", "recovery budget exhausted" }
    <3>1. ASSUME can_start_recovery_attempt(g)
          PROVE  next_strategy(trd, Len(att) + 1) # Exhausted
      <4>1. Len(trd) < MaxRecoveryAttempts
          BY <1>w, <3>1 DEF can_start_recovery_attempt
      <4> QED BY <1>w, <4>1, RungLeft DEF Ready
    <3> QED BY <1>2, <3>1 DEF RecoveryBlocker
  <2>2. TransitionToBlocked(b, g, ep, att, trd)
      BY <1>2 DEF AttemptRecovery
  <2> HIDE DEF b
  <2>3. /\ report' = NewReport(b, att, trd)
        /\ CloseEpisode(ep, att, "blocked")
        /\ state' = "blocked" /\ error' = b
        /\ guard' = g /\ attempts' = att /\ tried' = trd
      BY <2>2 DEF TransitionToBlocked
  <2>4. /\ report'.blocker = b /\ report'.attempts = Len(att)
        /\ report'.strategies = trd /\ report'.checkpoint = pending
        /\ report' # NoReport
      BY <2>1, <2>3 DEF NewReport, NoReport, NoText
  <2>5. \A i \in DOMAIN history : history[i].number = i
      BY DEF EpisodeInv, EpisodesCloseOnce
  <2>6. /\ Len(history') = ep
        /\ DOMAIN history' = 1..ep /\ DOMAIN history = 1..(ep - 1)
        /\ \A i \in DOMAIN history : history'[i] = history[i]
        /\ history'[ep] = [ number |-> ep, attempts |-> att, outcome |-> "blocked" ]
        /\ \A i \in DOMAIN history' : history'[i].number = i
      BY <1>h, <2>3, <2>5, CloseKeepsTrail
  <2>7. EpisodesCloseOnce' /\ BlockedIffReported'
      BY <1>h, <2>3, <2>4, <2>6 DEF EpisodesCloseOnce, BlockedIffReported, InEpisode
  <2>8. ClosedEpisodesAreResolved'
    <3>1. \A i \in DOMAIN att : att[i].result = "failure"
        BY DEF Ready, AllFailed
    <3>2. \A e \in DOMAIN history' : e # ep => e \in DOMAIN history
        BY <1>h, <2>6
    <3> QED BY <2>6, <3>1, <3>2 DEF EpisodeInv, ClosedEpisodesAreResolved
  <2>9. AttemptsResolved' /\ OneNoProgressCycle'
      BY <2>3 DEF AttemptsResolved, OneNoProgressCycle, InEpisode, Ready, AllFailed
  <2>10. LadderNeverRunsOut' /\ RecoveringWithinBounds'
      BY <2>1, <2>3, <2>4 DEF LadderNeverRunsOut, RecoveringWithinBounds
  <2> QED BY <2>3, <2>7, <2>8, <2>9, <2>10 DEF EpisodeInv
<1> QED BY <1>1, <1>2

\* What begin_recovery() finds in STALLED is ready for an attempt.
LEMMA StalledIsReady ==
    ASSUME WalkInv, EpisodeInv, state = "stalled"
    PROVE  Ready(guard, episode, attempts, tried)
<1>1. IsWalk(guard, attempts, tried) /\ guard.no_progress_cycles = 1
    BY DEF WalkInv, EpisodeInv, OneNoProgressCycle, InEpisode
<1>2. AllFailed(attempts) /\ Len(tried) < Len(StrategyLadder)
    BY DEF EpisodeInv, AttemptsResolved, AllFailed, InEpisode
<1>3. episode = Len(history) + 1
    BY DEF EpisodeInv, EpisodesCloseOnce, InEpisode, WalkInv, TypeOK
<1> QED BY <1>1, <1>2, <1>3 DEF Ready

\* What evaluate()'s stall branch hands to it is ready, too.
LEMMA StallIsReady ==
    ASSUME WalkInv, EpisodeInv, Ordinary,
           NEW g \in LoopGuard, g.no_progress_cycles = 0
    PROVE  Ready(start_new_recovery_episode(record_no_progress_cycle(g)),
                 episode + 1, <<>>, <<>>)
<1> DEFINE opened == start_new_recovery_episode(record_no_progress_cycle(g))
<1>1. /\ opened \in LoopGuard /\ opened.recovery_attempts = 0
      /\ opened.no_progress_cycles = 1
  <2>1. opened \in LoopGuard /\ opened.recovery_attempts = 0
      BY GuardRecords
  <2>2. opened.no_progress_cycles = g.no_progress_cycles + 1
      BY GuardCounters
  <2> QED BY <2>1, <2>2
<1> HIDE DEF opened
<1>2. IsWalk(opened, <<>>, <<>>)
    BY <1>1, StrategyLadderAssumption, WatchdogPolicyAssumption
    DEF IsWalk, ValidWatchdogPolicy, Positive
<1>3. episode = Len(history)
    BY DEF EpisodeInv, EpisodesCloseOnce, Ordinary
<1>4. Ready(opened, episode + 1, <<>>, <<>>)
    BY <1>1, <1>2, <1>3, StrategyLadderAssumption DEF Ready, AllFailed
<1> QED BY <1>4 DEF opened

\* evaluate()'s stall branch opens the next episode, and may go no further.
LEMMA StallKeepsEpisode ==
    ASSUME WalkInv, EpisodeInv, Ordinary,
           NEW g \in LoopGuard, g.no_progress_cycles = 0,
           NEW io, NEW writes, Stall(g, io, writes), pending' = pending
    PROVE  EpisodeInv'
<1> DEFINE opened == start_new_recovery_episode(record_no_progress_cycle(g))
<1>1. Ready(opened, episode + 1, <<>>, <<>>)
    BY StallIsReady
<1>2. episode' = episode + 1
    BY DEF Stall
<1>3. CASE io = 0
  <2>1. /\ state' = "stalled" /\ guard' = opened /\ attempts' = <<>> /\ tried' = <<>>
        /\ UNCHANGED <<history, report>>
      BY <1>3 DEF Stall
  <2>2. report = NoReport
      BY DEF EpisodeInv, BlockedIffReported, Ordinary
  <2>3. /\ Len(<<>>) < Len(StrategyLadder)
        /\ opened.no_progress_cycles = 1
        /\ Len(history) \in Nat /\ episode + 1 = Len(history) + 1
      BY <1>1 DEF Ready, WalkInv, TypeOK
  <2> HIDE DEF opened
  <2> QED BY <1>2, <2>1, <2>2, <2>3
      DEF EpisodeInv, EpisodesCloseOnce, AttemptsResolved, ClosedEpisodesAreResolved,
          BlockedIffReported, LadderNeverRunsOut, RecoveringWithinBounds, OneNoProgressCycle,
          InEpisode, NoReport, NoText
<1>4. CASE io # 0
  <2>1. AttemptRecovery(opened, episode + 1, <<>>, <<>>, "stall reasons")
      BY <1>4 DEF Stall
  <2> HIDE DEF opened
  <2> QED BY <1>1, <1>2, <2>1, AttemptKeepsEpisode DEF Ordinary
<1> QED BY <1>3, <1>4

\* Resolving the pending attempt of an open episode leaves the other results,
\* which are failures.
LEMMA ResolutionResults ==
    ASSUME WalkInv, EpisodeInv, state = "recovering", attempts # <<>>,
           NEW result \in { "success", "failure" }
    PROVE  /\ DOMAIN Resolved(attempts, result) = 1..Len(attempts)
           /\ Len(Resolved(attempts, result)) = Len(attempts)
           /\ Len(attempts) \in Nat \ {0}
           /\ \A i \in 1..Len(attempts) :
                  Resolved(attempts, result)[i].result
                      = IF i = Len(attempts) THEN result ELSE "failure"
<1>1. /\ attempts \in Seq(RecoveryAttempt) /\ Len(attempts) \in Nat \ {0}
      /\ DOMAIN attempts = 1..Len(attempts)
    BY DEF WalkInv, TypeOK
<1>2. \A i \in 1..Len(attempts) : i # Len(attempts) => attempts[i].result = "failure"
    BY <1>1 DEF EpisodeInv, AttemptsResolved, InEpisode
<1>3. result \in RecoveryResult
    BY DEF RecoveryResult
<1>4. /\ Len(Resolved(attempts, result)) = Len(attempts)
      /\ DOMAIN Resolved(attempts, result) = DOMAIN attempts
      /\ \A i \in DOMAIN attempts :
             Resolved(attempts, result)[i].result
                 = IF i = Len(attempts) THEN result ELSE attempts[i].result
    BY <1>1, <1>3, ResolvedTyped
<1> QED BY <1>1, <1>2, <1>4

\* A successful recovery closes its episode and resumes.
LEMMA SuccessKeepsEpisode ==
    ASSUME WalkInv, EpisodeInv, NEW t, NEW r, NEW d, NEW io,
           RecordRecoverySuccess(t, r, d, io)
    PROVE  EpisodeInv'
<1> DEFINE att == Resolved(attempts, "success")
<1>1. /\ state = "recovering" /\ attempts # <<>> /\ attempts' = att
      /\ CloseEpisode(episode, att, "success")
      /\ guard' = guard_record_progress(guard)
      /\ state' = r /\ r \in ResumeStates
      /\ UNCHANGED <<episode, tried, report>>
    BY DEF RecordRecoverySuccess
<1>2. /\ DOMAIN att = 1..Len(attempts) /\ Len(att) = Len(attempts)
      /\ \A i \in 1..Len(attempts) :
             att[i].result = IF i = Len(attempts) THEN "success" ELSE "failure"
    BY <1>1, ResolutionResults
<1>3. Ordinary' /\ state' # "stalled"
    BY <1>1 DEF Ordinary, InEpisode, ResumeStates, ActiveStates
<1>4. report = NoReport /\ report' = NoReport
    BY <1>1 DEF EpisodeInv, BlockedIffReported
<1>5. episode = Len(history) + 1 /\ Len(history) \in Nat
    BY <1>1 DEF EpisodeInv, EpisodesCloseOnce, InEpisode, WalkInv, TypeOK
<1>6. \A i \in DOMAIN history : history[i].number = i
    BY DEF EpisodeInv, EpisodesCloseOnce
<1> HIDE DEF att
<1>7. /\ Len(history') = episode
      /\ DOMAIN history' = 1..episode /\ DOMAIN history = 1..(episode - 1)
      /\ \A i \in DOMAIN history : history'[i] = history[i]
      /\ history'[episode] = [ number |-> episode, attempts |-> att, outcome |-> "success" ]
      /\ \A i \in DOMAIN history' : history'[i].number = i
    BY <1>1, <1>5, <1>6, CloseKeepsTrail
<1>8. EpisodesCloseOnce'
    BY <1>1, <1>3, <1>7 DEF EpisodesCloseOnce, Ordinary
<1>9. AttemptsResolved'
    BY <1>1, <1>2, <1>3 DEF AttemptsResolved, Ordinary, InEpisode
<1>10. ClosedEpisodesAreResolved'
  <2>1. \A e \in DOMAIN history' : e # episode => e \in DOMAIN history
      BY <1>5, <1>7
  <2>2. /\ history'[episode].attempts = att
        /\ history'[episode].outcome = "success"
      BY <1>7
  <2>3. \A i \in DOMAIN att :
            att[i].result = IF i = Len(att) THEN "success" ELSE "failure"
      BY <1>2
  <2>4. \A e \in DOMAIN history : history'[e] = history[e]
      BY <1>7
  <2> QED BY <2>1, <2>2, <2>3, <2>4 DEF EpisodeInv, ClosedEpisodesAreResolved
<1>11. BlockedIffReported' /\ LadderNeverRunsOut' /\ RecoveringWithinBounds'
    BY <1>3, <1>4 DEF BlockedIffReported, LadderNeverRunsOut, RecoveringWithinBounds,
                      Ordinary, InEpisode, NoReport, NoText
<1>12. OneNoProgressCycle'
    BY <1>1, <1>3, GuardCounters DEF OneNoProgressCycle, Ordinary, WalkInv, TypeOK
<1> QED BY <1>3, <1>8, <1>9, <1>10, <1>11, <1>12 DEF EpisodeInv

\* A failed attempt leads back to STALLED with a rung left, or, after the last
\* resort, to BLOCKED.
LEMMA FailureKeepsEpisode ==
    ASSUME WalkInv, EpisodeInv, NEW t, NEW io, RecordRecoveryFailure(t, io)
    PROVE  EpisodeInv'
<1> DEFINE att == Resolved(attempts, "failure")
           n == Len(attempts)
<1>1. /\ state = "recovering" /\ attempts # <<>>
      /\ UNCHANGED <<episode, pending>>
    BY DEF RecordRecoveryFailure, workVars
<1>2. /\ DOMAIN att = 1..n /\ Len(att) = n /\ n \in Nat \ {0}
      /\ \A i \in 1..n : att[i].result = "failure"
    BY <1>1, ResolutionResults
<1>3. report = NoReport
    BY <1>1 DEF EpisodeInv, BlockedIffReported
<1>4. /\ episode = Len(history) + 1 /\ Len(history) \in Nat
      /\ guard.no_progress_cycles = 1
      /\ ~exceeded(guard)
  <2>1. episode = Len(history) + 1 /\ Len(history) \in Nat
      BY <1>1 DEF EpisodeInv, EpisodesCloseOnce, InEpisode, WalkInv, TypeOK
  <2>2. guard.no_progress_cycles = 1 /\ ~exceeded(guard)
      BY <1>1 DEF EpisodeInv, OneNoProgressCycle, RecoveringWithinBounds, InEpisode
  <2> QED BY <2>1, <2>2
<1>5. \A i \in DOMAIN history : history[i].number = i
    BY DEF EpisodeInv, EpisodesCloseOnce
<1>6. /\ Len(tried) = n /\ n <= Len(StrategyLadder)
      /\ tried[n] = StrategyLadder[n] /\ attempts[n].strategy = StrategyLadder[n]
  <2>1. IsWalk(guard, attempts, tried)
      BY DEF WalkInv
  <2>2. n \in DOMAIN tried
      BY <1>2, <2>1 DEF IsWalk
  <2> QED BY <2>1, <2>2 DEF IsWalk
<1> HIDE DEF att
<1>7. CASE IsLastResort(attempts[n].strategy)
  <2> DEFINE b == "recovery attempts exhausted"
  <2>1. TransitionToBlocked(b, guard, episode, att, tried)
      BY <1>7 DEF RecordRecoveryFailure, att
  <2>2. /\ report' = NewReport(b, att, tried)
        /\ CloseEpisode(episode, att, "blocked")
        /\ state' = "blocked" /\ error' = b
        /\ guard' = guard /\ attempts' = att /\ tried' = tried
      BY <2>1 DEF TransitionToBlocked
  <2>3. /\ report'.blocker = b /\ report'.attempts = n
        /\ report'.strategies = tried /\ report'.checkpoint = pending
        /\ report' # NoReport
      BY <1>2, <2>2 DEF NewReport, NoReport, NoText
  <2>4. /\ Len(history') = episode
        /\ DOMAIN history' = 1..episode /\ DOMAIN history = 1..(episode - 1)
        /\ \A i \in DOMAIN history : history'[i] = history[i]
        /\ history'[episode] = [ number |-> episode, attempts |-> att, outcome |-> "blocked" ]
        /\ \A i \in DOMAIN history' : history'[i].number = i
      BY <1>4, <1>5, <2>2, CloseKeepsTrail, ZenonT(30)
  <2>5. EpisodesCloseOnce' /\ BlockedIffReported'
    <3>1. EpisodesCloseOnce'
        BY <1>1, <2>2, <2>4 DEF EpisodesCloseOnce, InEpisode
    <3>2. Len(attempts') = n
        BY <1>2, <2>2
    <3>3. episode > 0
        BY <1>4
    <3>4. history'[episode].outcome = "blocked" /\ history'[episode].attempts = attempts'
      <4>1. history'[episode].outcome = "blocked" /\ history'[episode].attempts = att
          BY <2>4
      <4> QED BY <2>2, <4>1
    <3> HIDE DEF n, b
    <3>5. /\ report'.attempts = Len(attempts') /\ report'.strategies = tried'
          /\ report'.checkpoint = pending' /\ report'.blocker = error'
          /\ episode' = episode
        BY <1>1, <2>2, <2>3, <3>2
    <3> QED BY <2>2, <2>3, <2>4, <3>1, <3>3, <3>4, <3>5 DEF BlockedIffReported
  <2>6. ClosedEpisodesAreResolved'
    <3>1. \A e \in DOMAIN history' : e # episode => e \in DOMAIN history
        BY <1>4, <2>4
    <3> QED BY <1>2, <2>4, <3>1 DEF EpisodeInv, ClosedEpisodesAreResolved
  <2>7. AttemptsResolved' /\ OneNoProgressCycle' /\ LadderNeverRunsOut'
      BY <1>2, <1>4, <2>2, <2>3 DEF AttemptsResolved, OneNoProgressCycle,
         LadderNeverRunsOut, InEpisode
  <2>8. RecoveringWithinBounds'
      BY <1>6, <1>7, <2>2, <2>3 DEF RecoveringWithinBounds, IsLastResort
  <2> QED BY <2>2, <2>5, <2>6, <2>7, <2>8 DEF EpisodeInv
<1>8. CASE ~IsLastResort(attempts[n].strategy)
  <2>1. /\ state' = "stalled" /\ attempts' = att
        /\ UNCHANGED <<guard, tried, history, report>>
      BY <1>4, <1>8 DEF RecordRecoveryFailure, att
  <2>2. Len(tried) < Len(StrategyLadder)
    <3>1. n # Len(StrategyLadder)
        BY <1>6, <1>8 DEF IsLastResort, LastResort
    <3> QED BY <1>2, <1>6, <3>1, StrategyLadderAssumption
  <2>3. EpisodesCloseOnce' /\ ClosedEpisodesAreResolved' /\ OneNoProgressCycle'
      BY <1>1, <1>4, <2>1 DEF EpisodeInv, EpisodesCloseOnce, ClosedEpisodesAreResolved,
         OneNoProgressCycle, InEpisode
  <2>4. AttemptsResolved'
      BY <1>2, <2>1 DEF AttemptsResolved, InEpisode
  <2>5. BlockedIffReported' /\ LadderNeverRunsOut' /\ RecoveringWithinBounds'
      BY <1>3, <2>1 DEF BlockedIffReported, LadderNeverRunsOut, RecoveringWithinBounds,
                        NoReport, NoText
  <2> QED BY <2>1, <2>2, <2>3, <2>4, <2>5 DEF EpisodeInv
<1> QED BY <1>7, <1>8

LEMMA QuietStepsKeepEpisode ==
    ASSUME WalkInv, EpisodeInv, NEW t, NEW io
    PROVE  /\ \A c : Start(t, c, io) => EpisodeInv'
           /\ \A s : Advance(t, s, io) /\ s \in ExecutionState => EpisodeInv'
           /\ \A d : RecordProgress(t, d, io) => EpisodeInv'
           /\ \A w : Checkpoint(t, w, io) => EpisodeInv'
           /\ \A s : RecordEscalation(t, s) => EpisodeInv'
           /\ Complete(t, io) => EpisodeInv'
           /\ SyncHeartbeat => EpisodeInv'
           /\ UNCHANGED vars => EpisodeInv'
<1> SUFFICES ASSUME \/ \E c : Start(t, c, io)
                    \/ \E s \in ExecutionState : Advance(t, s, io)
                    \/ \E d : RecordProgress(t, d, io)
                    \/ \E w : Checkpoint(t, w, io)
                    \/ \E s : RecordEscalation(t, s)
                    \/ Complete(t, io)
                    \/ SyncHeartbeat
                    \/ UNCHANGED vars
             PROVE  Undisturbed
    BY UndisturbedKeepsEpisode
<1>a. state \in ActiveStates => Ordinary
    BY DEF ActiveStates, Ordinary, InEpisode
<1>g. guard \in LoopGuard
    BY DEF WalkInv, TypeOK
<1>1. ASSUME NEW c, Start(t, c, io)
      PROVE  Undisturbed
    BY <1>1 DEF Start, Undisturbed, episodeVars, Ordinary, InEpisode
<1>2. ASSUME NEW s \in ExecutionState, Advance(t, s, io)
      PROVE  Undisturbed
    BY <1>2, <1>a DEF Advance, Undisturbed, episodeVars, Ordinary, InEpisode, ExecutionState,
                      DedicatedStates
<1>3. ASSUME NEW d, RecordProgress(t, d, io)
      PROVE  Undisturbed
    BY <1>3, <1>a, <1>g, GuardCounters
    DEF RecordProgress, Undisturbed, episodeVars, Ordinary, InEpisode
<1>4. ASSUME NEW w, Checkpoint(t, w, io)
      PROVE  Undisturbed
    BY <1>4, <1>a DEF Checkpoint, Undisturbed, episodeVars, Ordinary, InEpisode
<1>5. ASSUME NEW s, RecordEscalation(t, s)
      PROVE  Undisturbed
    BY <1>5, <1>a, <1>g, GuardCounters
    DEF RecordEscalation, Undisturbed, episodeVars, Ordinary, InEpisode
<1>6. ASSUME Complete(t, io)
      PROVE  Undisturbed
  <2>1. state = "reviewing"
      BY <1>6 DEF Complete, can_transition, Allowed, WalkInv, TypeOK, ExecutionState
  <2> QED BY <1>6, <2>1 DEF Complete, Undisturbed, episodeVars, Ordinary, InEpisode
<1>7. CASE SyncHeartbeat \/ UNCHANGED vars
    BY <1>7 DEF SyncHeartbeat, vars, workVars, Undisturbed, episodeVars
<1> QED BY <1>1, <1>2, <1>3, <1>4, <1>5, <1>6, <1>7

LEMMA EpisodeInvNext ==
    WalkInv /\ EpisodeInv /\ [Next]_vars => EpisodeInv'
<1> SUFFICES ASSUME WalkInv, EpisodeInv, [Next]_vars PROVE EpisodeInv'
    OBVIOUS
<1>g. guard \in LoopGuard
    BY DEF WalkInv, TypeOK
<1>a. ASSUME state \in ActiveStates
      PROVE  Ordinary /\ guard.no_progress_cycles = 0
    BY <1>a DEF ActiveStates, Ordinary, InEpisode, EpisodeInv, OneNoProgressCycle
<1>1. ASSUME NEW t \in Times, NEW io \in Io(2), Evaluate(t, io)
      PROVE  EpisodeInv'
  <2>1. CASE state \in ActiveStates /\ pending' = pending /\ Stall(guard, io, 2)
      BY <2>1, <1>g, <1>a, StallKeepsEpisode
  <2>2. CASE UNCHANGED <<state, guard, pending, error, episodeVars>>
      BY <2>2, UndisturbedKeepsEpisode DEF Undisturbed
  <2> QED BY <1>1, <2>1, <2>2 DEF Evaluate, workVars
<1>2. ASSUME NEW t \in Times, NEW a \in ActivityRecord, NEW err \in BOOLEAN,
             NEW io \in Io(3), RecordActivity(t, a, err, io)
      PROVE  EpisodeInv'
  <2> DEFINE counted == record_identical_failure(record_attempt(guard), IsRepeat(a))
  <2>1. state \in ActiveStates /\ pending' = pending
      BY <1>2 DEF RecordActivity
  <2>2. counted \in LoopGuard /\ counted.no_progress_cycles = 0
    <3>1. record_attempt(guard) \in LoopGuard /\ IsRepeat(a) \in BOOLEAN
        BY <1>g, GuardRecords DEF IsRepeat
    <3>2. counted \in LoopGuard
        BY <3>1, GuardRecords
    <3>3. counted.no_progress_cycles = guard.no_progress_cycles
        BY <1>g, <3>1, GuardCounters
    <3> QED BY <1>a, <2>1, <3>2, <3>3
  <2>3. CASE Stall(counted, io, 3)
    <3> HIDE DEF counted
    <3> QED BY <1>a, <2>1, <2>2, <2>3, StallKeepsEpisode
  <2>4. CASE guard' = counted /\ UNCHANGED <<state, episodeVars>>
    <3> HIDE DEF counted
    <3>1. Undisturbed
        BY <1>a, <2>1, <2>2, <2>4 DEF Undisturbed, Ordinary, InEpisode
    <3> QED BY <3>1, UndisturbedKeepsEpisode
  <2> QED BY <1>2, <2>3, <2>4 DEF RecordActivity
<1>3. ASSUME NEW t \in Times, NEW io \in Io(1), BeginRecovery(t, io)
      PROVE  EpisodeInv'
  <2>1. /\ state = "stalled" /\ episode' = episode /\ pending' = pending
        /\ AttemptRecovery(guard, episode, attempts, tried, error)
      BY <1>3 DEF BeginRecovery, workVars
  <2>2. Ready(guard, episode, attempts, tried)
      BY <2>1, StalledIsReady
  <2> QED BY <2>1, <2>2, AttemptKeepsEpisode
<1>4. ASSUME NEW t \in Times, NEW io \in Io(1), ResolveRecovery(t, io)
      PROVE  EpisodeInv'
    BY <1>4, SuccessKeepsEpisode, FailureKeepsEpisode DEF ResolveRecovery
<1> QED BY <1>1, <1>2, <1>3, <1>4, QuietStepsKeepEpisode DEF Next

\* Every property of a recovery episode that the runs check holds of every
\* execution: each episode opens, walks, resolves and closes as one unit.
LEMMA EpisodeInvHolds ==
    Spec => []EpisodeInv
<1>1. WalkInv /\ EpisodeInv /\ [Next]_vars => EpisodeInv'
    BY EpisodeInvNext
<1> QED BY <1>1, EpisodeInvInit, WalkInvHolds, PTL DEF Spec

\* The audit trail has neither gaps nor duplicates, although no method clears
\* the episode it closes.
THEOREM EpisodesAreClosedOnce == Spec => []EpisodesCloseOnce
<1>1. EpisodeInv => EpisodesCloseOnce
    BY DEF EpisodeInv
<1> QED BY <1>1, EpisodeInvHolds, PTL

\* No path abandons a pending attempt or resolves one twice.
THEOREM PendingIsRecovering == Spec => []PendingOnlyWhileRecovering
<1>1. EpisodeInv => PendingOnlyWhileRecovering
    BY DEF EpisodeInv, AttemptsResolved, PendingOnlyWhileRecovering, InEpisode
<1> QED BY <1>1, EpisodeInvHolds, PTL

\* A closed episode says what became of its attempts.
THEOREM ClosedIsResolved == Spec => []ClosedEpisodesAreResolved
<1>1. EpisodeInv => ClosedEpisodesAreResolved
    BY DEF EpisodeInv
<1> QED BY <1>1, EpisodeInvHolds, PTL

\* A blocked execution has a report, about the episode that just closed.
THEOREM BlockedIsReported == Spec => []BlockedIffReported
<1>1. EpisodeInv => BlockedIffReported
    BY DEF EpisodeInv
<1> QED BY <1>1, EpisodeInvHolds, PTL

\* begin_recovery() never finds the ladder exhausted: a bound always comes
\* first, whatever the ladder and the bounds are.
THEOREM LadderSuffices == Spec => []LadderNeverRunsOut
<1>1. EpisodeInv => LadderNeverRunsOut
    BY DEF EpisodeInv
<1> QED BY <1>1, EpisodeInvHolds, PTL

\* No attempt is cut off by a bound that trips while it runs.
THEOREM AttemptsRunWithinBounds == Spec => []RecoveringWithinBounds
<1>1. EpisodeInv => RecoveringWithinBounds
    BY DEF EpisodeInv
<1> QED BY <1>1, EpisodeInvHolds, PTL

\* max_no_progress_cycles, as the loop guard counts it, never trips.
THEOREM NoProgressIsCountedOnce == Spec => []OneNoProgressCycle
<1>1. EpisodeInv => OneNoProgressCycle
    BY DEF EpisodeInv
<1> QED BY <1>1, EpisodeInvHolds, PTL

-----------------------------------------------------------------------------
(* Budget and escalations *)

\* The attempts of each closed episode.
Recovered == [ i \in DOMAIN history |-> Len(history[i].attempts) ]

\* Before start() nothing has been done that could be charged, and no activity
\* counts towards a stall.
StartInv ==
    ~started => /\ state = "planning"
                /\ history = <<>> /\ recent = <<>>
                /\ escalations_used = 0 /\ used = NothingUsed

LEMMA StartInvNext ==
    StartInv /\ [Next]_vars => StartInv'
<1> DEFINE Kept == started' \/ UNCHANGED <<state, history, recent, escalations_used, used, started>>
<1> SUFFICES ASSUME StartInv, [Next]_vars PROVE Kept
    BY DEF StartInv
<1>1. ASSUME state # "planning" PROVE started
    BY <1>1 DEF StartInv
<1>2. ~can_transition("planning", "completed")
    BY DEF can_transition, Allowed
<1>3. ASSUME NEW t, NEW io, NEW s, Evaluate(t, io) \/ RecordEscalation(t, s)
      PROVE  Kept
    BY <1>1, <1>3 DEF Evaluate, RecordEscalation, workVars, episodeVars, modelVars, ActiveStates
<1>4. ASSUME NEW t, NEW a, NEW err, NEW io, RecordActivity(t, a, err, io)
      PROVE  Kept
    BY <1>1, <1>4 DEF RecordActivity, ActiveStates
<1>5. ASSUME NEW t, NEW io, NEW x,
             \/ Start(t, x, io) \/ Advance(t, x, io) \/ RecordProgress(t, x, io)
             \/ Checkpoint(t, x, io) \/ Complete(t, io)
      PROVE  Kept
    BY <1>1, <1>2, <1>5 DEF Start, Advance, RecordProgress, Checkpoint, Complete, ActiveStates
<1>6. ASSUME NEW t, NEW io, NEW r, NEW d,
             \/ BeginRecovery(t, io) \/ RecordRecoverySuccess(t, r, d, io)
             \/ RecordRecoveryFailure(t, io)
      PROVE  Kept
    BY <1>1, <1>6 DEF BeginRecovery, RecordRecoverySuccess, RecordRecoveryFailure
<1>7. CASE SyncHeartbeat \/ UNCHANGED vars
    BY <1>7 DEF SyncHeartbeat, vars, clockVars, workVars, episodeVars, modelVars
<1> HIDE DEF Kept
<1> QED BY <1>3, <1>4, <1>5, <1>6, <1>7 DEF Next, ResolveRecovery

LEMMA StartInvHolds ==
    Spec => []StartInv
<1>1. Init => StartInv
    BY DEF Init, StartInv, PoolInit
<1>2. StartInv /\ [Next]_vars => StartInv'
    BY StartInvNext
<1> QED BY <1>1, <1>2, PTL DEF Spec

LEMMA RecoveredTyped ==
    ASSUME WalkInv
    PROVE  /\ DOMAIN Recovered = 1..Len(history) /\ Len(history) \in Nat
           /\ \A i \in 1..Len(history) : Recovered[i] \in Nat
           /\ SumFunction(Recovered) = SumFunctionOnSet(Recovered, 1..Len(history))
           /\ SumFunction(Recovered) \in Nat
           /\ Len(attempts) \in Nat
           /\ RecoveriesStarted
                = SumFunction(Recovered) + IF InEpisode THEN Len(attempts) ELSE 0
           /\ RecoveriesStarted \in Nat
<1>1. DOMAIN Recovered = 1..Len(history) /\ Len(history) \in Nat /\ Len(attempts) \in Nat
    BY DEF WalkInv, TypeOK, Recovered
<1>2. \A i \in 1..Len(history) : Recovered[i] \in Nat
  <2>1. \A i \in 1..Len(history) : history[i] \in RecoveryEpisode
      BY DEF WalkInv, TypeOK
  <2> QED BY <1>1, <2>1 DEF Recovered, RecoveryEpisode
<1>3. SumFunction(Recovered) = SumFunctionOnSet(Recovered, 1..Len(history))
    BY <1>1 DEF SumFunction
<1>4. SumFunction(Recovered) \in Nat
    BY <1>1, <1>2, <1>3, SumIsNat
<1>5. RecoveriesStarted
        = SumFunction(Recovered) + IF InEpisode THEN Len(attempts) ELSE 0
    BY DEF RecoveriesStarted, Recovered
<1> QED BY <1>1, <1>2, <1>3, <1>4, <1>5

\* Closing an episode moves its attempts from the open episode to the trail.
LEMMA CloseKeepsRecoveries ==
    ASSUME WalkInv, WalkInv', EpisodeInv,
           NEW ep, ep = Len(history) + 1, NEW att, NEW outcome,
           CloseEpisode(ep, att, outcome), ~InEpisode', Len(att) \in Nat,
           Len(att) = IF InEpisode THEN Len(attempts) ELSE 0
    PROVE  RecoveriesStarted' = RecoveriesStarted
<1> DEFINE n == Len(history)
<1>1. \A i \in DOMAIN history : history[i].number = i
    BY DEF EpisodeInv, EpisodesCloseOnce
<1>2. /\ n \in Nat /\ Len(history') = n + 1
      /\ DOMAIN history' = 1..(n + 1) /\ DOMAIN history = 1..n
      /\ \A i \in DOMAIN history : history'[i] = history[i]
      /\ history'[n + 1].attempts = att
  <2>1. n \in Nat
      BY RecoveredTyped
  <2>2. /\ Len(history') = ep
        /\ DOMAIN history' = 1..ep /\ DOMAIN history = 1..(ep - 1)
        /\ \A i \in DOMAIN history : history'[i] = history[i]
        /\ history'[ep] = [ number |-> ep, attempts |-> att, outcome |-> outcome ]
      BY <1>1, CloseKeepsTrail
  <2>3. history'[ep].attempts = att
      BY <2>2
  <2> QED BY <2>1, <2>2, <2>3
<1>3. /\ \A i \in 1..n : Recovered[i] \in Nat /\ Recovered'[i] = Recovered[i]
      /\ Recovered'[n + 1] = Len(att)
  <2>1. /\ DOMAIN Recovered = 1..n
        /\ \A i \in 1..n : Recovered[i] = Len(history[i].attempts) /\ Recovered[i] \in Nat
      BY <1>2, RecoveredTyped DEF Recovered
  <2>2. \A i \in 1..(n + 1) : Recovered'[i] = Len(history'[i].attempts)
      BY <1>2 DEF Recovered
  <2>3. n + 1 \in 1..(n + 1) /\ \A i \in 1..n : i \in 1..(n + 1)
      BY <1>2
  <2> HIDE DEF Recovered, n
  <2> QED BY <1>2, <2>1, <2>2, <2>3
<1>4. SumFunctionOnSet(Recovered', 1..(n + 1)) = SumFunctionOnSet(Recovered, 1..n) + Len(att)
  <2>1. n \in Nat /\ Recovered'[n + 1] \in Nat
      BY <1>2, <1>3
  <2> HIDE DEF n
  <2>2. SumFunctionOnSet(Recovered', 1..(n + 1))
            = SumFunctionOnSet(Recovered, 1..n) + Recovered'[n + 1]
      BY <1>3, <2>1, SumAppended
  <2> QED BY <1>3, <2>2
<1>5. /\ RecoveriesStarted = SumFunctionOnSet(Recovered, 1..n) + Len(att)
      /\ SumFunctionOnSet(Recovered, 1..n) \in Nat
    BY RecoveredTyped
<1>6. RecoveriesStarted' = SumFunctionOnSet(Recovered', 1..(n + 1))
  <2>1. RecoveriesStarted' = SumFunction(Recovered') + 0
      BY DEF RecoveriesStarted, Recovered
  <2>2. DOMAIN Recovered' = 1..(n + 1)
      BY <1>2 DEF Recovered
  <2>3. SumFunctionOnSet(Recovered', 1..(n + 1)) \in Nat
      BY <1>4, <1>5
  <2> QED BY <2>1, <2>2, <2>3 DEF SumFunction
<1> QED BY <1>4, <1>5, <1>6

\* What the LoopGuard methods do to the counters that no episode resets.
LEMMA GuardGlobals ==
    ASSUME NEW g \in LoopGuard, NEW repeat \in BOOLEAN
    PROVE  /\ record_recovery_attempt_started(g).model_escalations = g.model_escalations
           /\ record_recovery_attempt_started(g).total_attempts = g.total_attempts
           /\ start_new_recovery_episode(record_no_progress_cycle(g)).model_escalations
                = g.model_escalations
           /\ start_new_recovery_episode(record_no_progress_cycle(g)).total_attempts
                = g.total_attempts
           /\ guard_record_progress(g).model_escalations = g.model_escalations
           /\ guard_record_progress(g).total_attempts = g.total_attempts
           /\ guard_record_escalation(g).model_escalations = g.model_escalations + 1
           /\ guard_record_escalation(g).total_attempts = g.total_attempts
           /\ record_identical_failure(record_attempt(g), repeat).model_escalations
                = g.model_escalations
           /\ record_identical_failure(record_attempt(g), repeat).total_attempts
                = g.total_attempts + 1
<1>1. /\ record_recovery_attempt_started(g).model_escalations = g.model_escalations
      /\ record_recovery_attempt_started(g).total_attempts = g.total_attempts
    BY DEF record_recovery_attempt_started, LoopGuard
<1>2. /\ start_new_recovery_episode(record_no_progress_cycle(g)).model_escalations
            = g.model_escalations
      /\ start_new_recovery_episode(record_no_progress_cycle(g)).total_attempts
            = g.total_attempts
    BY DEF start_new_recovery_episode, record_no_progress_cycle, LoopGuard
<1>3. /\ guard_record_progress(g).model_escalations = g.model_escalations
      /\ guard_record_progress(g).total_attempts = g.total_attempts
      /\ guard_record_escalation(g).model_escalations = g.model_escalations + 1
      /\ guard_record_escalation(g).total_attempts = g.total_attempts
    BY DEF guard_record_progress, guard_record_escalation, LoopGuard
<1>4. /\ record_identical_failure(record_attempt(g), repeat).model_escalations
            = g.model_escalations
      /\ record_identical_failure(record_attempt(g), repeat).total_attempts
            = g.total_attempts + 1
    BY DEF record_identical_failure, record_attempt, LoopGuard
<1> QED BY <1>1, <1>2, <1>3, <1>4

\* A charge that is admitted.
Admitted(tokens, cost) ==
    /\ tokens \in Nat /\ cost \in Nat
    /\ can_afford(used, tokens, cost)
    /\ used' = Charged(used, tokens, cost)

\* The four things a step can do to what is charged and to what it is charged
\* for: nothing, start, escalate, or begin a recovery attempt.
ChargesNothing ==
    /\ UNCHANGED <<used, started, escalations_used>>
    /\ guard'.model_escalations = guard.model_escalations
    /\ RecoveriesStarted' = RecoveriesStarted

ChargesStart ==
    /\ ~started /\ started'
    /\ \E c \in StartCharges : Admitted(c.tokens, c.cost)
    /\ escalations_used' = escalations_used
    /\ guard'.model_escalations = guard.model_escalations
    /\ RecoveriesStarted' = RecoveriesStarted

ChargesEscalation ==
    /\ started /\ started'
    /\ \E cost \in Nat : Admitted(setup.context_budget_tokens, cost)
    /\ escalations_used' = escalations_used + 1
    /\ escalations_used + 1 <= MaxModelEscalations
    /\ guard'.model_escalations = guard.model_escalations + 1
    /\ RecoveriesStarted' = RecoveriesStarted

ChargesRecovery ==
    /\ started /\ started'
    /\ \E cost \in Nat : Admitted(setup.context_budget_tokens, cost)
    /\ escalations_used' = escalations_used
    /\ guard'.model_escalations = guard.model_escalations
    /\ RecoveriesStarted' = RecoveriesStarted + 1

AccountStep ==
    /\ setup' = setup
    /\ ChargesNothing \/ ChargesStart \/ ChargesEscalation \/ ChargesRecovery

\* begin_recovery() charges one context budget, or closes the episode free.
LEMMA AttemptAccounts ==
    ASSUME WalkInv, WalkInv', EpisodeInv,
           NEW g, NEW ep, NEW att, NEW trd, NEW err, Ready(g, ep, att, trd),
           AttemptRecovery(g, ep, att, trd, err),
           Len(att) = IF InEpisode THEN Len(attempts) ELSE 0,
           g.model_escalations = guard.model_escalations,
           started, UNCHANGED <<setup, started, escalations_used>>
    PROVE  AccountStep
<1>w. g \in LoopGuard /\ att \in Seq(RecoveryAttempt) /\ Len(att) \in Nat
    BY DEF Ready, IsWalk
<1>1. CASE RecoveryBlocker(g, att, trd) = NoText
  <2> DEFINE a == [ strategy |-> next_strategy(trd, Len(att) + 1), result |-> "pending" ]
  <2>1. /\ attempts' = Append(att, a) /\ state' = "recovering"
        /\ guard' = record_recovery_attempt_started(g)
        /\ history' = history
        /\ used' = Charged(used, setup.context_budget_tokens, RecoveryCost)
      BY <1>1 DEF AttemptRecovery, StartAttempt
  <2> HIDE DEF a
  <2>2. can_afford(used, setup.context_budget_tokens, RecoveryCost)
      BY <1>1 DEF RecoveryBlocker, NoText
  <2>3. RecoveryCost \in Nat /\ setup.context_budget_tokens \in Nat
    <3>1. TypeOK /\ tier \in ModelTier
        BY DEF WalkInv, TypeOK
    <3> QED BY <3>1, SetupTyped, CostIsNat DEF RecoveryCost
  <2>4. guard'.model_escalations = guard.model_escalations
      BY <1>w, <2>1, GuardGlobals
  <2>5. RecoveriesStarted' = RecoveriesStarted + 1
    <3>1. Len(attempts') = Len(att) + 1
        BY <1>w, <2>1
    <3>2. RecoveriesStarted' = SumFunction(Recovered) + (Len(att) + 1)
        BY <2>1, <3>1 DEF RecoveriesStarted, Recovered, InEpisode
    <3>3. /\ RecoveriesStarted = SumFunction(Recovered) + Len(att)
          /\ SumFunction(Recovered) \in Nat
        BY RecoveredTyped
    <3> QED BY <1>w, <3>2, <3>3
  <2> QED BY <2>1, <2>2, <2>3, <2>4, <2>5 DEF AccountStep, ChargesRecovery, Admitted
<1>2. CASE RecoveryBlocker(g, att, trd) # NoText
  <2>1. PICK b : TransitionToBlocked(b, g, ep, att, trd)
      BY <1>2 DEF AttemptRecovery
  <2>2. /\ CloseEpisode(ep, att, "blocked") /\ state' = "blocked"
        /\ guard' = g /\ used' = used
      BY <2>1 DEF TransitionToBlocked
  <2>3. RecoveriesStarted' = RecoveriesStarted
    <3>1. ep = Len(history) + 1 /\ ~InEpisode'
        BY <2>2 DEF Ready, InEpisode
    <3> QED BY <1>w, <2>2, <3>1, CloseKeepsRecoveries
  <2> QED BY <2>2, <2>3 DEF AccountStep, ChargesNothing
<1> QED BY <1>1, <1>2

\* evaluate()'s stall branch, likewise.
LEMMA StallAccounts ==
    ASSUME WalkInv, WalkInv', EpisodeInv, Ordinary,
           NEW g \in LoopGuard, g.no_progress_cycles = 0,
           g.model_escalations = guard.model_escalations,
           NEW io, NEW writes, Stall(g, io, writes),
           started, UNCHANGED <<setup, started, escalations_used>>
    PROVE  AccountStep
<1> DEFINE opened == start_new_recovery_episode(record_no_progress_cycle(g))
<1>1. Ready(opened, episode + 1, <<>>, <<>>)
    BY StallIsReady
<1>2. opened.model_escalations = guard.model_escalations
    BY GuardGlobals
<1> HIDE DEF opened
<1>3. CASE io = 0
  <2>1. /\ state' = "stalled" /\ attempts' = <<>> /\ guard' = opened
        /\ UNCHANGED <<history, used>>
      BY <1>3 DEF Stall, opened
  <2>2. RecoveriesStarted' = SumFunction(Recovered) + 0
      BY <2>1 DEF RecoveriesStarted, Recovered, InEpisode
  <2>3. RecoveriesStarted = SumFunction(Recovered) + 0
      BY RecoveredTyped DEF Ordinary
  <2> QED BY <1>2, <2>1, <2>2, <2>3 DEF AccountStep, ChargesNothing
<1>4. CASE io # 0
  <2>1. AttemptRecovery(opened, episode + 1, <<>>, <<>>, "stall reasons")
      BY <1>4 DEF Stall, opened
  <2>2. Len(<<>>) = IF InEpisode THEN Len(attempts) ELSE 0
      BY DEF Ordinary
  <2> QED BY <1>1, <1>2, <2>1, <2>2, AttemptAccounts
<1> QED BY <1>3, <1>4

\* decide_escalation() approves only below the limit and within the budget.
LEMMA ApprovedIsAffordable ==
    ASSUME NEW t, NEW r, NEW n, NEW s, NEW tokens, NEW ledger,
           should_escalate(decide_escalation(t, r, n, s, tokens, ledger))
    PROVE  LET decision == decide_escalation(t, r, n, s, tokens, ledger)
               target == EscalationTarget(t, r, decision)
           IN  /\ ~AtEscalationLimit(n)
               /\ can_afford(ledger, tokens, estimate_cost(target.tier, tokens))
<1> DEFINE reason == triggering_reason(s)
           target == EscalationTarget(t, r, reason)
<1>1. /\ decide_escalation(t, r, n, s, tokens, ledger) = reason
      /\ ~AtEscalationLimit(n)
      /\ can_afford(ledger, tokens, estimate_cost(target.tier, tokens))
    BY DEF decide_escalation, should_escalate, Refusals
<1> QED BY <1>1

LEMMA EscalationAccounts ==
    ASSUME WalkInv, StartInv, NEW t, NEW s, RecordEscalation(t, s)
    PROVE  AccountStep
<1> DEFINE ctx == setup.context_budget_tokens
           decision == decide_escalation(tier, reasoning, escalations_used, s, ctx, used)
           target == EscalationTarget(tier, reasoning, decision)
<1>1. /\ started /\ started' = started /\ setup' = setup
      /\ UNCHANGED <<state, history, attempts>>
  <2>1. state # "planning"
      BY DEF RecordEscalation, ActiveStates
  <2> QED BY <2>1 DEF RecordEscalation, StartInv, episodeVars
<1>2. RecoveriesStarted' = RecoveriesStarted
    BY <1>1 DEF RecoveriesStarted, InEpisode
<1>3. CASE ~should_escalate(decision)
  <2>1. UNCHANGED <<used, escalations_used, guard>>
      BY <1>3 DEF RecordEscalation
  <2> QED BY <1>1, <1>2, <2>1 DEF AccountStep, ChargesNothing
<1>4. CASE should_escalate(decision)
  <2>1. /\ used' = Charged(used, ctx, estimate_cost(target.tier, ctx))
        /\ escalations_used' = escalations_used + 1
        /\ guard' = guard_record_escalation(guard)
      BY <1>4 DEF RecordEscalation
  <2>2. /\ ~AtEscalationLimit(escalations_used)
        /\ can_afford(used, ctx, estimate_cost(target.tier, ctx))
      BY <1>4, ApprovedIsAffordable
  <2>3. /\ tier \in ModelTier /\ reasoning \in ReasoningEffort /\ TypeOK
        /\ guard \in LoopGuard /\ escalations_used \in Nat
      BY DEF WalkInv, TypeOK
  <2>4. ctx \in Nat /\ target.tier \in ModelTier
      BY <2>3, SetupTyped, EscalationTargetTyped
  <2>5. estimate_cost(target.tier, ctx) \in Nat
      BY <2>4, CostIsNat
  <2>6. escalations_used + 1 <= MaxModelEscalations
      BY <2>2, <2>3, WatchdogPolicyAssumption DEF AtEscalationLimit, ValidWatchdogPolicy
  <2>7. guard'.model_escalations = guard.model_escalations + 1
      BY <2>1, <2>3, GuardGlobals
  <2> HIDE DEF target
  <2> QED BY <1>1, <1>2, <2>1, <2>2, <2>4, <2>5, <2>6, <2>7
          DEF AccountStep, ChargesEscalation, Admitted
<1> QED BY <1>3, <1>4

\* The steps that neither open, move nor close an episode.
LEMMA QuietStepsAccount ==
    ASSUME WalkInv, StartInv, EpisodeInv, NEW t, NEW io
    PROVE  /\ \A c \in StartCharges : Start(t, c, io) => AccountStep
           /\ \A s \in ExecutionState : Advance(t, s, io) => AccountStep
           /\ \A d : RecordProgress(t, d, io) => AccountStep
           /\ \A w : Checkpoint(t, w, io) => AccountStep
           /\ Complete(t, io) => AccountStep
           /\ SyncHeartbeat => AccountStep
           /\ UNCHANGED vars => AccountStep
<1>g. guard \in LoopGuard
    BY DEF WalkInv, TypeOK
<1>r. ASSUME InEpisode' = InEpisode, UNCHANGED <<history, attempts>>
      PROVE  RecoveriesStarted' = RecoveriesStarted
    BY <1>r DEF RecoveriesStarted
<1>1. ASSUME NEW c \in StartCharges, Start(t, c, io)
      PROVE  AccountStep
  <2>1. InEpisode' = InEpisode /\ UNCHANGED <<history, attempts>>
      BY <1>1 DEF Start, InEpisode, episodeVars
  <2>2. c.tokens \in Nat /\ c.cost \in Nat
      BY SetupTyped DEF WalkInv, Usage
  <2> QED BY <1>1, <1>r, <2>1, <2>2
          DEF Start, modelVars, AccountStep, ChargesStart, Admitted
<1>2. ASSUME NEW s \in ExecutionState, Advance(t, s, io)
      PROVE  AccountStep
  <2>1. InEpisode' = InEpisode /\ UNCHANGED <<history, attempts>>
      BY <1>2 DEF Advance, InEpisode, ActiveStates, DedicatedStates, episodeVars
  <2> QED BY <1>2, <1>r, <2>1 DEF Advance, modelVars, AccountStep, ChargesNothing
<1>3. ASSUME NEW d, RecordProgress(t, d, io)
      PROVE  AccountStep
  <2>1. InEpisode' = InEpisode /\ UNCHANGED <<history, attempts>>
      BY <1>3 DEF RecordProgress, InEpisode, episodeVars
  <2>2. guard'.model_escalations = guard.model_escalations
      BY <1>3, <1>g, GuardGlobals DEF RecordProgress
  <2> QED BY <1>3, <1>r, <2>1, <2>2 DEF RecordProgress, modelVars, AccountStep, ChargesNothing
<1>4. ASSUME NEW w, Checkpoint(t, w, io)
      PROVE  AccountStep
  <2>1. InEpisode' = InEpisode /\ UNCHANGED <<history, attempts>>
      BY <1>4 DEF Checkpoint, InEpisode, episodeVars
  <2> QED BY <1>4, <1>r, <2>1 DEF Checkpoint, modelVars, AccountStep, ChargesNothing
<1>5. ASSUME Complete(t, io)
      PROVE  AccountStep
  <2>1. state = "reviewing" /\ state' = "completed"
    <3>1. \A s \in ExecutionState : "completed" \in Allowed[s] => s = "reviewing"
        BY DEF Allowed, ExecutionState
    <3> QED BY <1>5, <3>1 DEF Complete, can_transition, WalkInv, TypeOK
  <2>2. InEpisode' = InEpisode /\ UNCHANGED <<history, attempts>>
      BY <1>5, <2>1 DEF Complete, InEpisode, episodeVars
  <2> QED BY <1>5, <1>r, <2>2 DEF Complete, modelVars, AccountStep, ChargesNothing
<1>6. ASSUME SyncHeartbeat \/ UNCHANGED vars
      PROVE  AccountStep
  <2>1. UNCHANGED <<state, clockVars, guard, episodeVars, used, modelVars>>
      BY <1>6 DEF SyncHeartbeat, vars
  <2>2. InEpisode' = InEpisode /\ UNCHANGED <<history, attempts>>
      BY <2>1 DEF InEpisode, episodeVars
  <2> QED BY <1>r, <2>1, <2>2 DEF clockVars, modelVars, AccountStep, ChargesNothing
<1> QED BY <1>1, <1>2, <1>3, <1>4, <1>5, <1>6

LEMMA AccountNext ==
    ASSUME WalkInv, WalkInv', StartInv, EpisodeInv, [Next]_vars
    PROVE  AccountStep
<1>g. guard \in LoopGuard
    BY DEF WalkInv, TypeOK
<1>s. state # "planning" => started
    BY DEF StartInv
<1>a. ASSUME state \in ActiveStates
      PROVE  Ordinary /\ guard.no_progress_cycles = 0 /\ started
    BY <1>a, <1>s DEF ActiveStates, Ordinary, InEpisode, EpisodeInv, OneNoProgressCycle
<1>1. ASSUME NEW t \in Times, NEW io \in Io(2), Evaluate(t, io)
      PROVE  AccountStep
  <2>1. CASE /\ state \in ActiveStates /\ UNCHANGED <<started, modelVars>>
             /\ Stall(guard, io, 2)
      BY <1>g, <1>a, <2>1, StallAccounts DEF modelVars
  <2>2. CASE UNCHANGED <<state, started, guard, episodeVars, used, modelVars>>
    <3>1. RecoveriesStarted' = RecoveriesStarted
        BY <2>2 DEF RecoveriesStarted, InEpisode, episodeVars
    <3> QED BY <2>2, <3>1 DEF AccountStep, ChargesNothing, modelVars
  <2> QED BY <1>1, <2>1, <2>2 DEF Evaluate
<1>2. ASSUME NEW t \in Times, NEW a \in ActivityRecord, NEW err \in BOOLEAN,
             NEW io \in Io(3), RecordActivity(t, a, err, io)
      PROVE  AccountStep
  <2> DEFINE counted == record_identical_failure(record_attempt(guard), IsRepeat(a))
  <2>1. state \in ActiveStates /\ UNCHANGED <<started, modelVars>>
      BY <1>2 DEF RecordActivity
  <2>2. /\ counted \in LoopGuard /\ counted.no_progress_cycles = 0
        /\ counted.model_escalations = guard.model_escalations
    <3>1. record_attempt(guard) \in LoopGuard /\ IsRepeat(a) \in BOOLEAN
        BY <1>g, GuardRecords DEF IsRepeat
    <3>2. counted \in LoopGuard
        BY <3>1, GuardRecords
    <3>3. counted.no_progress_cycles = guard.no_progress_cycles
        BY <1>g, <3>1, GuardCounters
    <3>4. counted.model_escalations = guard.model_escalations
        BY <1>g, <3>1, GuardGlobals
    <3> QED BY <1>a, <2>1, <3>2, <3>3, <3>4
  <2>3. CASE Stall(counted, io, 3)
    <3> HIDE DEF counted
    <3> QED BY <1>a, <2>1, <2>2, <2>3, StallAccounts DEF modelVars
  <2>4. CASE guard' = counted /\ UNCHANGED <<state, episodeVars, used>>
    <3> HIDE DEF counted
    <3>1. RecoveriesStarted' = RecoveriesStarted
        BY <2>4 DEF RecoveriesStarted, InEpisode, episodeVars
    <3> QED BY <2>1, <2>2, <2>4, <3>1 DEF AccountStep, ChargesNothing, modelVars
  <2> QED BY <1>2, <2>3, <2>4 DEF RecordActivity
<1>3. ASSUME NEW t \in Times, NEW io \in Io(1), BeginRecovery(t, io)
      PROVE  AccountStep
  <2>1. /\ state = "stalled" /\ UNCHANGED <<started, modelVars>>
        /\ AttemptRecovery(guard, episode, attempts, tried, error)
      BY <1>3 DEF BeginRecovery
  <2>2. Ready(guard, episode, attempts, tried)
      BY <2>1, StalledIsReady
  <2>3. Len(attempts) = IF InEpisode THEN Len(attempts) ELSE 0
      BY <2>1 DEF InEpisode
  <2> QED BY <1>s, <2>1, <2>2, <2>3, AttemptAccounts DEF modelVars
<1>4. ASSUME NEW t, NEW r, NEW d, NEW io, RecordRecoverySuccess(t, r, d, io)
      PROVE  AccountStep
  <2>1. /\ state = "recovering" /\ attempts # <<>>
        /\ CloseEpisode(episode, Resolved(attempts, "success"), "success")
        /\ guard' = guard_record_progress(guard)
        /\ state' \in ResumeStates /\ UNCHANGED <<started, used, modelVars>>
      BY <1>4 DEF RecordRecoverySuccess
  <2>2. episode = Len(history) + 1
      BY <2>1 DEF EpisodeInv, EpisodesCloseOnce, InEpisode, WalkInv, TypeOK
  <2>3. /\ Len(Resolved(attempts, "success")) = Len(attempts) /\ Len(attempts) \in Nat
        /\ InEpisode /\ ~InEpisode'
      BY <2>1, ResolutionResults DEF InEpisode, ResumeStates, ActiveStates
  <2>4. RecoveriesStarted' = RecoveriesStarted
      BY <2>1, <2>2, <2>3, CloseKeepsRecoveries
  <2>5. guard'.model_escalations = guard.model_escalations
      BY <1>g, <2>1, GuardGlobals
  <2> QED BY <2>1, <2>4, <2>5 DEF AccountStep, ChargesNothing, modelVars
<1>5. ASSUME NEW t, NEW io, RecordRecoveryFailure(t, io)
      PROVE  AccountStep
  <2> DEFINE att == Resolved(attempts, "failure")
  <2>1. /\ state = "recovering" /\ attempts # <<>> /\ UNCHANGED <<started, modelVars>>
        /\ guard' = guard /\ used' = used
        /\ \/ CloseEpisode(episode, att, "blocked") /\ state' = "blocked"
           \/ state' = "stalled" /\ attempts' = att /\ history' = history
      BY <1>5 DEF RecordRecoveryFailure, TransitionToBlocked
  <2>2. Len(att) = Len(attempts) /\ Len(attempts) \in Nat
      BY <2>1, ResolutionResults
  <2>3. episode = Len(history) + 1
    <3>1. /\ InEpisode /\ episode \in Nat /\ Len(history) \in Nat
          /\ InEpisode => Len(history) = episode - 1
        BY <2>1 DEF EpisodeInv, EpisodesCloseOnce, InEpisode, WalkInv, TypeOK
    <3> QED BY <3>1
  <2> HIDE DEF att
  <2>4. RecoveriesStarted' = RecoveriesStarted
    <3>1. CASE CloseEpisode(episode, att, "blocked") /\ state' = "blocked"
      <4>1. InEpisode /\ ~InEpisode'
          BY <2>1, <3>1 DEF InEpisode
      <4> QED BY <2>2, <2>3, <3>1, <4>1, CloseKeepsRecoveries
    <3>2. CASE state' = "stalled" /\ attempts' = att /\ history' = history
        BY <2>1, <2>2, <3>2 DEF RecoveriesStarted, InEpisode
    <3> QED BY <2>1, <3>1, <3>2
  <2> QED BY <2>1, <2>4 DEF AccountStep, ChargesNothing, modelVars
<1> QED BY <1>1, <1>2, <1>3, <1>4, <1>5, EscalationAccounts, QuietStepsAccount
        DEF Next, ResolveRecovery

\* The invariants together, before and after every step.
WatchdogInv == WalkInv /\ EpisodeInv /\ StartInv

LEMMA WatchdogInvHolds ==
    Spec => []WatchdogInv
BY WalkInvHolds, EpisodeInvHolds, StartInvHolds, PTL DEF WatchdogInv

LEMMA EveryStepAccounts ==
    WatchdogInv /\ WatchdogInv' /\ [Next]_vars => AccountStep
BY AccountNext DEF WatchdogInv

\* Both escalation counters agree and stay within max_model_escalations.
THEOREM EscalationsAreBounded == Spec => []EscalationsBounded
<1>1. Init => EscalationsBounded
    BY WatchdogPolicyAssumption
    DEF Init, EscalationsBounded, NewLoopGuard, ValidWatchdogPolicy
<1>2. EscalationsBounded /\ AccountStep => EscalationsBounded'
    BY DEF EscalationsBounded, AccountStep, ChargesNothing, ChargesStart, ChargesEscalation,
           ChargesRecovery
<1> QED BY <1>1, <1>2, EveryStepAccounts, WatchdogInvHolds, PTL DEF Spec

LEMMA ChargeIsPoolCharge ==
    ASSUME used \in Usage, NEW tokens, NEW cost, Admitted(tokens, cost)
    PROVE  PoolCharge /\ used'.tokens = used.tokens + tokens
BY DEF Admitted, can_afford, Charged, PoolCharge, WithinCeilings, Usage

LEMMA AccountStepCharges ==
    ASSUME WatchdogInv, AccountStep
    PROVE  [PoolCharge]_used
<1>1. used \in Usage
    BY DEF WatchdogInv, WalkInv, TypeOK
<1> QED BY <1>1, ChargeIsPoolCharge DEF AccountStep, ChargesNothing, ChargesStart,
            ChargesEscalation, ChargesRecovery

\* The watchdog implements the pool without refunds: whatever its callers do,
\* its budget is only ever charged, and each charge is admitted whole.
THEOREM WatchdogOnlyCharges == Spec => BudgetIsCharged
<1>1. Init => PoolInit
    BY DEF Init
<1>2. WatchdogInv /\ WatchdogInv' /\ [Next]_vars => [PoolCharge]_used
    BY EveryStepAccounts, AccountStepCharges
<1> QED BY <1>1, <1>2, WatchdogInvHolds, PTL DEF Spec, BudgetIsCharged, ChargeOnlySpec

\* No sequence of starts, escalations and recoveries passes a ceiling.
THEOREM CeilingsHold == Spec => []BudgetWithinCeilings
<1>1. Init => BudgetWithinCeilings
    BY CeilingAssumption
    DEF Init, PoolInit, NothingUsed, BudgetWithinCeilings, WithinCeilings
<1>2. WatchdogInv /\ WatchdogInv' /\ BudgetWithinCeilings /\ [Next]_vars
          => BudgetWithinCeilings'
    BY EveryStepAccounts, AccountStepCharges
    DEF BudgetWithinCeilings, PoolCharge, WithinCeilings
<1> QED BY <1>1, <1>2, WatchdogInvHolds, PTL DEF Spec

\* Before start() no attempt has been charged.
LEMMA NothingRecovered ==
    ASSUME state = "planning", history = <<>>
    PROVE  RecoveriesStarted = 0
<1>1. DOMAIN Recovered = {}
    BY DEF Recovered
<1>2. SumFunction(Recovered) = 0
    BY <1>1, SumOfNone DEF SumFunction
<1> QED BY <1>2 DEF RecoveriesStarted, Recovered, InEpisode

\* Every token in use is accounted for by the start, the escalations and the
\* recovery attempts of all episodes, however many there were.
THEOREM EveryChargeIsAccounted == Spec => []BudgetAccounted
<1>1. Init => BudgetAccounted
  <2> SUFFICES ASSUME Init PROVE BudgetAccounted
      OBVIOUS
  <2>1. RecoveriesStarted = 0 /\ escalations_used = 0 /\ ~started /\ used = NothingUsed
      BY NothingRecovered DEF Init, PoolInit
  <2>2. setup.context_budget_tokens \in Nat
      BY SetupTyped, WalkInvInit, WalkInvImplies
  <2>3. setup.context_budget_tokens * (escalations_used + RecoveriesStarted) = 0
      BY <2>1, <2>2
  <2> QED BY <2>1, <2>3 DEF BudgetAccounted, NothingUsed
<1>2. ASSUME WatchdogInv, WatchdogInv', BudgetAccounted, AccountStep
      PROVE  BudgetAccounted'
  <2> DEFINE ctx == setup.context_budget_tokens
             n == escalations_used + RecoveriesStarted
  <2>1. /\ ctx \in Nat /\ n \in Nat /\ escalations_used \in Nat /\ RecoveriesStarted \in Nat
        /\ used \in Usage /\ StartCharges \subseteq Usage
    <3>1. WalkInv /\ TypeOK
        BY <1>2 DEF WatchdogInv, WalkInv
    <3>2. ctx \in Nat /\ StartCharges \subseteq Usage
        BY <3>1, SetupTyped
    <3>3. escalations_used \in Nat /\ used \in Usage
        BY <3>1 DEF TypeOK
    <3>4. RecoveriesStarted \in Nat
        BY <3>1, RecoveredTyped
    <3> QED BY <3>2, <3>3, <3>4
  <2>2. /\ setup' = setup /\ StartCharges' = StartCharges
        /\ ctx' = ctx
      BY <1>2 DEF AccountStep, StartCharges
  <2>3. CASE ChargesNothing
      BY <1>2, <2>2, <2>3 DEF ChargesNothing, BudgetAccounted
  <2>4. CASE ChargesStart
    <3>1. PICK c \in StartCharges : Admitted(c.tokens, c.cost)
        BY <2>4 DEF ChargesStart
    <3>2. n = 0 /\ used = NothingUsed
        BY <1>2, <2>4, NothingRecovered DEF ChargesStart, WatchdogInv, StartInv
    <3>3. n' = n /\ started'
        BY <2>4 DEF ChargesStart
    <3>4. used'.tokens = c.tokens /\ c.tokens \in Nat
        BY <2>1, <3>1, <3>2, ChargeIsPoolCharge DEF NothingUsed, Usage
    <3>5. ctx * n = 0
        BY <2>1, <3>2
    <3> QED BY <2>2, <3>3, <3>4, <3>5 DEF BudgetAccounted
  <2>5. CASE ChargesEscalation \/ ChargesRecovery
    <3>1. started /\ started' /\ used'.tokens = used.tokens + ctx
        BY <2>1, <2>5, ChargeIsPoolCharge DEF ChargesEscalation, ChargesRecovery
    <3>2. n' = n + 1
        BY <2>1, <2>5 DEF ChargesEscalation, ChargesRecovery
    <3>3. PICK c \in StartCharges : used.tokens = c.tokens + ctx * n
        BY <1>2, <3>1 DEF BudgetAccounted
    <3>4. ctx * (n + 1) = ctx * n + ctx /\ ctx * n \in Nat
        BY <2>1
    <3>5. c.tokens \in Nat
        BY <2>1 DEF Usage
    <3>6. used'.tokens = c.tokens + ctx * (n + 1)
        BY <2>1, <3>1, <3>3, <3>4, <3>5
    <3>7. used'.tokens
              = c.tokens + setup'.context_budget_tokens * (escalations_used' + RecoveriesStarted')
        BY <2>2, <3>2, <3>6
    <3> QED BY <2>2, <3>1, <3>7 DEF BudgetAccounted
  <2> QED BY <1>2, <2>3, <2>4, <2>5 DEF AccountStep
<1> QED BY <1>1, <1>2, EveryStepAccounts, WatchdogInvHolds, PTL DEF Spec

-----------------------------------------------------------------------------
(* Lifecycle *)

\* What a step does to the records of the whole execution.
RecordsGrow ==
    /\ guard'.total_attempts >= guard.total_attempts
    /\ guard'.model_escalations >= guard.model_escalations
    /\ episode' >= episode
    /\ history' = history \/ \E e : history' = Append(history, e)
    /\ tier' >= tier /\ reasoning' >= reasoning
    /\ now' >= now

\* Both counters of a guard are at least those of another.
CountsAtLeast(g, h) ==
    /\ g.total_attempts \in Nat /\ g.model_escalations \in Nat
    /\ h.total_attempts \in Nat /\ h.model_escalations \in Nat
    /\ g.total_attempts >= h.total_attempts
    /\ g.model_escalations >= h.model_escalations

LEMMA AttemptGrows ==
    ASSUME NEW g \in LoopGuard, NEW ep, NEW att, NEW trd, NEW err,
           AttemptRecovery(g, ep, att, trd, err)
    PROVE  /\ CountsAtLeast(guard', g)
           /\ history' = history \/ \E e : history' = Append(history, e)
<1>1. CASE StartAttempt(g, att, trd)
  <2>1. guard' = record_recovery_attempt_started(g) /\ history' = history
      BY <1>1 DEF StartAttempt
  <2>2. g.total_attempts \in Nat /\ g.model_escalations \in Nat
      BY DEF LoopGuard
  <2>3. /\ guard'.total_attempts = g.total_attempts
        /\ guard'.model_escalations = g.model_escalations
      BY <2>1, GuardGlobals
  <2> QED BY <2>1, <2>2, <2>3 DEF CountsAtLeast
<1>2. CASE \E b : TransitionToBlocked(b, g, ep, att, trd)
    BY <1>2 DEF TransitionToBlocked, CloseEpisode, CountsAtLeast, LoopGuard
<1> QED BY <1>1, <1>2 DEF AttemptRecovery

LEMMA StallGrows ==
    ASSUME NEW g \in LoopGuard, NEW io, NEW writes, Stall(g, io, writes)
    PROVE  /\ CountsAtLeast(guard', g)
           /\ history' = history \/ \E e : history' = Append(history, e)
<1> DEFINE opened == start_new_recovery_episode(record_no_progress_cycle(g))
<1>1. opened \in LoopGuard
    BY GuardRecords
<1>2. /\ opened.total_attempts = g.total_attempts
      /\ opened.model_escalations = g.model_escalations
    BY GuardGlobals
<1>3. \/ guard' = opened /\ history' = history
      \/ AttemptRecovery(opened, episode + 1, <<>>, <<>>, "stall reasons")
    BY DEF Stall
<1> HIDE DEF opened
<1>4. CountsAtLeast(opened, g)
    BY <1>1, <1>2 DEF CountsAtLeast, LoopGuard
<1> QED BY <1>1, <1>2, <1>3, <1>4, AttemptGrows DEF CountsAtLeast

\* An escalation only climbs.
LEMMA EscalationClimbs ==
    ASSUME NEW t \in ModelTier, NEW r \in ReasoningEffort, NEW reason
    PROVE  /\ EscalationTarget(t, r, reason).tier >= t
           /\ EscalationTarget(t, r, reason).reasoning >= r
BY DEF EscalationTarget, critical_jump, next_step, Up, ModelTier, ReasoningEffort,
       FAST, FRONTIER, NONE, HIGH, MAX

LEMMA RecordsGrowNext ==
    ASSUME WalkInv, [Next]_vars
    PROVE  RecordsGrow
<1>g. /\ guard \in LoopGuard /\ CountsAtLeast(guard, guard)
      /\ episode \in Nat /\ now \in Nat
      /\ tier \in ModelTier /\ reasoning \in ReasoningEffort
      /\ tier >= tier /\ reasoning >= reasoning
    BY DEF WalkInv, TypeOK, CountsAtLeast, LoopGuard, ModelTier, ReasoningEffort, FAST,
           FRONTIER, NONE, MAX
<1>k. ASSUME NEW g \in LoopGuard, CountsAtLeast(guard', g), CountsAtLeast(g, guard),
             episode' \in { episode, episode + 1 },
             history' = history \/ \E e : history' = Append(history, e),
             UNCHANGED <<tier, reasoning>>, now' >= now
      PROVE  RecordsGrow
    BY <1>g, <1>k DEF RecordsGrow, CountsAtLeast
<1>1. ASSUME NEW t, NEW io, NEW x,
             \/ Start(t, x, io) \/ Advance(t, x, io)
             \/ Checkpoint(t, x, io) \/ Complete(t, io)
      PROVE  RecordsGrow
  <2>1. /\ UNCHANGED <<guard, episodeVars, modelVars>> /\ now' >= now
      BY <1>1 DEF Start, Advance, Checkpoint, Complete, ObserveTime
  <2> QED BY <1>g, <1>k, <2>1 DEF episodeVars, modelVars
<1>2. ASSUME NEW t, NEW io, NEW r, NEW d,
             RecordProgress(t, d, io) \/ RecordRecoverySuccess(t, r, d, io)
      PROVE  RecordsGrow
  <2>1. /\ guard' = guard_record_progress(guard) /\ episode' = episode
        /\ history' = history \/ \E e : history' = Append(history, e)
        /\ UNCHANGED <<tier, reasoning>> /\ now' >= now
      BY <1>2 DEF RecordProgress, RecordRecoverySuccess, CloseEpisode, ObserveTime, modelVars,
                  episodeVars
  <2>2. CountsAtLeast(guard', guard)
      BY <1>g, <2>1, GuardGlobals DEF CountsAtLeast
  <2> QED BY <1>g, <1>k, <2>1, <2>2
<1>3. ASSUME NEW t, NEW s, RecordEscalation(t, s)
      PROVE  RecordsGrow
  <2>1. /\ UNCHANGED episodeVars /\ now' >= now
      BY <1>3 DEF RecordEscalation, ObserveTime
  <2>2. \/ UNCHANGED <<tier, reasoning, guard>>
        \/ /\ \E reason : LET target == EscalationTarget(tier, reasoning, reason)
                          IN  tier' = target.tier /\ reasoning' = target.reasoning
           /\ guard' = guard_record_escalation(guard)
      BY <1>3 DEF RecordEscalation
  <2>3. CASE UNCHANGED <<tier, reasoning, guard>>
      BY <1>g, <1>k, <2>1, <2>3 DEF episodeVars
  <2>4. CASE guard' = guard_record_escalation(guard)
    <3>1. tier' >= tier /\ reasoning' >= reasoning
        BY <1>g, <2>2, EscalationClimbs
    <3>2. CountsAtLeast(guard', guard)
      <4>1. /\ guard'.model_escalations = guard.model_escalations + 1
            /\ guard'.total_attempts = guard.total_attempts
          BY <1>g, <2>4, GuardGlobals
      <4> QED BY <1>g, <4>1 DEF CountsAtLeast
    <3> QED BY <1>g, <2>1, <3>1, <3>2 DEF RecordsGrow, CountsAtLeast, episodeVars
  <2> QED BY <2>2, <2>3, <2>4
<1>4. ASSUME NEW t, NEW io, Evaluate(t, io)
      PROVE  RecordsGrow
  <2>1. now' >= now
      BY <1>4 DEF Evaluate, ObserveTime
  <2>2. CASE Stall(guard, io, 2) /\ UNCHANGED modelVars
      BY <1>g, <1>k, <2>1, <2>2, StallGrows DEF Stall, modelVars
  <2>3. CASE UNCHANGED <<guard, episodeVars, modelVars>>
      BY <1>g, <1>k, <2>1, <2>3 DEF episodeVars, modelVars
  <2> QED BY <1>4, <2>2, <2>3 DEF Evaluate
<1>5. ASSUME NEW t, NEW a, NEW err, NEW io, RecordActivity(t, a, err, io)
      PROVE  RecordsGrow
  <2> DEFINE counted == record_identical_failure(record_attempt(guard), IsRepeat(a))
  <2>1. now' >= now /\ UNCHANGED modelVars
      BY <1>5 DEF RecordActivity, ObserveTime
  <2>2. counted \in LoopGuard /\ CountsAtLeast(counted, guard)
    <3>1. record_attempt(guard) \in LoopGuard /\ IsRepeat(a) \in BOOLEAN
        BY <1>g, GuardRecords DEF IsRepeat
    <3>2. counted \in LoopGuard
        BY <3>1, GuardRecords
    <3>3. /\ counted.model_escalations = guard.model_escalations
          /\ counted.total_attempts = guard.total_attempts + 1
        BY <1>g, <3>1, GuardGlobals
    <3> QED BY <1>g, <3>2, <3>3 DEF CountsAtLeast
  <2>3. CASE Stall(counted, io, 3)
    <3>1. episode' = episode + 1
        BY <2>3 DEF Stall
    <3> HIDE DEF counted
    <3> QED BY <1>k, <2>1, <2>2, <2>3, <3>1, StallGrows DEF modelVars
  <2>4. CASE guard' = counted /\ UNCHANGED episodeVars
    <3> HIDE DEF counted
    <3>1. CountsAtLeast(guard', counted)
        BY <2>2, <2>4 DEF CountsAtLeast
    <3> QED BY <1>k, <2>1, <2>2, <2>4, <3>1 DEF episodeVars, modelVars
  <2> QED BY <1>5, <2>3, <2>4 DEF RecordActivity
<1>6. ASSUME NEW t, NEW io, BeginRecovery(t, io)
      PROVE  RecordsGrow
  <2>1. /\ now' >= now /\ UNCHANGED <<episode, modelVars>>
        /\ AttemptRecovery(guard, episode, attempts, tried, error)
      BY <1>6 DEF BeginRecovery, ObserveTime
  <2> QED BY <1>g, <1>k, <2>1, AttemptGrows DEF modelVars
<1>7. ASSUME NEW t, NEW io, RecordRecoveryFailure(t, io)
      PROVE  RecordsGrow
  <2>1. /\ now' >= now /\ UNCHANGED <<episode, modelVars, guard>>
        /\ history' = history \/ \E e : history' = Append(history, e)
      BY <1>7 DEF RecordRecoveryFailure, ObserveTime, TransitionToBlocked, CloseEpisode
  <2> QED BY <1>g, <1>k, <2>1 DEF modelVars
<1>8. CASE SyncHeartbeat \/ UNCHANGED vars
  <2>1. UNCHANGED <<clockVars, guard, episodeVars, modelVars>>
      BY <1>8 DEF SyncHeartbeat, vars
  <2> QED BY <1>g, <1>k, <2>1 DEF clockVars, episodeVars, modelVars
<1> QED BY <1>1, <1>2, <1>3, <1>4, <1>5, <1>6, <1>7, <1>8 DEF Next, ResolveRecovery

\* Recovery success resets neither the global counters nor the audit trail.
THEOREM RecordsOnlyGrow == Spec => GlobalRecordsOnlyGrow
<1> DEFINE Grow ==
        /\ guard'.total_attempts >= guard.total_attempts
        /\ guard'.model_escalations >= guard.model_escalations
        /\ episode' >= episode
        /\ Len(history') >= Len(history)
        /\ \A i \in DOMAIN history : history'[i] = history[i]
        /\ tier' >= tier /\ reasoning' >= reasoning
        /\ now' >= now
<1>1. ASSUME WalkInv, WalkInv', [Next]_vars
      PROVE  [Grow]_vars
  <2>1. RecordsGrow
      BY <1>1, RecordsGrowNext
  <2>2. Len(history') >= Len(history) /\ \A i \in DOMAIN history : history'[i] = history[i]
    <3>1. /\ history \in Seq(RecoveryEpisode)
          /\ Len(history) \in Nat /\ DOMAIN history = 1..Len(history)
        BY <1>1 DEF WalkInv, TypeOK
    <3>2. ASSUME NEW e, history' = Append(history, e)
          PROVE  /\ Len(history') = Len(history) + 1
                 /\ \A i \in 1..Len(history) : history'[i] = history[i]
        BY <3>1, <3>2
    <3>3. CASE history' = history
        BY <3>1, <3>3
    <3>4. CASE \E e : history' = Append(history, e)
        BY <3>1, <3>2, <3>4
    <3> QED BY <2>1, <3>3, <3>4 DEF RecordsGrow
  <2> QED BY <2>1, <2>2 DEF RecordsGrow
<1> QED BY <1>1, WalkInvHolds, PTL DEF Spec, GlobalRecordsOnlyGrow

\* An event that comes after COMPLETED, or while BLOCKED, reopens no episode,
\* charges no budget and counts nothing: only the clock and the heartbeat file
\* move, and BLOCKED is left for RECOVERING if at all.
THEOREM LateEventsAreIgnored == Spec => LateEventsChangeNothing
<1>1. ASSUME state \in { "completed", "blocked" }, [Next]_vars
      PROVE  domainVars' = domainVars
  <2> USE DEF domainVars
  <2>1. /\ state \notin ActiveStates \cup { "planning", "stalled", "recovering" }
        /\ ~can_transition(state, "completed")
      BY <1>1 DEF ActiveStates, can_transition, Allowed
  <2>2. ASSUME NEW t, NEW io, Evaluate(t, io)
        PROVE  domainVars' = domainVars
      BY <2>1, <2>2 DEF Evaluate
  <2>3. CASE SyncHeartbeat \/ UNCHANGED vars
      BY <2>3 DEF SyncHeartbeat, vars, clockVars
  <2>4. ASSUME NEW t, NEW io, NEW x,
               \/ Start(t, x, io) \/ Advance(t, x, io) \/ RecordProgress(t, x, io)
               \/ Checkpoint(t, x, io) \/ Complete(t, io) \/ RecordEscalation(t, x)
        PROVE  FALSE
      BY <2>1, <2>4 DEF Start, Advance, RecordProgress, Checkpoint, Complete, RecordEscalation
  <2>5. ASSUME NEW t, NEW io, NEW r, NEW d, NEW err,
               \/ RecordActivity(t, d, err, io) \/ BeginRecovery(t, io)
               \/ RecordRecoverySuccess(t, r, d, io) \/ RecordRecoveryFailure(t, io)
        PROVE  FALSE
      BY <2>1, <2>5 DEF RecordActivity, BeginRecovery, RecordRecoverySuccess,
                        RecordRecoveryFailure
  <2> QED BY <1>1, <2>2, <2>3, <2>4, <2>5 DEF Next, ResolveRecovery
<1>2. [Next]_vars => [ (domainVars' # domainVars) =>
                          /\ state # "completed"
                          /\ (state = "blocked") => (state' = "recovering") ]_vars
  <2> SUFFICES ASSUME [Next]_vars, domainVars' # domainVars
               PROVE  state # "completed" /\ state # "blocked"
      OBVIOUS
  <2> QED BY <1>1
<1> QED BY <1>2, PTL DEF Spec, LateEventsChangeNothing
-----------------------------------------------------------------------------
\* No signal without an activity since the boundary.
LEMMA QuietIsNotStalled ==
    ASSUME NEW t, NEW b
    PROVE  ~is_stalled(t, b, <<>>)
<1>1. /\ NoProgressCycles \in Nat \ {0} /\ MaxIdenticalFailures \in Nat \ {0}
    BY WatchdogPolicyAssumption DEF ValidWatchdogPolicy, Positive
<1>2. DOMAIN <<>> = {} /\ Len(<<>>) = 0
    OBVIOUS
<1>3. Cardinality({}) = 0
    BY FS_EmptySet
<1>4. ~NoProgressSignal(t, b, <<>>)
    BY <1>1, <1>2 DEF NoProgressSignal
<1>5. ~IdenticalFailuresSignal(<<>>)
  <2>1. TrailingFailures(<<>>) = {}
      BY <1>2 DEF TrailingFailures
  <2> QED BY <1>1, <1>3, <2>1 DEF IdenticalFailuresSignal
<1>6. ~CircularSignal(<<>>)
  <2>1. \A f : { i \in DOMAIN <<>> : <<>>[i].fingerprint = f } = {}
      BY <1>2
  <2>2. ~(0 >= CircularThreshold)
      BY <1>1 DEF CircularThreshold
  <2> QED BY <1>3, <2>1, <2>2 DEF CircularSignal
<1>7. ~SlowTrivialSignal(<<>>)
  <2>1. { i \in DOMAIN <<>> : <<>>[i].slow } = {}
      BY <1>2
  <2> QED BY <1>3, <2>1 DEF SlowTrivialSignal
<1> QED BY <1>4, <1>5, <1>6, <1>7 DEF is_stalled

\* The activities that count were recorded after the boundary.
RecentInv == recent # <<>> => now > boundary

\* What a step does to the clock, the boundary and the activities since.
ClockStep ==
    \/ UNCHANGED <<recent, boundary>> /\ now' >= now
    \/ recent' = <<>>
    \/ now' > boundary' /\ now' >= now

LEMMA ClockStepNext ==
    ASSUME WalkInv, StartInv, [Next]_vars
    PROVE  ClockStep
<1>n. now \in Nat /\ Times \subseteq Nat
    BY WatchdogAssumption DEF WalkInv, TypeOK
<1>1. ASSUME NEW t, NEW io, NEW x, Start(t, x, io) \/ RecordProgress(t, x, io)
      PROVE  ClockStep
    BY <1>1 DEF Start, RecordProgress, ClockStep, StartInv, workVars
<1>2. ASSUME NEW t, NEW io, NEW x,
             \/ Advance(t, x, io) \/ Checkpoint(t, x, io) \/ Complete(t, io)
             \/ RecordEscalation(t, x) \/ BeginRecovery(t, io) \/ RecordRecoveryFailure(t, io)
             \/ Evaluate(t, io)
      PROVE  ClockStep
    BY <1>2 DEF Advance, Checkpoint, Complete, RecordEscalation, BeginRecovery,
       RecordRecoveryFailure, Evaluate, ObserveTime, ClockStep, workVars
<1>3. ASSUME NEW t, NEW io, NEW r, NEW d, RecordRecoverySuccess(t, r, d, io)
      PROVE  ClockStep
    BY <1>3 DEF RecordRecoverySuccess, ClockStep
<1>4. ASSUME NEW t, NEW io, NEW a, NEW err, RecordActivity(t, a, err, io)
      PROVE  ClockStep
    BY <1>4 DEF RecordActivity, ObserveTime, ClockStep
<1>5. CASE SyncHeartbeat \/ UNCHANGED vars
    BY <1>n, <1>5 DEF SyncHeartbeat, vars, clockVars, workVars, ClockStep
<1> QED BY <1>1, <1>2, <1>3, <1>4, <1>5 DEF Next, ResolveRecovery

LEMMA RecentInvHolds ==
    Spec => []RecentInv
<1>1. Init => RecentInv
    BY DEF Init, RecentInv
<1>2. ASSUME WatchdogInv, WatchdogInv', RecentInv, [Next]_vars
      PROVE  RecentInv'
  <2>1. ClockStep /\ now \in Nat /\ now' \in Nat /\ boundary \in Nat /\ boundary' \in Nat
      BY <1>2, ClockStepNext DEF WatchdogInv, WalkInv, TypeOK
  <2> QED BY <1>2, <2>1 DEF ClockStep, RecentInv
<1> QED BY <1>1, <1>2, WatchdogInvHolds, PTL DEF Spec

\* A stall is never opened by time alone, nor by activity that progress or a
\* successful recovery has put behind the boundary: whatever the thresholds.
THEOREM StallsNeedActivity == Spec => TimeAloneNeverStalls
<1>1. ASSUME WatchdogInv, RecentInv, [Next]_vars, episode' # episode
      PROVE  recent' # <<>> /\ now' > boundary
  <2>n. now \in Nat /\ boundary \in Nat /\ Times \subseteq Nat
      BY <1>1, WatchdogAssumption DEF WatchdogInv, WalkInv, TypeOK
  <2>1. ASSUME NEW t, NEW io, Evaluate(t, io)
        PROVE  recent' # <<>> /\ now' > boundary
    <3>1. t \in Nat /\ t >= now /\ now' = t
        BY <2>n, <2>1 DEF Evaluate, ObserveTime
    <3>2. is_stalled(t, boundary, recent) /\ recent' = recent
        BY <1>1, <2>1 DEF Evaluate, episodeVars, workVars
    <3>3. recent # <<>>
        BY <3>2, QuietIsNotStalled
    <3> QED BY <1>1, <2>n, <3>1, <3>2, <3>3 DEF RecentInv
  <2>2. ASSUME NEW t, NEW io, NEW a, NEW err, RecordActivity(t, a, err, io)
        PROVE  recent' # <<>> /\ now' > boundary
    <3>1. t \in Nat /\ t >= now /\ now' = t
        BY <2>n, <2>2 DEF RecordActivity, ObserveTime
    <3>2. recent' = IF t > boundary THEN Append(recent, a) ELSE recent
        BY <2>2 DEF RecordActivity
    <3>3. is_stalled(t, boundary, recent')
        BY <1>1, <2>2 DEF RecordActivity, episodeVars
    <3>4. recent' # <<>>
        BY <3>3, QuietIsNotStalled
    <3> QED BY <1>1, <2>n, <3>1, <3>2, <3>4 DEF RecentInv
  <2>3. ASSUME NEW t, NEW io, NEW x,
               \/ Start(t, x, io) \/ Advance(t, x, io) \/ RecordProgress(t, x, io)
               \/ Checkpoint(t, x, io) \/ Complete(t, io) \/ RecordEscalation(t, x)
        PROVE  FALSE
      BY <1>1, <2>3 DEF Start, Advance, RecordProgress, Checkpoint, Complete,
         RecordEscalation, episodeVars
  <2>4. ASSUME NEW t, NEW io, NEW r, NEW d,
               \/ BeginRecovery(t, io)
               \/ RecordRecoverySuccess(t, r, d, io) \/ RecordRecoveryFailure(t, io)
        PROVE  FALSE
      BY <1>1, <2>4 DEF BeginRecovery, RecordRecoverySuccess, RecordRecoveryFailure
  <2>5. CASE SyncHeartbeat \/ UNCHANGED vars
      BY <1>1, <2>5 DEF SyncHeartbeat, vars, episodeVars
  <2> QED BY <1>1, <2>1, <2>2, <2>3, <2>4, <2>5 DEF Next, ResolveRecovery
<1> QED BY <1>1, RecentInvHolds, WatchdogInvHolds, PTL DEF Spec, TimeAloneNeverStalls

-----------------------------------------------------------------------------
(* The heartbeat file *)

\* What a step does to the file: it leaves the file and what the file shows, it
\* writes what the state now is, or it leaves the file marked as stale.
MirrorStep ==
    \/ UNCHANGED <<heartbeat, dirty, started>> /\ CurrentProjection' = CurrentProjection
    \/ heartbeat' = CurrentProjection'
    \/ dirty'

LEMMA ShownStateUnchanged ==
    ASSUME UNCHANGED <<state, boundary, evidence, tried, error, pending>>,
           guard'.total_attempts = guard.total_attempts
    PROVE  CurrentProjection' = CurrentProjection
BY DEF CurrentProjection, Projection

LEMMA WriteMirrors ==
    ASSUME Persistent, NEW io \in 0..1, WriteHeartbeat(io)
    PROVE  MirrorStep
<1>1. CASE io = 0
    BY <1>1 DEF WriteHeartbeat, MirrorStep
<1>2. CASE io # 0
  <2>1. io > 0
      BY <1>2
  <2> QED BY <2>1 DEF WriteHeartbeat, MirrorStep
<1> QED BY <1>1, <1>2

LEMMA StallMirrors ==
    ASSUME Persistent, NEW g, NEW writes \in { 2, 3 }, NEW io \in 0..writes,
           Stall(g, io, writes)
    PROVE  MirrorStep
<1>1. CASE io < writes
    BY <1>1 DEF Stall, MirrorStep
<1>2. CASE io = writes
  <2>1. io # 0 /\ io # 1
      BY <1>2
  <2> QED BY <2>1 DEF Stall, MirrorStep
<1> QED BY <1>1, <1>2

LEMMA MirrorNext ==
    ASSUME WalkInv, Persistent, [Next]_vars
    PROVE  MirrorStep
<1>g. guard \in LoopGuard
    BY DEF WalkInv, TypeOK
<1>i. Io(1) \subseteq 0..1 /\ Io(2) \subseteq 0..2 /\ Io(3) \subseteq 0..3
    BY DEF Io
<1>1. ASSUME NEW t, NEW io \in Io(1), NEW x,
             \/ Start(t, x, io) \/ Advance(t, x, io) \/ RecordProgress(t, x, io)
             \/ Checkpoint(t, x, io) \/ Complete(t, io)
      PROVE  MirrorStep
  <2>1. WriteHeartbeat(io)
      BY <1>1 DEF Start, Advance, RecordProgress, Checkpoint, Complete
  <2> QED BY <1>i, <2>1, WriteMirrors
<1>2. ASSUME NEW t, NEW io \in Io(1), NEW r, NEW d,
             \/ BeginRecovery(t, io) \/ RecordRecoverySuccess(t, r, d, io)
             \/ RecordRecoveryFailure(t, io)
      PROVE  MirrorStep
  <2>1. WriteHeartbeat(io)
      BY <1>2 DEF BeginRecovery, RecordRecoverySuccess, RecordRecoveryFailure
  <2> QED BY <1>i, <2>1, WriteMirrors
<1>3. ASSUME NEW t, NEW s, RecordEscalation(t, s)
      PROVE  MirrorStep
  <2>1. /\ UNCHANGED <<heartbeat, dirty, started, state, boundary, evidence, tried, error, pending>>
        /\ guard' \in { guard, guard_record_escalation(guard) }
      BY <1>3 DEF RecordEscalation, mirrorVars, workVars, episodeVars
  <2>2. guard'.total_attempts = guard.total_attempts
      BY <1>g, <2>1, GuardGlobals
  <2> QED BY <2>1, <2>2, ShownStateUnchanged DEF MirrorStep
<1>4. ASSUME NEW t, NEW io \in Io(2), Evaluate(t, io)
      PROVE  MirrorStep
  <2>1. CASE Stall(guard, io, 2)
      BY <1>i, <2>1, StallMirrors
  <2>2. CASE UNCHANGED <<state, started, boundary, workVars, guard, episodeVars, error,
                         mirrorVars>>
      BY <2>2, ShownStateUnchanged DEF MirrorStep, workVars, episodeVars, mirrorVars
  <2> QED BY <1>4, <2>1, <2>2 DEF Evaluate
<1>5. ASSUME NEW t, NEW a, NEW err, NEW io \in Io(3), RecordActivity(t, a, err, io)
      PROVE  MirrorStep
  <2>1. \/ \E g : Stall(g, io, 3)
        \/ WriteHeartbeat(io)
      BY <1>5 DEF RecordActivity
  <2>2. CASE WriteHeartbeat(io)
    <3>1. io = 0 \/ io > 0
        BY <1>i
    <3> QED BY <2>2, <3>1 DEF WriteHeartbeat, MirrorStep
  <2> QED BY <1>i, <2>1, <2>2, StallMirrors
<1>6. CASE SyncHeartbeat
  <2>1. /\ heartbeat' = CurrentProjection
        /\ UNCHANGED <<state, boundary, evidence, tried, error, pending, guard>>
      BY <1>6 DEF SyncHeartbeat, clockVars, workVars, episodeVars
  <2> QED BY <2>1, ShownStateUnchanged DEF MirrorStep
<1>7. CASE UNCHANGED vars
    BY <1>7, ShownStateUnchanged DEF vars, clockVars, workVars, episodeVars, mirrorVars, MirrorStep
<1> QED BY <1>1, <1>2, <1>3, <1>4, <1>5, <1>6, <1>7 DEF Next, ResolveRecovery

\* While the heartbeat is not dirty its file shows the current state, after any
\* sequence of failed, cut short and repeated writes.
THEOREM HeartbeatIsFresh == Spec => []HeartbeatFresh
<1>1. Init => HeartbeatFresh
    BY DEF Init, HeartbeatFresh
<1>2. ASSUME WalkInv, HeartbeatFresh, [Next]_vars
      PROVE  HeartbeatFresh'
    BY <1>2, MirrorNext DEF MirrorStep, HeartbeatFresh
<1> QED BY <1>1, <1>2, WalkInvHolds, PTL DEF Spec
=============================================================================
