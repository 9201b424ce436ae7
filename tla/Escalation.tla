----------------------------- MODULE Escalation -----------------------------
(***************************************************************************)
(* escalation.py: when an execution may be moved to a stronger model tier  *)
(* or a higher reasoning effort, within the escalation limit and what the  *)
(* budget ledger can still afford.                                         *)
(***************************************************************************)
EXTENDS WatchdogPolicy, BudgetPool, ModelTiers

\* EscalationSignals, with uncertainty in tenths.  elapsed_seconds is never
\* read by the decision and is left out.
EscalationSignals == [ repeated_failures    : Nat,
                       uncertainty          : 0..10,
                       architectural_risk   : BOOLEAN,
                       security_risk        : BOOLEAN,
                       insufficient_context : BOOLEAN,
                       failed_tests         : BOOLEAN,
                       stalled              : BOOLEAN ]

RepeatedFailureThreshold == 2
UncertaintyThreshold == 6

\* The first signal, in the code's priority, that meets its threshold.
triggering_reason(s) ==
    IF s.security_risk THEN "security_risk"
    ELSE IF s.architectural_risk THEN "architectural_risk"
    ELSE IF s.repeated_failures >= RepeatedFailureThreshold THEN "repeated_failure"
    ELSE IF s.uncertainty >= UncertaintyThreshold THEN "uncertainty"
    ELSE IF s.insufficient_context THEN "insufficient_context"
    ELSE IF s.failed_tests THEN "failed_tests"
    ELSE IF s.stalled THEN "stalled_execution"
    ELSE "no_trigger"

next_step(tier, reasoning) ==
    [ tier |-> Up(tier, FRONTIER), reasoning |-> Up(reasoning, MAX) ]

critical_jump(reasoning) ==
    [ tier |-> FRONTIER, reasoning |-> IF reasoning > HIGH THEN reasoning ELSE HIGH ]

IsCritical(reason) == reason \in { "security_risk", "architectural_risk" }

\* Where an escalation for this reason would lead.
EscalationTarget(tier, reasoning, reason) ==
    IF IsCritical(reason) THEN critical_jump(reasoning) ELSE next_step(tier, reasoning)

\* Faulty variant: the limit is compared strictly, and admits one too many.
LimitAdmitsOneMore(escalations_used) == escalations_used > MaxModelEscalations

AtEscalationLimit(escalations_used) == escalations_used >= MaxModelEscalations

\* decide_escalation's `reason': the trigger when it approves, or why it does
\* not.  ledger is what the ledger has in use.
decide_escalation(tier, reasoning, escalations_used, signals, tokens, ledger) ==
    LET reason == triggering_reason(signals)
        target == EscalationTarget(tier, reasoning, reason)
    IN  IF reason = "no_trigger" THEN "no_trigger"
        ELSE IF AtEscalationLimit(escalations_used) THEN "escalation_limit_reached"
        ELSE IF target.tier = tier /\ target.reasoning = reasoning THEN "ceiling_reached"
        ELSE IF ~can_afford(ledger, tokens, estimate_cost(target.tier, tokens))
             THEN "cost_budget_exceeded"
        ELSE reason

Refusals == { "no_trigger", "escalation_limit_reached", "ceiling_reached",
              "cost_budget_exceeded" }

should_escalate(decision) == decision \notin Refusals
=============================================================================
