------------------------------ MODULE Routing ------------------------------
(***************************************************************************)
(* routing.py: the model tier and the reasoning effort for a task, two     *)
(* decisions from two blends of its complexity c and its risk r.           *)
(***************************************************************************)
EXTENDS Analysis, FiniteSetsExt

CriticalRiskOverride == 340 * Precision
CriticalRiskMinTier == ADVANCED
MaxThresholdShift == 60 * Precision

AtLeast(rank, floor) == IF rank < floor THEN floor ELSE rank

\* The critical signals of a risk assessment under a policy.
critical_signals(r, policy) ==
    { s \in CriticalSignals : r.factors[s] >= policy.critical_risk.at[s] }

\* Faulty variant: latency counts against cost.
ShiftLatencyReversed(policy) ==
    LET w == policy.routing_weights
    IN  (MaxThresholdShift * (w.cost - w.latency - w.quality))
            \div (w.cost + w.quality + w.latency)

\* How far the weights move every tier threshold: cost and latency up, quality
\* down, at most by 0.15 either way.  Exact for weights with a whole result.
threshold_shift(policy) ==
    LET w == policy.routing_weights
    IN  (MaxThresholdShift * (w.cost + w.latency - w.quality))
            \div (w.cost + w.quality + w.latency)

clip(value) == Max({ 0, Min({ ScoreOne, value }) })

\* The highest rank whose breakpoint a score clears; rank 0 has none.
HighestCleared(score, breakpoints) ==
    Max({ 0 } \cup { i \in DOMAIN breakpoints : score >= breakpoints[i] })

\* Faulty variant: a critical signal is left to the blended score.
TierByBlendOnly(c, r, policy) ==
    LET at == [ i \in DOMAIN policy.routing_thresholds |->
                    clip(policy.routing_thresholds[i] + threshold_shift(policy)) ]
        routed == HighestCleared((c.score + r.score) \div 2, at)
    IN  IF r.score >= CriticalRiskOverride THEN AtLeast(routed, CriticalRiskMinTier)
        ELSE routed

\* The cheapest sufficient tier, and the two floors under it.  The blend is
\* half and half; comparing whole numbers, half a point changes nothing.
select_model_tier(c, r, policy) ==
    LET at == [ i \in DOMAIN policy.routing_thresholds |->
                    clip(policy.routing_thresholds[i] + threshold_shift(policy)) ]
        routed == HighestCleared((c.score + r.score) \div 2, at)
        blended == IF r.score >= CriticalRiskOverride
                   THEN AtLeast(routed, CriticalRiskMinTier) ELSE routed
    IN  IF critical_signals(r, policy) # {}
        THEN AtLeast(blended, policy.critical_risk.min_tier) ELSE blended

\* The blend is 0.35 to 0.65.
select_reasoning_effort(c, r, policy) ==
    LET routed == HighestCleared((7 * c.score + 13 * r.score) \div 20,
                                 policy.reasoning_thresholds)
        floored == AtLeast(routed, policy.default_reasoning_floor)
    IN  IF critical_signals(r, policy) # {}
        THEN AtLeast(floored, policy.critical_risk.min_reasoning) ELSE floored

route(c, r, policy) ==
    [ tier      |-> select_model_tier(c, r, policy),
      reasoning |-> select_reasoning_effort(c, r, policy) ]
=============================================================================
