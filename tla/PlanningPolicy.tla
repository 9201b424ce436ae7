--------------------------- MODULE PlanningPolicy ---------------------------
(***************************************************************************)
(* config.py: the parts of a Policy that routing and planning read.  A     *)
(* policy is a record, so that one run can compare several.                *)
(*                                                                         *)
(* A task's signals and the scores are fractions in the code.  Here a      *)
(* signal is a whole number of steps, `Precision' of them to a twentieth,  *)
(* and a score is counted in twentieths of a step: twentieths are what the *)
(* weights and the documented thresholds have in common.                   *)
(* The breakpoints of a ladder are a sequence: the i-th is what a score    *)
(* needs for the tier, or the effort, of rank i.                           *)
(***************************************************************************)
EXTENDS Integers, Sequences, ModelTiers

CONSTANT Precision

ASSUME PrecisionAssumption == Precision \in Nat \ {0}

One == 20 * Precision           \* the signal 1.0
Factor == 0..One

ScoreOne == 400 * Precision     \* the score 1.0
Score == 0..ScoreOne

CriticalSignals == { "security_impact", "data_impact", "irreversibility" }

\* A ladder's breakpoints: equal ones are allowed, and skip a rank.
IsAscending(breakpoints) ==
    \A i, j \in DOMAIN breakpoints : i <= j => breakpoints[i] <= breakpoints[j]

Policy ==
    [ routing_weights      : [ cost : Nat, quality : Nat, latency : Nat ],
      routing_thresholds   : [ 1..FRONTIER -> Score ],
      reasoning_thresholds : [ 1..MAX -> Score ],
      critical_risk        : [ at             : [ CriticalSignals -> Factor ],
                               min_tier       : ModelTier,
                               min_reasoning  : ReasoningEffort,
                               require_review : BOOLEAN ],
      default_reasoning_floor          : ReasoningEffort,
      multi_agent_risk_threshold       : Score,
      multi_agent_complexity_threshold : Score,
      budget : [ max_agents                : Nat \ {0},
                 max_context_budget_tokens : Nat \ {0},
                 max_estimated_cost        : Nat \ {0},
                 max_estimated_tokens      : Nat \ {0} ] ]

\* What the __post_init__ methods enforce.
ValidPolicy(p) ==
    /\ p \in Policy
    /\ \E w \in { "cost", "quality", "latency" } : p.routing_weights[w] > 0
    /\ IsAscending(p.routing_thresholds)
    /\ IsAscending(p.reasoning_thresholds)

DefaultCriticalRisk ==
    [ at             |-> [ s \in CriticalSignals |-> 17 * Precision ],
      min_tier       |-> ADVANCED,
      min_reasoning  |-> HIGH,
      require_review |-> TRUE ]

\* Policy.default(), with costs in millionths of a unit.
DefaultPolicy ==
    [ routing_weights      |-> [ cost |-> 2, quality |-> 2, latency |-> 1 ],
      routing_thresholds   |-> <<100 * Precision, 220 * Precision, 320 * Precision>>,
      reasoning_thresholds |-> <<60 * Precision, 140 * Precision, 240 * Precision,
                                 320 * Precision, 372 * Precision>>,
      critical_risk        |-> DefaultCriticalRisk,
      default_reasoning_floor          |-> LOW,
      multi_agent_risk_threshold       |-> 200 * Precision,
      multi_agent_complexity_threshold |-> 220 * Precision,
      budget |-> [ max_agents                |-> 4,
                   max_context_budget_tokens |-> 32000,
                   max_estimated_cost        |-> 5000000,
                   max_estimated_tokens      |-> 200000 ] ]
=============================================================================
