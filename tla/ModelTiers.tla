----------------------------- MODULE ModelTiers -----------------------------
(***************************************************************************)
(* The model tiers and reasoning efforts of models.py, by their positions  *)
(* in escalation.py's ladders (their `rank'), and the cost estimate of     *)
(* routing.py.  Costs are integers: thousandths of a unit when tokens are  *)
(* counted in thousands, millionths when they are counted one by one.      *)
(***************************************************************************)
EXTENDS Naturals

FAST == 0
STANDARD == 1
ADVANCED == 2
FRONTIER == 3
ModelTier == FAST..FRONTIER

NONE == 0
LOW == 1
MEDIUM == 2
HIGH == 3
XHIGH == 4
MAX == 5
ReasoningEffort == NONE..MAX

\* RELATIVE_COST_PER_1K_TOKENS, in thousandths of a unit.
CostPer1kTokens(tier) ==
    CASE tier = FAST     -> 1
      [] tier = STANDARD -> 4
      [] tier = ADVANCED -> 18
      [] tier = FRONTIER -> 70

estimate_cost(tier, tokens) == CostPer1kTokens(tier) * tokens

\* Faulty variant: the ladder is climbed without its upper end.
UpUnclamped(step, top) == step + 1

\* The step of _next_step and of planning.py's _ONE_STEP_UP: up a ladder,
\* stopping at its top.
Up(step, top) == IF step + 1 > top THEN top ELSE step + 1
=============================================================================
