--------------------------- MODULE PlannedWatchdog ---------------------------
(***************************************************************************)
(* ExecutionWatchdog.from_plan: planning and supervision joined by one     *)
(* policy.  The plan's hard budgets are the ceilings of the watchdog's     *)
(* ledger, and its estimate for the whole team is what start() charges.    *)
(***************************************************************************)
EXTENDS ExecutionWatchdogProperties, Planning

CONSTANTS
    ThePolicy,      \* what the plan is built under and the watchdog runs under
    PlannedTasks,   \* the tasks that are planned
    BareSetups      \* the watchdogs made without a plan

\* Faulty variant: the estimate of one agent is committed for the team.
FromPlanOfOne(plan) ==
    [ tier                  |-> plan.primary_model.tier,
      reasoning             |-> plan.primary_model.reasoning,
      context_budget_tokens |-> plan.context_budget_tokens,
      planned               |-> TRUE,
      initial |-> [ tokens |-> plan.context_budget_tokens,
                    cost   |-> estimate_cost(plan.primary_model.tier,
                                             plan.context_budget_tokens) ] ]

from_plan(plan) ==
    [ tier                  |-> plan.primary_model.tier,
      reasoning             |-> plan.primary_model.reasoning,
      context_budget_tokens |-> plan.context_budget_tokens,
      planned               |-> TRUE,
      initial |-> [ tokens |-> plan.context_budget_tokens * agent_count(plan.agents),
                    cost   |-> plan.max_estimated_cost ] ]

ReturnedPlans ==
    { plan \in { build_execution_plan(t, ThePolicy) : t \in PlannedTasks } :
        IsReturned(plan) }

\* One policy gives the plan its budgets and the ledger its ceilings; only
\* from_plan() makes a watchdog whose start charges a plan's estimate.
ASSUME OnePolicyAssumption ==
    /\ ValidPolicy(ThePolicy)
    /\ PlannedTasks \subseteq TaskProfile
    /\ MaxTokens = ThePolicy.budget.max_estimated_tokens
    /\ MaxCost = ThePolicy.budget.max_estimated_cost
    /\ \A s \in BareSetups : ~s.planned
    /\ Setups = BareSetups \cup { from_plan(plan) : plan \in ReturnedPlans }
-----------------------------------------------------------------------------
\* Every plan that planning returns can be started: the estimate its watchdog
\* commits fits the ledger, although planning (planning.py) compares the budget
\* with expressions of its own and the coordinator computes what it commits.
PlannedStartIsAdmitted ==
    ~started /\ setup.planned =>
        can_afford(used, setup.initial.tokens, setup.initial.cost)

\* The escalations and recoveries of a planned execution get what the estimate
\* for the whole team has left of the budget, and no more: they never treat the
\* planned work as free (from_plan's docstring).
PlannedWorkIsNotFree ==
    started /\ setup.planned =>
        \E plan \in ReturnedPlans :
            /\ plan.context_budget_tokens = setup.context_budget_tokens
            /\ plan.primary_model.tier = setup.tier
            /\ plan.context_budget_tokens * agent_count(plan.agents)
               + setup.context_budget_tokens * (escalations_used + RecoveriesStarted)
                   <= MaxTokens
=============================================================================
