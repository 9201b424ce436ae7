--------------------------- MODULE PlanningSession ---------------------------
(***************************************************************************)
(* Successive `agentgear plan' commands: each analyses a task, routes it   *)
(* and builds its plan under the policy it loads.  A step of the           *)
(* specification is a command that changes the task or the policy, so that *)
(* an action property compares the plans of any two tasks, or policies.    *)
(***************************************************************************)
EXTENDS Planning

CONSTANTS Policies, Tasks

ASSUME PoliciesAssumption == Policies # {} /\ \A p \in Policies : ValidPolicy(p)
ASSUME TasksAssumption == Tasks # {} /\ Tasks \subseteq TaskProfile

VARIABLES policy, task, exec_plan
planVars == <<policy, task, exec_plan>>

\* _cmd_plan.
cmd_plan(t, p) ==
    /\ policy' = p
    /\ task' = t
    /\ exec_plan' = build_execution_plan(t, p)

PlanInit ==
    /\ policy \in Policies
    /\ task \in Tasks
    /\ exec_plan = build_execution_plan(task, policy)

PlanAnotherTask == \E t \in Tasks : cmd_plan(t, policy)
PlanUnderAnotherPolicy == \E p \in Policies : cmd_plan(task, p)

PlanNext == PlanAnotherTask \/ PlanUnderAnotherPolicy

PlanSpec == PlanInit /\ [][PlanNext]_planVars
-----------------------------------------------------------------------------
\* No signal of t says that u is the harder task.
IsHarder(t, u) ==
    /\ \A s \in { "files_affected", "modules_affected", "prior_failures",
                  "architectural_impact", "security_impact", "data_impact",
                  "ambiguity", "novelty", "expected_output_tokens" } : t[s] >= u[s]
    /\ \A s \in { "reversibility", "existing_test_coverage" } : t[s] <= u[s]

\* p weighs cost and latency at least as much as q does, and quality no more.
IsThriftier(p, q) ==
    /\ p = [q EXCEPT !.routing_weights = p.routing_weights]
    /\ p.routing_weights.cost >= q.routing_weights.cost
    /\ p.routing_weights.latency >= q.routing_weights.latency
    /\ p.routing_weights.quality <= q.routing_weights.quality

\* The plan of a harder task is nowhere the smaller one: tier, effort, team,
\* context and cost are at least as high, the review is not lost, and a task
\* harder than one that a budget refuses is refused too.  The scores, both
\* ladders, every staffing threshold and every budget have to point the same
\* way (analysis.py, routing.py, planning.py).
HarderIsNeverCheaper ==
    [][ policy' = policy /\ IsHarder(task', task) =>
          /\ exec_plan'.primary_model.tier >= exec_plan.primary_model.tier
          /\ exec_plan'.primary_model.reasoning >= exec_plan.primary_model.reasoning
          /\ agent_count(exec_plan'.agents) >= agent_count(exec_plan.agents)
          /\ exec_plan'.context_budget_tokens >= exec_plan.context_budget_tokens
          /\ exec_plan'.max_estimated_cost >= exec_plan.max_estimated_cost
          /\ exec_plan.review_required => exec_plan'.review_required
          /\ IsReturned(exec_plan') => IsReturned(exec_plan) ]_planVars

\* More weight on cost or latency, or less on quality, never buys a dearer
\* plan, and leaves the effort and the team as they are: the weights move tier
\* thresholds only (routing.py, _threshold_shift).
ThriftNeverRaisesTier ==
    [][ task' = task /\ IsThriftier(policy', policy) =>
          /\ exec_plan'.primary_model.tier <= exec_plan.primary_model.tier
          /\ exec_plan'.primary_model.reasoning = exec_plan.primary_model.reasoning
          /\ agent_count(exec_plan'.agents) = agent_count(exec_plan.agents)
          /\ exec_plan'.max_estimated_cost <= exec_plan.max_estimated_cost ]_planVars

\* One critical signal, however low the blended scores, puts the primary model
\* at the policy's floors and has the work reviewed by another agent
\* (routing.py and planning.py apply the policy's thresholds).  What the analysis
\* calls CRITICAL for the blended score alone, by a threshold of its own, gets
\* the override's tier and the review under every policy, but no floor under the
\* effort: no one signal is high, so enough of the others are to staff a team.
CriticalRiskIsHonoured ==
    LET r == assess_risk(task)
        cr == policy.critical_risk
        by_blend_alone == /\ r.critical
                          /\ \A s \in CriticalSignals :
                                 r.factors[s] < CriticalIndividualRisk
    IN  /\ critical_signals(r, policy) # {} =>
               /\ exec_plan.primary_model.tier >= cr.min_tier
               /\ exec_plan.primary_model.reasoning >= cr.min_reasoning
               /\ cr.require_review => exec_plan.review_required
        /\ by_blend_alone =>
               /\ exec_plan.primary_model.tier >= CriticalRiskMinTier
               /\ exec_plan.review_required
=============================================================================
