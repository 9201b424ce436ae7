------------------------------ MODULE Planning ------------------------------
(***************************************************************************)
(* planning.py: the agents that staff a task, in the order they run, and   *)
(* the plan that holds them, or the hard budget it would break.            *)
(***************************************************************************)
EXTENDS Routing, Functions

ResearcherAmbiguity == 10 * Precision
DualResearcherAmbiguity == 15 * Precision
PlannerArchitectural == 10 * Precision
PriorFailures == 10 * Precision
JudgeRisk == 300 * Precision

OneStepDown(tier) == IF tier = FAST THEN FAST ELSE tier - 1
OneStepUp(tier) == Up(tier, FRONTIER)

Agent(role, tier, reasoning, count) ==
    [ role |-> role, tier |-> tier, reasoning |-> reasoning, count |-> count ]

\* An agent that joins on a condition.
Joins(condition, agent) == IF condition THEN <<agent>> ELSE <<>>

\* Any one of these is reason enough for more than a lone builder.
needs_multi_agent(c, r, policy) ==
    \/ c.score >= policy.multi_agent_complexity_threshold
    \/ r.score >= policy.multi_agent_risk_threshold
    \/ c.factors.ambiguity >= ResearcherAmbiguity
    \/ c.factors.architectural_impact >= PlannerArchitectural
    \/ r.factors.prior_failures >= PriorFailures
    \/ critical_signals(r, policy) # {} /\ policy.critical_risk.require_review

researcher_count(c) ==
    CASE c.factors.ambiguity >= DualResearcherAmbiguity -> 2
      [] c.factors.ambiguity < ResearcherAmbiguity      -> 0
      [] OTHER                                          -> 1

\* build_execution_strategy: the agents in execution order.
build_execution_strategy(c, r, primary, policy) ==
    LET builder == Agent("builder", primary.tier, primary.reasoning, 1)
        risky == r.score >= JudgeRisk
        reviewer_tier == IF r.score >= policy.multi_agent_risk_threshold
                         THEN OneStepUp(primary.tier) ELSE primary.tier
        judge_tier == IF risky THEN OneStepUp(primary.tier) ELSE primary.tier
    IN  IF ~needs_multi_agent(c, r, policy)
        THEN <<builder>>
        ELSE Joins(c.factors.architectural_impact >= PlannerArchitectural,
                   Agent("planner", primary.tier, LOW, 1))
             \o Joins(researcher_count(c) > 0,
                      Agent("researcher", OneStepDown(primary.tier), MEDIUM,
                            researcher_count(c)))
             \o Joins(researcher_count(c) >= 2 \/ risky,
                      Agent("judge", judge_tier, HIGH, 1))
             \o <<builder, Agent("reviewer", reviewer_tier, MEDIUM, 1)>>

agent_count(agents) ==
    SumFunction([ i \in DOMAIN agents |-> agents[i].count ])

\* The documented cost of a team that reads `tokens' each.
TeamCost(agents, tokens) ==
    SumFunction([ i \in DOMAIN agents |->
                      estimate_cost(agents[i].tier, tokens) * agents[i].count ])

\* int(expected_output_tokens * (2.0 + 4.0 * complexity.score)).
desired_context_budget(task, c) ==
    (task.expected_output_tokens * (2 * ScoreOne + 4 * c.score)) \div ScoreOne

\* Faulty variant: what one agent of the team reads.
TokensOfOne(agents, tokens) == tokens

\* What the team reads, all told.
TeamTokens(agents, tokens) == tokens * agent_count(agents)

AtLeastOne(tokens) == IF tokens < 1 THEN 1 ELSE tokens

NotRefused == "not_refused"

\* build_execution_plan: the plan, with the first hard budget that refuses it.
build_execution_plan(task, policy) ==
    LET c == assess_complexity(task)
        r == assess_risk(task)
        primary == route(c, r, policy)
        agents == build_execution_strategy(c, r, primary, policy)
        desired == desired_context_budget(task, c)
        context == AtLeastOne(desired)
        cost == TeamCost(agents, context)
    IN  [ refusal |->
              IF agent_count(agents) > policy.budget.max_agents THEN "agents"
              ELSE IF desired > policy.budget.max_context_budget_tokens THEN "context"
              ELSE IF cost > policy.budget.max_estimated_cost THEN "cost"
              ELSE IF TeamTokens(agents, context) > policy.budget.max_estimated_tokens
              THEN "tokens"
              ELSE NotRefused,
          primary_model         |-> primary,
          agents                |-> agents,
          context_budget_tokens |-> context,
          max_estimated_cost    |-> cost,
          review_required       |-> \E i \in DOMAIN agents : agents[i].role = "reviewer" ]

IsReturned(plan) == plan.refusal = NotRefused
=============================================================================
