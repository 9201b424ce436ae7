----------------------------- MODULE MCPlanning -----------------------------
(***************************************************************************)
(* Tasks on both sides of every staffing threshold, and two whose blended  *)
(* risk is critical, under policies that differ from the default one in    *)
(* one choice each; signals are in hundredths.                             *)
(***************************************************************************)
EXTENDS PlanningSession

\* Where a task is exposed: nowhere, in one signal, or in three at once.
Exposures == { [ security |-> 0,  data |-> 0,  reversibility |-> 100 ],
               [ security |-> 85, data |-> 0,  reversibility |-> 100 ],
               [ security |-> 0,  data |-> 0,  reversibility |-> 0 ],
               [ security |-> 95, data |-> 95, reversibility |-> 5 ] }

Task(e, architecture, ambiguity, failures, tokens) ==
    [ files_affected |-> 4, modules_affected |-> 5, prior_failures |-> failures,
      architectural_impact |-> architecture, security_impact |-> e.security,
      data_impact |-> e.data, ambiguity |-> ambiguity, novelty |-> 0,
      reversibility |-> e.reversibility, existing_test_coverage |-> 50,
      expected_output_tokens |-> tokens ]

\* Critical by the blend alone, and critical signals below every other threshold.
NoSignalAlone == [ security |-> 84, data |-> 84, reversibility |-> 16 ]
AllSignals == [ security |-> 99, data |-> 99, reversibility |-> 1 ]

SomeTasks ==
    { Task(e, architecture, ambiguity, failures, tokens) :
          e \in Exposures, architecture \in { 0, 50, 100 }, ambiguity \in { 0, 50, 75 },
          failures \in { 0, 3 }, tokens \in { 0, 2000, 8000, 12000 } }
    \cup { Task(NoSignalAlone, 100, 0, 20, 2000), Task(AllSignals, 49, 0, 2, 2000) }

Weigh(cost, quality, latency) ==
    [DefaultPolicy EXCEPT !.routing_weights =
        [ cost |-> cost, quality |-> quality, latency |-> latency ]]

\* Nothing but a signal of 1.0 is critical, or reason enough for a team.
Lenient ==
    [DefaultPolicy EXCEPT
        !.critical_risk.at = [ s \in CriticalSignals |-> One ],
        !.multi_agent_risk_threshold = ScoreOne,
        !.multi_agent_complexity_threshold = ScoreOne]

SomePolicies ==
    { DefaultPolicy,
      Weigh(5, 0, 0), Weigh(0, 5, 0), Weigh(2, 2, 6),
      [DefaultPolicy EXCEPT !.budget.max_agents = 6],
      [DefaultPolicy EXCEPT !.budget.max_estimated_tokens = 40000],
      [DefaultPolicy EXCEPT !.critical_risk.require_review = FALSE],
      [DefaultPolicy EXCEPT !.critical_risk.at = [ s \in CriticalSignals |-> One ]],
      Lenient }
=============================================================================
