------------------------------ MODULE Analysis ------------------------------
(***************************************************************************)
(* analysis.py: the complexity and the risk score of a task profile, as    *)
(* weighted sums of its signals.  Weights are in twentieths.               *)
(***************************************************************************)
EXTENDS PlanningPolicy

\* models.py, TaskProfile.
TaskProfile ==
    [ files_affected : Nat, modules_affected : Nat, prior_failures : Nat,
      architectural_impact : Factor, security_impact : Factor, data_impact : Factor,
      ambiguity : Factor, novelty : Factor, reversibility : Factor,
      existing_test_coverage : Factor, expected_output_tokens : Nat ]

\* A count as a signal; what does not come to a full step is cut off.
saturating(count, k) == (One * count) \div (count + k)

complexity_factors(task) ==
    [ files_affected       |-> saturating(task.files_affected, 12),
      modules_affected     |-> saturating(task.modules_affected, 5),
      architectural_impact |-> task.architectural_impact,
      ambiguity            |-> task.ambiguity,
      novelty              |-> task.novelty,
      low_test_coverage    |-> One - task.existing_test_coverage ]

assess_complexity(task) ==
    LET f == complexity_factors(task)
    IN  [ factors |-> f,
          score   |-> 4 * f.files_affected + 4 * f.modules_affected
                      + 5 * f.architectural_impact + 3 * f.ambiguity
                      + 2 * f.novelty + 2 * f.low_test_coverage ]

\* Faulty variant: reversibility counts as if it were the risk.
RiskFactorsReversed(task) ==
    [ security_impact      |-> task.security_impact,
      data_impact          |-> task.data_impact,
      irreversibility      |-> task.reversibility,
      architectural_impact |-> task.architectural_impact,
      prior_failures       |-> saturating(task.prior_failures, 3) ]

risk_factors(task) ==
    [ security_impact      |-> task.security_impact,
      data_impact          |-> task.data_impact,
      irreversibility      |-> One - task.reversibility,
      architectural_impact |-> task.architectural_impact,
      prior_failures       |-> saturating(task.prior_failures, 3) ]

CriticalIndividualRisk == 17 * Precision

\* The levels below CRITICAL differ in what is printed only.
IsCriticalLevel(factors, score) ==
    \/ \E s \in CriticalSignals : factors[s] >= CriticalIndividualRisk
    \/ score >= 340 * Precision

assess_risk(task) ==
    LET f == risk_factors(task)
        score == 6 * f.security_impact + 5 * f.data_impact + 4 * f.irreversibility
                 + 2 * f.architectural_impact + 3 * f.prior_failures
    IN  [ factors |-> f, score |-> score, critical |-> IsCriticalLevel(f, score) ]
=============================================================================
