------------------------- MODULE MCPlannedWatchdog -------------------------
(***************************************************************************)
(* Planned watchdogs, of one agent and of teams, beside a bare one.  The   *)
(* policy's budgets are so small that a few charges reach both ceilings,   *)
(* and that one of the plans is refused.                                   *)
(***************************************************************************)
EXTENDS MCWatchdog, PlannedWatchdog

SmallPolicy == [DefaultPolicy EXCEPT !.budget.max_estimated_tokens = 6000,
                                     !.budget.max_estimated_cost = 120000]

Task(architecture, security, tokens) ==
    [ files_affected |-> 1, modules_affected |-> 0, prior_failures |-> 0,
      architectural_impact |-> architecture, security_impact |-> security,
      data_impact |-> 0, ambiguity |-> 0, novelty |-> 0, reversibility |-> 100,
      existing_test_coverage |-> 100, expected_output_tokens |-> tokens ]

\* A lone builder, a team of three that leaves too little for a recovery, a
\* reviewed builder on a critical task, and a team with too many tokens.
SomeTasks == { Task(0, 0, 500), Task(100, 0, 500), Task(0, 85, 500), Task(100, 0, 1000) }

\* At the top of one ladder from the start.
BareFastMax == { [ tier |-> FAST, reasoning |-> MAX, context_budget_tokens |-> 1500,
                   planned |-> FALSE, initial |-> NothingUsed ] }
BareCharges == { NothingUsed, [ tokens |-> 3000, cost |-> 3000 ] }

SomeSetups ==
    BareFastMax \cup { from_plan(plan) :
        plan \in { p \in { build_execution_plan(t, SmallPolicy) : t \in SomeTasks } :
                     IsReturned(p) } }
=============================================================================
