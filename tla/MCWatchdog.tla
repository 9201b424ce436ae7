----------------------------- MODULE MCWatchdog -----------------------------
(***************************************************************************)
(* Small instances of ExecutionWatchdog.                                   *)
(***************************************************************************)
EXTENDS ExecutionWatchdogProperties

Ladder2 == <<"re_read_error", "request_human_intervention">>
Ladder3 == <<"re_read_error", "split_task", "request_human_intervention">>

NoSignals == [ repeated_failures |-> 0, uncertainty |-> 0, architectural_risk |-> FALSE,
               security_risk |-> FALSE, insufficient_context |-> FALSE,
               failed_tests |-> FALSE, stalled |-> FALSE ]

\* No trigger, a one-step trigger and a critical one.
SomeSignals == { NoSignals,
                 [NoSignals EXCEPT !.repeated_failures = 2],
                 [NoSignals EXCEPT !.security_risk = TRUE] }
SilentSignals == { NoSignals }

FreeStart == { NothingUsed }
PlannedStart == { NothingUsed, [ tokens |-> 2, cost |-> 2 ] }

\* A watchdog that is not made from a plan, with a context of one thousand tokens.
Unplanned(t, r) == [ tier |-> t, reasoning |-> r, context_budget_tokens |-> 1,
                     planned |-> FALSE, initial |-> NothingUsed ]
FastLow == { Unplanned(FAST, LOW) }
FastMax == { Unplanned(FAST, MAX) }

Times0to1 == 0..1
Times0to2 == 0..2
Times0to3 == 0..3
=============================================================================
