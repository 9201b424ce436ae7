-------------------------- MODULE ExecutionStates --------------------------
(***************************************************************************)
(* watchdog/state_machine.py: the explicit states of one execution and the *)
(* transitions ExecutionStateMachine.transition() accepts.  Every other    *)
(* module changes an execution's state only along this table.              *)
(***************************************************************************)

ExecutionState == { "planning", "running", "testing", "reviewing",
                    "stalled", "recovering", "blocked", "completed" }

\* _ALLOWED: the legal targets of each state.
Allowed ==
    [ planning   |-> { "running", "stalled" },
      running    |-> { "testing", "reviewing", "stalled" },
      testing    |-> { "running", "reviewing", "stalled" },
      reviewing  |-> { "running", "completed", "stalled" },
      stalled    |-> { "recovering" },
      recovering |-> { "planning", "running", "testing", "reviewing",
                       "stalled", "blocked" },
      blocked    |-> { "recovering" },
      completed  |-> {} ]

can_transition(from, to) == to \in Allowed[from]

\* Faulty variant: BLOCKED admits ordinary events.
ActiveOrBlocked == { "running", "testing", "reviewing", "blocked" }

\* coordinator.py, _ACTIVE_STATES and _RECOVERY_RESUME_STATES.
ActiveStates == { "running", "testing", "reviewing" }
ResumeStates == { "planning" } \cup ActiveStates

\* The targets advance() refuses: each has a method of its own.
DedicatedStates == { "stalled", "recovering", "blocked", "completed" }
=============================================================================
