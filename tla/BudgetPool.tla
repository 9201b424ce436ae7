----------------------------- MODULE BudgetPool -----------------------------
(***************************************************************************)
(* What a budget ledger promises its users: one pool of tokens and one of  *)
(* cost, both with a hard ceiling.  A charge is admitted whole or not at   *)
(* all, only a refund lowers what is used, and no sequence of admissions   *)
(* passes a ceiling.  BudgetLedger (reservations) and ExecutionWatchdog    *)
(* (start, recovery and escalation charges) are both shown to keep it.     *)
(***************************************************************************)
EXTENDS Naturals

CONSTANTS MaxTokens, MaxCost

\* ExecutionBudgetLedger.__init__: both ceilings are positive.
ASSUME CeilingAssumption == MaxTokens \in Nat \ {0} /\ MaxCost \in Nat \ {0}

VARIABLE used  \* what is not released, [tokens, cost]

Usage == [ tokens : Nat, cost : Nat ]

NothingUsed == [ tokens |-> 0, cost |-> 0 ]

\* Faulty variant: each charge is compared with the ceilings on its own.
AffordableAlone(u, tokens, cost) == tokens <= MaxTokens /\ cost <= MaxCost

\* Faulty variant: the latest charge replaces what is used.
ChargedAfresh(u, tokens, cost) == [ tokens |-> tokens, cost |-> cost ]

can_afford(u, tokens, cost) ==
    /\ u.tokens + tokens <= MaxTokens
    /\ u.cost + cost <= MaxCost

Charged(u, tokens, cost) ==
    [ tokens |-> u.tokens + tokens, cost |-> u.cost + cost ]

WithinCeilings(u) == u.tokens <= MaxTokens /\ u.cost <= MaxCost

PoolInit == used = NothingUsed

\* A charge: nothing goes down, and the result is within both ceilings.
PoolCharge ==
    /\ used' \in Usage
    /\ used'.tokens >= used.tokens /\ used'.cost >= used.cost
    /\ WithinCeilings(used')

\* A refund: nothing goes up.
PoolRefund ==
    /\ used' \in Usage
    /\ used'.tokens <= used.tokens /\ used'.cost <= used.cost

PoolSpec == PoolInit /\ [][PoolCharge \/ PoolRefund]_used

\* Nothing but a charge ever happens: an execution never gets budget back.
ChargeOnlySpec == PoolInit /\ [][PoolCharge]_used
=============================================================================
