---------------------------- MODULE BudgetLedger ----------------------------
(***************************************************************************)
(* budget.py: ExecutionBudgetLedger.  Users reserve budget before the work *)
(* and later commit (spent) or release (unspent) their reservation; what   *)
(* is in use is never stored but summed over the reservations.  It         *)
(* implements BudgetPool, the view every user of the ledger relies on.     *)
(***************************************************************************)
EXTENDS Naturals, Sequences, FiniteSets, Functions

CONSTANTS
    MaxTokens, MaxCost,  \* max_tokens and max_cost
    Amounts,             \* what users ask for, [tokens, cost]
    ReservationBound     \* bound: reservations made in a behaviour

ASSUME LedgerAssumption ==
    /\ MaxTokens \in Nat \ {0} /\ MaxCost \in Nat \ {0}
    /\ Amounts \subseteq [ tokens : Nat, cost : Nat ]

VARIABLES
    reservations,        \* _reservations; the id is the position
    agent_dispatches     \* agent_dispatches

ledgerVars == <<reservations, agent_dispatches>>

ReservationKind == { "initial_plan", "escalation", "recovery", "agent_dispatch" }
ReservationState == { "reserved", "committed", "released" }
BudgetReservation == [ kind : ReservationKind, tokens : Nat, cost : Nat,
                       state : ReservationState ]

\* The sums of _in_use, committed_* and reserved_*.
TokensIn(states) ==
    SumFunction([ i \in DOMAIN reservations |->
        IF reservations[i].state \in states THEN reservations[i].tokens ELSE 0 ])
CostIn(states) ==
    SumFunction([ i \in DOMAIN reservations |->
        IF reservations[i].state \in states THEN reservations[i].cost ELSE 0 ])

Unreleased == ReservationState \ { "released" }

InUse == [ tokens |-> TokensIn(Unreleased), cost |-> CostIn(Unreleased) ]

Pool == INSTANCE BudgetPool WITH used <- InUse

LedgerInit == reservations = <<>> /\ agent_dispatches = 0

\* reserve(): admitted whole, or refused with nothing changed.
Reserve(kind, amount) ==
    /\ Len(reservations) < ReservationBound
    /\ Pool!can_afford(InUse, amount.tokens, amount.cost)
    /\ reservations' = Append(reservations,
                              [ kind |-> kind, tokens |-> amount.tokens,
                                cost |-> amount.cost, state |-> "reserved" ])
    /\ agent_dispatches' = agent_dispatches + IF kind = "agent_dispatch" THEN 1 ELSE 0

\* Faulty variant: a committed reservation can still be settled.
SettleAgain(id, outcome) ==
    /\ reservations[id].state # "released"
    /\ reservations' = [reservations EXCEPT ![id].state = outcome]
    /\ UNCHANGED agent_dispatches

\* Both settlements require a reservation that is still open.
Settle(id, outcome) ==
    /\ id \in DOMAIN reservations
    /\ reservations[id].state = "reserved"
    /\ reservations' = [reservations EXCEPT ![id].state = outcome]
    /\ UNCHANGED agent_dispatches

Commit(id) == Settle(id, "committed")

\* Faulty variant: a release takes back a dispatch that was counted.
ReleaseDispatch(id) ==
    /\ reservations[id].state = "reserved"
    /\ reservations' = [reservations EXCEPT ![id].state = "released"]
    /\ agent_dispatches' = agent_dispatches - 1

Release(id) == Settle(id, "released")

LedgerNext ==
    \/ \E k \in ReservationKind, a \in Amounts : Reserve(k, a)
    \/ \E id \in DOMAIN reservations : Commit(id)
    \/ \E id \in DOMAIN reservations : Release(id)

LedgerSpec == LedgerInit /\ [][LedgerNext]_ledgerVars
-----------------------------------------------------------------------------
\* The ledger has reservations of known kind and state, with their amounts.
LedgerTypeOK ==
    /\ reservations \in Seq(BudgetReservation)
    /\ agent_dispatches \in Nat

\* reserve/commit/release keep the promise of one pool with hard ceilings:
\* however the reservations of several users interleave, no ceiling is passed
\* and nothing but a release gives budget back.
LedgerKeepsPool == Pool!PoolSpec

\* A reservation is settled once, for good, and never changes its amount:
\* committed spending can never be returned to the pool.
SettledOnce ==
    [][ \A i \in DOMAIN reservations :
            /\ reservations'[i].tokens = reservations[i].tokens
            /\ reservations'[i].cost = reservations[i].cost
            /\ reservations[i].state # "reserved"
                 => reservations'[i].state = reservations[i].state ]_ledgerVars

\* agent_dispatches counts every agent ever dispatched, released ones included.
DispatchesCounted ==
    agent_dispatches
        = Cardinality({ i \in DOMAIN reservations :
                            reservations[i].kind = "agent_dispatch" })
=============================================================================
