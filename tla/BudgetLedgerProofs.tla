------------------------- MODULE BudgetLedgerProofs -------------------------
(***************************************************************************)
(* Theorems about BudgetLedger, for every ceiling, every set of amounts    *)
(* and any number of reservations: it is well typed, counts its            *)
(* dispatches, settles a reservation once and implements BudgetPool.       *)
(***************************************************************************)
EXTENDS BudgetLedger, SumTheorems, SequenceTheorems, TLAPS

\* A new reservation has the type of one.
LEMMA ReservationTyped ==
    ASSUME NEW k \in ReservationKind, NEW a \in Amounts
    PROVE  /\ a.tokens \in Nat /\ a.cost \in Nat
           /\ [ kind |-> k, tokens |-> a.tokens, cost |-> a.cost,
                state |-> "reserved" ] \in BudgetReservation
BY LedgerAssumption DEF BudgetReservation, ReservationState

\* What a settlement does to the reservations.
LEMMA SettleTyped ==
    ASSUME LedgerTypeOK, NEW id \in DOMAIN reservations,
           NEW outcome \in { "committed", "released" }, Settle(id, outcome)
    PROVE  /\ reservations' \in Seq(BudgetReservation)
           /\ DOMAIN reservations' = DOMAIN reservations
           /\ \A i \in DOMAIN reservations :
                  reservations'[i] = IF i = id
                                     THEN [reservations[i] EXCEPT !.state = outcome]
                                     ELSE reservations[i]
<1> DEFINE r == [reservations[id] EXCEPT !.state = outcome]
<1>1. /\ reservations \in Seq(BudgetReservation)
      /\ id \in 1..Len(reservations) /\ DOMAIN reservations = 1..Len(reservations)
    BY DEF LedgerTypeOK
<1>2. r \in BudgetReservation
  <2>1. reservations[id] \in BudgetReservation
      BY <1>1
  <2>2. outcome \in ReservationState
      BY DEF ReservationState
  <2> QED BY <2>1, <2>2 DEF BudgetReservation
<1>3. reservations' = [reservations EXCEPT ![id] = r]
    BY DEF Settle
<1> HIDE DEF r
<1>4. /\ reservations' \in Seq(BudgetReservation)
      /\ Len(reservations') = Len(reservations)
      /\ \A i \in 1..Len(reservations) :
             reservations'[i] = IF i = id THEN r ELSE reservations[i]
    BY <1>1, <1>2, <1>3, ExceptSeq
<1> QED BY <1>1, <1>4 DEF r

LEMMA LedgerTypeInit ==
    LedgerInit => LedgerTypeOK
BY DEF LedgerInit, LedgerTypeOK

LEMMA LedgerTypeNext ==
    LedgerTypeOK /\ [LedgerNext]_ledgerVars => LedgerTypeOK'
<1> SUFFICES ASSUME LedgerTypeOK, [LedgerNext]_ledgerVars PROVE LedgerTypeOK'
    OBVIOUS
<1>1. ASSUME NEW k \in ReservationKind, NEW a \in Amounts, Reserve(k, a)
      PROVE  LedgerTypeOK'
    BY <1>1, ReservationTyped DEF Reserve, LedgerTypeOK
<1>2. ASSUME NEW id \in DOMAIN reservations, NEW outcome \in { "committed", "released" },
             Settle(id, outcome)
      PROVE  LedgerTypeOK'
  <2>1. reservations' \in Seq(BudgetReservation)
      BY <1>2, SettleTyped
  <2> QED BY <1>2, <2>1 DEF Settle, LedgerTypeOK
<1>3. CASE UNCHANGED ledgerVars
    BY <1>3 DEF ledgerVars, LedgerTypeOK
<1> QED BY <1>1, <1>2, <1>3 DEF LedgerNext, Commit, Release

\* The reservations and the dispatch counter keep their types.
THEOREM LedgerTyped == LedgerSpec => []LedgerTypeOK
BY LedgerTypeInit, LedgerTypeNext, PTL DEF LedgerSpec
-----------------------------------------------------------------------------
\* A reservation is settled once, for good, and never changes its amount.
THEOREM ReservationsSettleOnce == LedgerSpec => SettledOnce
<1> DEFINE Kept ==
        \A i \in DOMAIN reservations :
            /\ reservations'[i].tokens = reservations[i].tokens
            /\ reservations'[i].cost = reservations[i].cost
            /\ reservations[i].state # "reserved"
                 => reservations'[i].state = reservations[i].state
<1>1. ASSUME LedgerTypeOK, [LedgerNext]_ledgerVars
      PROVE  [Kept]_ledgerVars
  <2>1. ASSUME NEW k \in ReservationKind, NEW a \in Amounts, Reserve(k, a)
        PROVE  Kept
    <3>1. \A i \in DOMAIN reservations : reservations'[i] = reservations[i]
        BY <1>1, <2>1, ReservationTyped DEF Reserve, LedgerTypeOK
    <3> QED BY <3>1
  <2>2. ASSUME NEW id \in DOMAIN reservations, NEW outcome \in { "committed", "released" },
               Settle(id, outcome)
        PROVE  Kept
    <3>1. \A i \in DOMAIN reservations :
              reservations'[i] = IF i = id THEN [reservations[i] EXCEPT !.state = outcome]
                                 ELSE reservations[i]
        BY <1>1, <2>2, SettleTyped
    <3>2. \A i \in DOMAIN reservations : reservations[i] \in BudgetReservation
        BY <1>1 DEF LedgerTypeOK
    <3>3. reservations[id].state = "reserved"
        BY <2>2 DEF Settle
    <3> QED BY <3>1, <3>2, <3>3 DEF BudgetReservation
  <2> QED BY <1>1, <2>1, <2>2 DEF LedgerNext, Commit, Release
<1>2. LedgerSpec => [][LedgerNext]_ledgerVars
    BY DEF LedgerSpec
<1> QED BY <1>1, <1>2, LedgerTyped, PTL DEF SettledOnce
-----------------------------------------------------------------------------
Dispatches == { i \in DOMAIN reservations : reservations[i].kind = "agent_dispatch" }

LEMMA DispatchesAreFinite ==
    ASSUME LedgerTypeOK PROVE IsFiniteSet(Dispatches)
<1>1. DOMAIN reservations = 1..Len(reservations) /\ Len(reservations) \in Nat
    BY DEF LedgerTypeOK
<1>2. IsFiniteSet(DOMAIN reservations)
    BY <1>1, FS_Interval
<1> QED BY <1>2, FS_Subset DEF Dispatches

LEMMA DispatchesCountedNext ==
    LedgerTypeOK /\ DispatchesCounted /\ [LedgerNext]_ledgerVars => DispatchesCounted'
<1> SUFFICES ASSUME LedgerTypeOK, agent_dispatches = Cardinality(Dispatches),
                    [LedgerNext]_ledgerVars
             PROVE  agent_dispatches' = Cardinality(Dispatches')
    BY DEF DispatchesCounted, Dispatches
<1>1. ASSUME NEW k \in ReservationKind, NEW a \in Amounts, Reserve(k, a)
      PROVE  agent_dispatches' = Cardinality(Dispatches')
  <2> DEFINE n == Len(reservations)
             r == [ kind |-> k, tokens |-> a.tokens, cost |-> a.cost, state |-> "reserved" ]
  <2>1. /\ reservations' = Append(reservations, r) /\ r \in BudgetReservation
        /\ r.kind = k
        /\ agent_dispatches' = agent_dispatches + IF k = "agent_dispatch" THEN 1 ELSE 0
      BY <1>1, ReservationTyped DEF Reserve
  <2> HIDE DEF r
  <2>2. /\ n \in Nat /\ DOMAIN reservations = 1..n /\ DOMAIN reservations' = 1..(n + 1)
        /\ \A i \in 1..n : reservations'[i] = reservations[i]
        /\ reservations'[n + 1] = r
      BY <2>1 DEF LedgerTypeOK
  <2>3. Dispatches' = IF k = "agent_dispatch" THEN Dispatches \cup {n + 1} ELSE Dispatches
      BY <2>1, <2>2 DEF Dispatches
  <2>4. n + 1 \notin Dispatches /\ IsFiniteSet(Dispatches) /\ Cardinality(Dispatches) \in Nat
      BY <2>2, DispatchesAreFinite, FS_CardinalityType DEF Dispatches
  <2>5. Cardinality(Dispatches \cup {n + 1}) = Cardinality(Dispatches) + 1
      BY <2>4, FS_AddElement
  <2> QED BY <2>1, <2>3, <2>4, <2>5
<1>2. ASSUME NEW id \in DOMAIN reservations, NEW outcome \in { "committed", "released" },
             Settle(id, outcome)
      PROVE  agent_dispatches' = Cardinality(Dispatches')
  <2>1. /\ DOMAIN reservations' = DOMAIN reservations
        /\ \A i \in DOMAIN reservations :
               reservations'[i] = IF i = id THEN [reservations[i] EXCEPT !.state = outcome]
                                  ELSE reservations[i]
      BY <1>2, SettleTyped
  <2>2. \A i \in DOMAIN reservations : reservations[i] \in BudgetReservation
      BY DEF LedgerTypeOK
  <2>3. \A i \in DOMAIN reservations : reservations'[i].kind = reservations[i].kind
      BY <2>1, <2>2 DEF BudgetReservation
  <2>4. Dispatches' = Dispatches
      BY <2>1, <2>3 DEF Dispatches
  <2> QED BY <1>2, <2>4 DEF Settle
<1>3. CASE UNCHANGED ledgerVars
    BY <1>3 DEF ledgerVars, Dispatches
<1> QED BY <1>1, <1>2, <1>3 DEF LedgerNext, Commit, Release

\* Every agent ever dispatched is counted, whatever became of its reservation.
THEOREM DispatchesAreCounted == LedgerSpec => []DispatchesCounted
<1>1. LedgerInit => DispatchesCounted
  <2>1. \A i \in DOMAIN <<>> : FALSE
      OBVIOUS
  <2> QED BY <2>1, FS_EmptySet DEF LedgerInit, DispatchesCounted
<1> QED BY <1>1, DispatchesCountedNext, LedgerTyped, PTL DEF LedgerSpec
-----------------------------------------------------------------------------
(* The ledger implements the pool *)

\* What each reservation has in use.
TokensOf == [ i \in DOMAIN reservations |->
                IF reservations[i].state \in Unreleased THEN reservations[i].tokens ELSE 0 ]
CostOf == [ i \in DOMAIN reservations |->
                IF reservations[i].state \in Unreleased THEN reservations[i].cost ELSE 0 ]

LEMMA InUseIsSum ==
    ASSUME LedgerTypeOK
    PROVE  /\ DOMAIN reservations = 1..Len(reservations) /\ Len(reservations) \in Nat
           /\ InUse.tokens = SumFunctionOnSet(TokensOf, 1..Len(reservations))
           /\ InUse.cost = SumFunctionOnSet(CostOf, 1..Len(reservations))
           /\ \A i \in DOMAIN reservations : TokensOf[i] \in Nat /\ CostOf[i] \in Nat
           /\ InUse \in [ tokens : Nat, cost : Nat ]
<1>1. DOMAIN reservations = 1..Len(reservations) /\ Len(reservations) \in Nat
    BY DEF LedgerTypeOK
<1>2. /\ InUse = [ tokens |-> InUse.tokens, cost |-> InUse.cost ]
      /\ InUse.tokens = SumFunctionOnSet(TokensOf, DOMAIN TokensOf)
      /\ InUse.cost = SumFunctionOnSet(CostOf, DOMAIN CostOf)
    BY DEF InUse, TokensIn, CostIn, SumFunction, TokensOf, CostOf
<1>3. DOMAIN TokensOf = DOMAIN reservations /\ DOMAIN CostOf = DOMAIN reservations
    BY DEF TokensOf, CostOf
<1>4. \A i \in DOMAIN reservations : TokensOf[i] \in Nat /\ CostOf[i] \in Nat
  <2>1. \A i \in DOMAIN reservations : reservations[i] \in BudgetReservation
      BY DEF LedgerTypeOK
  <2> QED BY <2>1 DEF TokensOf, CostOf, BudgetReservation
<1>5. /\ SumFunctionOnSet(TokensOf, 1..Len(reservations)) \in Nat
      /\ SumFunctionOnSet(CostOf, 1..Len(reservations)) \in Nat
    BY <1>1, <1>4, SumIsNat
<1> QED BY <1>1, <1>2, <1>3, <1>4, <1>5

LEMMA InUseTyped ==
    LedgerTypeOK => InUse \in Pool!Usage
BY InUseIsSum DEF Pool!Usage

\* A reservation that is admitted adds its amount to what is in use.
LEMMA ReserveCharges ==
    ASSUME LedgerTypeOK, LedgerTypeOK', NEW k \in ReservationKind, NEW a \in Amounts,
           Reserve(k, a)
    PROVE  /\ InUse'.tokens = InUse.tokens + a.tokens
           /\ InUse'.cost = InUse.cost + a.cost
<1> DEFINE n == Len(reservations)
           r == [ kind |-> k, tokens |-> a.tokens, cost |-> a.cost, state |-> "reserved" ]
<1>1. /\ reservations' = Append(reservations, r) /\ r \in BudgetReservation
      /\ r.tokens = a.tokens /\ r.cost = a.cost /\ r.state = "reserved"
      /\ a.tokens \in Nat /\ a.cost \in Nat
    BY ReservationTyped DEF Reserve
<1> HIDE DEF r
<1>2. /\ n \in Nat /\ DOMAIN reservations = 1..n /\ DOMAIN reservations' = 1..(n + 1)
      /\ Len(reservations') = n + 1
      /\ \A i \in 1..n : reservations'[i] = reservations[i]
      /\ reservations'[n + 1] = r
    BY <1>1 DEF LedgerTypeOK
<1>3. \A i \in 1..n : TokensOf'[i] = TokensOf[i] /\ CostOf'[i] = CostOf[i]
    BY <1>2 DEF TokensOf, CostOf
<1>4. "reserved" \in Unreleased
    BY DEF Unreleased, ReservationState
<1>5. TokensOf'[n + 1] = a.tokens /\ CostOf'[n + 1] = a.cost
    BY <1>1, <1>2, <1>4 DEF TokensOf, CostOf
<1>6. \A i \in 1..n : TokensOf[i] \in Nat /\ CostOf[i] \in Nat
    BY <1>2, InUseIsSum
<1>7. /\ SumFunctionOnSet(TokensOf', 1..(n + 1))
            = SumFunctionOnSet(TokensOf, 1..n) + TokensOf'[n + 1]
      /\ SumFunctionOnSet(CostOf', 1..(n + 1))
            = SumFunctionOnSet(CostOf, 1..n) + CostOf'[n + 1]
  <2>1. /\ n \in Nat /\ TokensOf'[n + 1] \in Nat /\ CostOf'[n + 1] \in Nat
      BY <1>1, <1>2, <1>5
  <2>2. \A i \in 1..n : TokensOf[i] \in Nat /\ TokensOf'[i] = TokensOf[i]
      BY <1>3, <1>6
  <2>3. \A i \in 1..n : CostOf[i] \in Nat /\ CostOf'[i] = CostOf[i]
      BY <1>3, <1>6
  <2> HIDE DEF n
  <2>4. SumFunctionOnSet(TokensOf', 1..(n + 1))
            = SumFunctionOnSet(TokensOf, 1..n) + TokensOf'[n + 1]
      BY <2>1, <2>2, SumAppended
  <2>5. SumFunctionOnSet(CostOf', 1..(n + 1))
            = SumFunctionOnSet(CostOf, 1..n) + CostOf'[n + 1]
      BY <2>1, <2>3, SumAppended
  <2> QED BY <2>4, <2>5
<1>8. /\ InUse.tokens = SumFunctionOnSet(TokensOf, 1..n)
      /\ InUse.cost = SumFunctionOnSet(CostOf, 1..n)
    BY InUseIsSum
<1>9. /\ InUse'.tokens = SumFunctionOnSet(TokensOf', 1..(n + 1))
      /\ InUse'.cost = SumFunctionOnSet(CostOf', 1..(n + 1))
    BY <1>2 DEF InUse, TokensIn, CostIn, SumFunction, TokensOf, CostOf
<1> QED BY <1>5, <1>7, <1>8, <1>9

\* A settlement adds nothing to what is in use, and a commit takes nothing away.
LEMMA SettleNeverCharges ==
    ASSUME LedgerTypeOK, LedgerTypeOK', NEW id \in DOMAIN reservations,
           NEW outcome \in { "committed", "released" }, Settle(id, outcome)
    PROVE  /\ InUse'.tokens <= InUse.tokens /\ InUse'.cost <= InUse.cost
           /\ outcome = "committed" => InUse' = InUse
<1> DEFINE n == Len(reservations)
<1>1. /\ n \in Nat /\ DOMAIN reservations = 1..n /\ DOMAIN reservations' = 1..n
      /\ \A i \in 1..n :
             reservations'[i] = IF i = id THEN [reservations[i] EXCEPT !.state = outcome]
                                ELSE reservations[i]
    BY SettleTyped, InUseIsSum
<1>2. \A i \in 1..n : reservations[i] \in BudgetReservation
    BY <1>1 DEF LedgerTypeOK
<1>3. /\ reservations[id].state = "reserved"
      /\ "reserved" \in Unreleased /\ "committed" \in Unreleased
    BY DEF Settle, Unreleased, ReservationState
<1>4. \A i \in 1..n : /\ reservations'[i].tokens = reservations[i].tokens
                      /\ reservations'[i].cost = reservations[i].cost
                      /\ reservations'[i].state = IF i = id THEN outcome
                                                  ELSE reservations[i].state
    BY <1>1, <1>2 DEF BudgetReservation
<1>5. \A i \in 1..n : TokensOf[i] \in Nat /\ CostOf[i] \in Nat
    BY <1>1, InUseIsSum
<1>6. \A i \in 1..n : /\ TokensOf'[i] \in { 0, TokensOf[i] }
                      /\ CostOf'[i] \in { 0, CostOf[i] }
    BY <1>1, <1>3, <1>4 DEF TokensOf, CostOf
<1>7. /\ InUse.tokens = SumFunctionOnSet(TokensOf, 1..n)
      /\ InUse.cost = SumFunctionOnSet(CostOf, 1..n)
      /\ InUse'.tokens = SumFunctionOnSet(TokensOf', 1..n)
      /\ InUse'.cost = SumFunctionOnSet(CostOf', 1..n)
    BY <1>1, InUseIsSum DEF InUse, TokensIn, CostIn, SumFunction, TokensOf, CostOf
<1>8. IsFiniteSet(1..n)
    BY <1>1, FS_Interval
<1>9. InUse'.tokens <= InUse.tokens /\ InUse'.cost <= InUse.cost
  <2>1. \A i \in 1..n : /\ TokensOf'[i] \in Nat /\ TokensOf'[i] <= TokensOf[i]
                        /\ CostOf'[i] \in Nat /\ CostOf'[i] <= CostOf[i]
      BY <1>5, <1>6
  <2> QED BY <1>5, <1>7, <1>8, <2>1, SumMonotone
<1>10. ASSUME outcome = "committed" PROVE InUse' = InUse
  <2>1. TokensOf' = TokensOf /\ CostOf' = CostOf
      BY <1>1, <1>3, <1>4, <1>10 DEF TokensOf, CostOf
  <2> QED BY <2>1 DEF InUse, TokensIn, CostIn, TokensOf, CostOf
<1> QED BY <1>9, <1>10

\* reserve, commit and release implement one pool with hard ceilings, however
\* the reservations of several users interleave.
THEOREM LedgerImplementsPool == LedgerSpec => LedgerKeepsPool
<1>1. LedgerInit => Pool!PoolInit
  <2>1. ASSUME LedgerInit PROVE InUse = [ tokens |-> 0, cost |-> 0 ]
    <3>1. \A e : SumFunction([ i \in DOMAIN <<>> |-> e ]) = 0
        BY SumOfNone DEF SumFunction
    <3> QED BY <2>1, SumOfNone DEF LedgerInit, InUse, TokensIn, CostIn, SumFunction
  <2> QED BY <2>1 DEF Pool!PoolInit, Pool!NothingUsed
<1>2. ASSUME LedgerTypeOK, LedgerTypeOK', [LedgerNext]_ledgerVars
      PROVE  [Pool!PoolCharge \/ Pool!PoolRefund]_InUse
  <2>1. /\ InUse \in Pool!Usage /\ InUse' \in Pool!Usage
    <3>1. (LedgerTypeOK => InUse \in Pool!Usage)'
        BY InUseTyped, PTL
    <3> QED BY <1>2, <3>1, InUseTyped DEF Pool!Usage
  <2>2. ASSUME NEW k \in ReservationKind, NEW a \in Amounts, Reserve(k, a)
        PROVE  Pool!PoolCharge
    <3>1. /\ InUse'.tokens = InUse.tokens + a.tokens
          /\ InUse'.cost = InUse.cost + a.cost
        BY <1>2, <2>2, ReserveCharges
    <3>2. InUse.tokens + a.tokens <= MaxTokens /\ InUse.cost + a.cost <= MaxCost
        BY <2>2 DEF Reserve, Pool!can_afford
    <3>3. a.tokens \in Nat /\ a.cost \in Nat
        BY ReservationTyped
    <3> QED BY <2>1, <3>1, <3>2, <3>3
            DEF Pool!PoolCharge, Pool!WithinCeilings, Pool!Usage
  <2>3. ASSUME NEW id \in DOMAIN reservations, NEW outcome \in { "committed", "released" },
               Settle(id, outcome)
        PROVE  Pool!PoolRefund
      BY <1>2, <2>1, <2>3, SettleNeverCharges DEF Pool!PoolRefund
  <2>4. CASE UNCHANGED ledgerVars
      BY <2>4 DEF ledgerVars, InUse, TokensIn, CostIn
  <2> QED BY <1>2, <2>2, <2>3, <2>4 DEF LedgerNext, Commit, Release
<1> QED BY <1>1, <1>2, LedgerTyped, PTL DEF LedgerSpec, LedgerKeepsPool, Pool!PoolSpec
=============================================================================
