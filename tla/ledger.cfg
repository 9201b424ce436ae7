SPECIFICATION LedgerSpec
CONSTANTS
    MaxTokens = 5
    MaxCost = 6
    Amounts <- SomeAmounts
    ReservationBound = 4
INVARIANTS
    LedgerTypeOK
    DispatchesCounted
PROPERTIES
    LedgerKeepsPool
    SettledOnce
CHECK_DEADLOCK FALSE
