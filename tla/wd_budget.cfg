SPECIFICATION Spec
CONSTANTS
    Precision = 5
    Enabled = TRUE
    NoProgressSeconds = 2
    NoProgressCycles = 2
    MaxIdenticalFailures = 1
    MaxRecoveryAttempts = 2
    MaxNoProgressCycles = 2
    MaxTotalAttempts = 9
    MaxModelEscalations = 2
    Fingerprints = {"f"}
    StrategyLadder <- Ladder3
    MaxTokens = 6000
    MaxCost = 120000
    Times <- Times0to2
    ActivityBound = 4
    Descriptions = {"d"}
    PendingWork = {}
    Signals <- SomeSignals
    InitialCharges <- BareCharges
    BareSetups <- BareFastMax
    PlannedTasks <- SomeTasks
    ThePolicy <- SmallPolicy
    Setups <- SomeSetups
    Persistent = FALSE
    WritesMayFail = FALSE
INVARIANTS
    TypeOK
    EscalationsBounded
    BudgetAccounted
    BudgetWithinCeilings
    PlannedStartIsAdmitted
    PlannedWorkIsNotFree
PROPERTIES
    BudgetIsCharged
