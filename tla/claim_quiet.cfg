SPECIFICATION Spec
CONSTANTS
    Enabled = TRUE
    NoProgressSeconds = 2
    NoProgressCycles = 2
    MaxIdenticalFailures = 1
    MaxRecoveryAttempts = 2
    MaxNoProgressCycles = 2
    MaxTotalAttempts = 3
    MaxModelEscalations = 1
    Fingerprints = {"f"}
    StrategyLadder <- Ladder3
    MaxTokens = 20
    MaxCost = 100
    Times <- Times0to1
    ActivityBound = 3
    Descriptions = {"d"}
    PendingWork = {}
    Signals <- SilentSignals
    InitialCharges <- FreeStart
    Setups <- FastLow
    Persistent = FALSE
    WritesMayFail = FALSE
INVARIANTS
    NeverGoesQuiet
