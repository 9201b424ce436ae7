SPECIFICATION SupervisedSpec
CONSTANTS
    Enabled = TRUE
    NoProgressSeconds = 2
    NoProgressCycles = 1
    MaxIdenticalFailures = 1
    MaxRecoveryAttempts = 2
    MaxNoProgressCycles = 2
    MaxTotalAttempts = 5
    MaxModelEscalations = 1
    Fingerprints = {"f"}
    StrategyLadder <- Ladder3
    MaxTokens = 20
    MaxCost = 100
    Times <- Times0to2
    ActivityBound = 2
    Descriptions = {"d"}
    PendingWork = {"w"}
    Signals <- SilentSignals
    InitialCharges <- FreeStart
    Setups <- FastLow
    Persistent = TRUE
    WritesMayFail = TRUE
INVARIANTS
    HeartbeatFresh
PROPERTIES
    EpisodesEnd
