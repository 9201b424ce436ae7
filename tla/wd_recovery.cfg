SPECIFICATION Spec
CONSTANTS
    Enabled = TRUE
    NoProgressSeconds = 2
    NoProgressCycles = 2
    MaxIdenticalFailures = 1
    MaxRecoveryAttempts = 3
    MaxNoProgressCycles = 2
    MaxTotalAttempts = 3
    MaxModelEscalations = 1
    Fingerprints = {"f", "g"}
    StrategyLadder <- Ladder2
    MaxTokens = 20
    MaxCost = 100
    Times <- Times0to3
    ActivityBound = 4
    Descriptions = {"d"}
    PendingWork = {"w"}
    Signals <- SilentSignals
    InitialCharges <- FreeStart
    Setups <- FastLow
    Persistent = FALSE
    WritesMayFail = FALSE
INVARIANTS
    EpisodesCloseOnce
    LadderWalk
    PendingOnlyWhileRecovering
    ClosedEpisodesAreResolved
    BlockedIffReported
    LadderNeverRunsOut
    RecoveringWithinBounds
    OneNoProgressCycle
PROPERTIES
    GlobalRecordsOnlyGrow
    LateEventsChangeNothing
    TimeAloneNeverStalls
