SPECIFICATION PipelineSpec
CONSTANTS
    Setups <- TwoSetups
    Rank <- HashOrder
    MaxMissing = 1
    MaxTime = 2
    MaxRecorded = 3
    EligibleKinds <- DefaultKinds
    MaxPerCycle = 1
    Channels = 2
    MaxAttempts = 2
    MaxEntries = 1
    MaxRuns = 2
INVARIANTS PipelineTypeOK AlertOnce AlertsAreTrue
CHECK_DEADLOCK FALSE
