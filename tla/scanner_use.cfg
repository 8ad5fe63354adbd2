SPECIFICATION FairSpec
CONSTANTS
    Workers = {w1, w2}
    Runners = {r1}
    Manual = {m1, m2}
    Interval = 2
    MaxCycles = 2
    OldReferences = FALSE
INVARIANTS TypeOK NoOverlap BusyIsOwned OneLoop StoppedIsIdle
PROPERTIES BackPressure EveryStopEnds AttemptsGoOn
