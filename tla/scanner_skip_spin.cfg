SPECIFICATION Spec
CONSTANTS
    Workers = {w1, w2}
    Runners = {r1}
    Manual = {m1}
    Interval = 2
    MaxCycles = 2
    OldReferences = FALSE
PROPERTIES SkipThenWait
