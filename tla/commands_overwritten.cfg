SPECIFICATION ChainSpec
CONSTANTS
    c1 = c1
    c2 = c2
    p1 = p1
    Callers <- TwoCallers
    Plans <- OnePlan
    Scopes = {"paper", "other"}
    MaxTime = 1
    MaxIntents = 2
SYMMETRY Interchangeable
CHECK_DEADLOCK FALSE
PROPERTIES NoSilentOverwrite
