SPECIFICATION Spec
CONSTANTS
    Commands = {c1}
    Procs = {p1}
    BrokerDedupes = TRUE
    MaxCalls = 3
    MaxTime = 2
    MaxCrashes = 0
PROPERTIES UndeterminedStaysOpen
CHECK_DEADLOCK FALSE
