SPECIFICATION Spec
CONSTANTS
    Commands = {c1}
    Procs = {p1}
    BrokerDedupes = TRUE
    MaxCalls = 2
    MaxTime = 2
    MaxCrashes = 1
INVARIANTS SafeMeansNoOrder
CHECK_DEADLOCK FALSE
