SPECIFICATION Spec
CONSTANTS
    Commands = {c1}
    Procs = {p1, p2}
    BrokerDedupes = TRUE
    MaxCalls = 3
    MaxTime = 1
    MaxCrashes = 1
INVARIANTS RecordedOrderExists SettledIsTrue
SYMMETRY CallerSymmetry
CHECK_DEADLOCK FALSE
