SPECIFICATION Spec
CONSTANTS
    Commands = {c1}
    Procs = {p1, p2}
    BrokerDedupes = TRUE
    MaxCalls = 3
    MaxTime = 2
    MaxCrashes = 0
PROPERTIES RecordSurvives
CHECK_DEADLOCK FALSE
