SPECIFICATION Spec
CONSTANTS
    Commands = {c1}
    Procs = {p1}
    BrokerDedupes = TRUE
    MaxCalls = 5
    MaxTime = 2
    MaxCrashes = 2
INVARIANTS TypeOK OutcomeIsTrue AttemptsAccounted AtMostPredecessor
PROPERTIES NoBlindRetry RecordSurvives HistoryGrows TornIsFrozen ImplementsLedger
CHECK_DEADLOCK FALSE
