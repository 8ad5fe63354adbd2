SPECIFICATION SignalSpec
CONSTANTS
    Bars <- FiveBars
    Lookbacks = {1, 2}
    Confirmations = 2
    PoolTolerance = 1000
    RangeTolerance = 2
    MinSwings = 4
    MinFlat = 2
    MaxCandles = 7
    Recency <- Weekly
    MinHistory = 1
    MaxValidation = 2
INVARIANTS TrendsAgree OneSignalAtATime
PROPERTIES NoRepaint EventsSettle SignalsSettle
CHECK_DEADLOCK FALSE
