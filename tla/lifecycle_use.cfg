SPECIFICATION Spec
CONSTANTS
    Setups <- ThreeSetups
    Rank <- HashOrder
    MaxMissing = 2
    MaxTime = 3
    MaxRecorded = 5
INVARIANTS OneActive HistorySaysState ReplayHarmless
PROPERTIES OppositesInvalidated HistoryFrozen
