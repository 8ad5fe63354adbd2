SPECIFICATION Spec
CONSTANTS
    Operators = {o1}
    Window = 2
    MaxBars = 4
    Shapes <- FourShapes
    MaxEntry = 1
    MaxHolding = 2
    MaxTrades = 1
INVARIANTS EntryInTime
