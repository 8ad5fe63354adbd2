SPECIFICATION Spec
CONSTANTS
    Operators = {o1, o2}
    Window = 4
    MaxBars = 4
    Shapes <- FourShapes
    MaxEntry = 2
    MaxHolding = 2
    MaxTrades = 1
CONSTRAINT MadeEarly
SYMMETRY OperatorSymmetry
INVARIANTS EntryIsFirst ExitIsFirst BacktestAgrees
PROPERTIES MeasuresSettle
