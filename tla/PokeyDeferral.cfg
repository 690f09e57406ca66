CONSTANTS
    LineCycles = 7
    Lines = 2
    Steals = {0, 3}
    MaxCost = 7
    Costs = {2, 3, 7}
    Period = 3
    ByteTime = 3
SPECIFICATION DSpec
INVARIANTS TypeOK EachCycleOnce LagIsQuiet NoFreeCycles
PROPERTY ImplementsLineClock
