CONSTANTS
    PageSize = 8
    Loops <- MCLoops
    Starts <- MCStarts
    IntMod = 32
    MaxTrips = 12
SPECIFICATION Spec
CHECK_DEADLOCK FALSE
INVARIANTS RunsInsideLink RunInv
PROPERTY LoopEnds
