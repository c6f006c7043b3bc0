CONSTANTS
    PageSize = 8
    Loops <- MCWindows
    Starts <- MCStarts
    IntMod = 32
    MaxTrips = 12
SPECIFICATION Spec
CHECK_DEADLOCK FALSE
INVARIANT RunsInsideLink
