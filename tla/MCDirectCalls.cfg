CONSTANTS
    absent = absent
    Absent = absent
    NaN = nan
    Rejected = rejected
    Programs <- MCCalling
    RatioArgs <- MCRatios
    Draws = {1, 3}
    Fuel = 25
SPECIFICATION Spec
CHECK_DEADLOCK FALSE
INVARIANT OnlyDirectCounted
