CONSTANTS
    Thread = {t1, t2}
    Handle = {h1, h2}
    Desc = {d1, d2}
    MaxFd = 4
    MaxLen = 2
    Locations <- MCLocations
    Lengths = {1}
    Modes = {"w", "rw"}
    Serial = {"move", "range"}
SPECIFICATION Spec
SYMMETRY MCSymmetry
INVARIANTS
    OneOwner
    CursorRestored
    RangeExact
CHECK_DEADLOCK FALSE
