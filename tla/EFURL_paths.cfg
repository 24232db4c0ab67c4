CONSTANTS
    Url = {u1, u2}
    Thread = {t1, t2}
    PathStr = {p1, p2, p3}
    Strings <- MCStrings
    Resolved <- MCResolved
    Names <- MCNames
    MaxNames = 2
    None = None
SPECIFICATION URLSpec
SYMMETRY URLSymmetry
INVARIANTS
    BorrowedPathValid
    PathSplitsAgain
