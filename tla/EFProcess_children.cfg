CONSTANTS
    Thread = {t1, t2}
    Object = {o1, o2}
    Pid = {1, 2}
    MaxProcs = 2
SPECIFICATION Spec
SYMMETRY ProcessSymmetry
INVARIANTS
    StrangersSpared
    OneDescription
    NoRunawayChild
CHECK_DEADLOCK FALSE
