CONSTANTS
    Data = {d1, d2}
    Byte = {"a"}
    Block = {b1, b2, b3}
    FreesEmpty = TRUE
    MaxLength = 2
SYMMETRY DataSymmetry
SPECIFICATION Spec
INVARIANTS
    OneOwner
    PointerValid
PROPERTIES
    ImplementsBytes
\* A behaviour ends where freed memory is used: what follows is undefined.
CHECK_DEADLOCK FALSE
