CONSTANTS
    Thread = {t1, t2}
    Object = {o1, o2, o3, s}
    Static = {s}
    Ref = {r1, r2, r3}
    Nobody = Nobody
SPECIFICATION FairSpec
INVARIANTS
    CountOK
    NoDangling
    BorrowSafe
    OneDestroyer
    NoUnderflow
PROPERTIES
    DyingIsFreed
    ImplementsLifetime
