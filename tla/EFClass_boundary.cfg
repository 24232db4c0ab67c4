CONSTANTS
    Thread = {t1, t2}
    Class = {c1, c2}
    FoundationClass = FoundationClass
    NoClass = NoClass
    Garbage = Garbage
    Nobody = Nobody
    Builtin = 1
    Chunk = 3
    MaxID = 7
SPECIFICATION RegistrySpec
INVARIANT
    RoomForID
CHECK_DEADLOCK FALSE
