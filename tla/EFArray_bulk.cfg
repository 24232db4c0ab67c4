CONSTANTS
    Array = {a1, a2}
    Val = {v1, v2}
    Growth = 2
    Capacities <- MCCapacities
    MaxCount = 4
SPECIFICATION FairSpec
INVARIANTS
    RetainBalance
    PrefixStored
    SlackBounded
PROPERTIES
    CallsReturn
