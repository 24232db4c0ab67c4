SPECIFICATION Spec
CONSTANTS
    MaxOpen = 3
    MaxBody = 2
    Byte = {"cr", "lf", "x", "s"}
    Client = {c1}
    MaxNode = 3
    MaxDesc = 2
    MaxLen = 2
    MaxLost = 1
    Worlds <- MCWorlds
INVARIANTS
    DescriptorsAccounted
    DataWhole
    BodyExact
PROPERTIES
    HeldIsKept
    LoopsEnd
