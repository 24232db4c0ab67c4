CONSTANTS
    Walker = {w}
    B = 2
    Window = 3
    Values <- MCValues
    Buffers <- MCBuffers
    Skips <- MCSkips
    MaxBytes = 4
SPECIFICATION WalkerSpec
INVARIANTS
    ReadBack
