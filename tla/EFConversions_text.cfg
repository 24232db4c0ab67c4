CONSTANTS
    Char <- MCChar
    ASCII <- MCASCII
    DigitOf <- MCDigitOf
    Code <- MCCode
    EscapeCode <- MCEscapeCode
    Half <- MCHalf
    MaxLine = 5
    Formats <- MCFormats
    Lengths = {0, 1, 63, 64}
    StarChars = {1, 11}
    SpecSize = 64
    SpecLimit = 58
    FirstCap = 64
    MaxDoublings = 10
SPECIFICATION Spec
INVARIANTS
    WritesInside
    FormatExact
    ParsedExactly
    RoundTrip
PROPERTIES
    CallsReturn
