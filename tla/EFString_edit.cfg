CONSTANTS
    Str = {s1, s2}
    Byte = {" ", "/", "L", "C", "+"}
    Space = {" "}
    Texts <- MCTexts
    Separators <- MCSeparators
    MaxLength = 3
SYMMETRY StringSymmetry
SPECIFICATION Spec
INVARIANTS
    ValidUnlessCut
    SplitCorrect
PROPERTIES
    ImplementsText
