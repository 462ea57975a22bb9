CONSTANTS
    MaxLen = 3
    Names = {a}
    Kinds = {"I8", "I16"}
    Targets = {0}
    Sizes = {2}
    Units = {1, 2}
    Aligns = {3}
    MaxSteps = 1
    PadChunk = 1
    NoPos = NoPos
VIEW MCView
SPECIFICATION Spec
INVARIANTS TypeOK HolesAreReserved FinishedIsComplete ReservedIsWritten
PROPERTIES FillFrame
