CONSTANTS
    Size = 4
    Ops <- MCOps
    Offs <- MCOffs
    Aligns = {2, 3}
    Chunk = 2
    StrCap = 2
    MaxSteps = 1
VIEW MCView
SPECIFICATION Spec
INVARIANTS TypeOK InBounds StepsAreNesting
PROPERTIES GetRestores LoopsTestAll StringsEndAtTerminator
