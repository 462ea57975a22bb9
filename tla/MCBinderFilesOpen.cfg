SPECIFICATION Spec
CONSTANTS
    Kinds <- MCKinds
    MaxFiles = 2
    MaxMine = 2
INVARIANTS BufferFreedOnce
