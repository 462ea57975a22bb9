CONSTANTS
    Kinds <- MCKinds
    MaxFiles = 2
    MaxMine = 2
SPECIFICATION Spec
INVARIANTS TypeOK OneOwner OnlyKnownMisuse OnlyKnownLeaks
PROPERTIES FailedCallKeepsFiles
