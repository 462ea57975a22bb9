CONSTANTS
    Docs <- MinimalDocs
    Writes <- MinimalWrites
    Reads <- MinimalReads
SPECIFICATION Spec
CHECK_DEADLOCK FALSE
INVARIANT MinimalMapComesBack
