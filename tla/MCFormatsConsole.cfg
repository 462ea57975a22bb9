CONSTANTS
    Docs <- ConsoleDocs
    Writes <- ConsoleWrites
    Reads <- ConsoleReads
SPECIFICATION Spec
CHECK_DEADLOCK FALSE
INVARIANT ConsoleBlocksWritten
