CONSTANTS
    Docs <- MCDocs
    Writes <- MCWrites
    Reads <- MCReads
SPECIFICATION Spec
INVARIANTS TypeOK WritersFinish ReadersAgree CellsDisjoint
