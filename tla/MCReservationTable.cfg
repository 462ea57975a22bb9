CONSTANTS
    Names <- MCNames
    Kinds = {"I32"}
    Hash <- MCHash
    Positions = {0, 1}
    InitCap = 4
    SizeMax = 8
    NoKey = NoKey
    NoPos = NoPos
SPECIFICATION Spec
INVARIANTS TypeOK IndInv ReservationsFindable CountsExact
PROPERTIES ImplementsReservations
