CONSTANTS
    Sizes <- MCSizes
    U32 <- MCU32
SPECIFICATION Spec
CHECK_DEADLOCK FALSE
INVARIANTS TypeOK StoredFits ReadsBack IndInv
