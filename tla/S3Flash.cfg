SPECIFICATION Spec
CONSTANTS
    SECTOR = 8
    TX = 2
    WORD = 2
    VOLATILE_SIZE = 16
    MTRR_SIZE = 8
    NONVOLATILE_SIZE = 8
    Boots <- MCBoots
    MaxBoots = 3
    MaxCuts = 2
    MaxFaults = 2
    MaxSleeps = 2
INVARIANTS FlashSound DataBack MtrrsBack
PROPERTIES SameDataNoWear
CHECK_DEADLOCK FALSE
